------------------------------- MODULE Accounts -------------------------------
(***************************************************************************)
(* Accounts and who may act for them: registration, the sample client that *)
(* a process seeds when it starts, login by address, and the access token  *)
(* that logout and session revocation ask for.  core/services/auth,        *)
(* core/repository/client, core/router/auth, core/middleware/auth.go,      *)
(* core/utils/token, on the refresh tokens of RefreshTokens.               *)
(*                                                                         *)
(* Registration looks for the address and inserts it in two statements.    *)
(* The look, and every login, compares lower(email); the unique constraint *)
(* of the table compares the addresses as they were typed.                 *)
(***************************************************************************)
EXTENDS RefreshTokens

CONSTANTS
    Emails,       \* addresses as a caller may type them
    Lower,        \* [Emails -> Emails]: lower() of the database
    SampleEmail,  \* sampleClientEmail
    AccessTTL,    \* JWT_ACCESS_TTL, in clock units
    NoClient      \* the value of clients for a row that does not exist

ASSUME EmailAssumption == Lower \in [Emails -> Emails] /\ SampleEmail \in Emails
ASSUME AccessAssumption == AccessTTL \in Nat

VARIABLES
    clients,  \* [Clients -> Client \cup {NoClient}]: the clients table
    joining   \* [Requests -> Joining]: the registration or seed in progress

joinVars == <<clients, joining>>
allVars == <<vars, joinVars>>

\* known is history: the clients there were when the address was looked up.
Client == [email : Emails, known : SUBSET Clients]

Joining == [pc : {"idle"}] \cup
           [pc : {"create"}, email : Emails, known : SUBSET Clients, seed : BOOLEAN] \cup
           [pc : {"issue"}, client : Clients]

NotJoining == [pc |-> "idle"]

ASSUME NoClientAssumption == NoClient \notin Client

Registered == {c \in Clients : clients[c] # NoClient}

\* FindByEmail: the rows of this address, up to case.
Matching(email) == {c \in Registered : Lower[clients[c].email] = Lower[email]}

\* Variant: the look compares like the constraint.
ExistsAsTyped(email) == \E c \in Registered : clients[c].email = email

EmailExists(email) == Matching(email) # {}

-----------------------------------------------------------------------------
AccountsInit ==
    /\ Init
    /\ clients = [c \in Clients |-> NoClient]
    /\ joining = [r \in Requests |-> NotJoining]

(***************************************************************************)
(* Registration, served by r, and the seed of a process that starts.       *)
(***************************************************************************)
Free(r) == req[r].pc = "idle" /\ joining[r].pc = "idle"

\* Register up to the hashed password; a known address is refused.
Register(r, email) ==
    /\ Free(r)
    /\ ~EmailExists(email)
    /\ joining' = [joining EXCEPT ![r] =
           [pc |-> "create", email |-> email, known |-> Registered, seed |-> FALSE]]
    /\ UNCHANGED <<vars, clients>>

\* seedSampleClient, which runs beside the requests of other instances.
SeedSampleClient(r) ==
    /\ Free(r)
    /\ ~EmailExists(SampleEmail)
    /\ joining' = [joining EXCEPT ![r] =
           [pc |-> "create", email |-> SampleEmail, known |-> Registered, seed |-> TRUE]]
    /\ UNCHANGED <<vars, clients>>

\* Variant: an INSERT that the constraint refuses is taken for done.
CreateIgnored(r, c) ==
    /\ joining[r].pc = "create"
    /\ c \notin Registered
    /\ joining' = [joining EXCEPT ![r] =
           IF joining[r].seed THEN NotJoining ELSE [pc |-> "issue", client |-> c]]
    /\ UNCHANGED <<vars, clients>>

\* The INSERT with a new id, and UNIQUE (email) on the address as typed.
CreateClient(r, c) ==
    /\ joining[r].pc = "create"
    /\ c \notin Registered
    /\ \A d \in Registered : clients[d].email # joining[r].email
    /\ clients' = [clients EXCEPT ![c] = [email |-> joining[r].email, known |-> joining[r].known]]
    /\ joining' = [joining EXCEPT ![r] =
           IF joining[r].seed THEN NotJoining ELSE [pc |-> "issue", client |-> c]]
    /\ UNCHANGED vars

\* issueTokens of Register.
IssueFirst(r) ==
    /\ joining[r].pc = "issue"
    /\ Login(joining[r].client)
    /\ joining' = [joining EXCEPT ![r] = NotJoining]
    /\ UNCHANGED clients

\* The constraint refuses, a call fails, or the process dies: an account
\* already inserted stays, with no token.
FailJoining(r) ==
    /\ joining[r].pc # "idle"
    /\ joining' = [joining EXCEPT ![r] = NotJoining]
    /\ UNCHANGED <<vars, clients>>

-----------------------------------------------------------------------------
\* Login: QueryRow takes the first of the rows of the address, in no order.
LoginByEmail(email) ==
    /\ \E c \in Matching(email) : Login(c)
    /\ UNCHANGED joinVars

\* GenerateAccessToken came with refresh token n, VerifyAccessToken accepts it.
AccessValid(n) == now + TTL < tokens[n].expires + AccessTTL

\* middleware.Auth lets a request of client c pass.  No revocation matters to it.
Authenticated(c) == \E n \in answered : tokens[n].client = c /\ AccessValid(n)

\* ListSessions: live or not.
Sessions(c) == {n \in Ids : tokens[n].client = c}

\* Logout, LogoutAll and RevokeSession behind the middleware.
ProtectedStep(c) ==
    /\ Authenticated(c)
    /\ \/ RevokeAll(c, "logout")
       \/ \E n \in Sessions(c) : RevokeSession(c, n)
    /\ UNCHANGED joinVars

AccountsNext ==
    \/ \E r \in Requests :
           \/ \E email \in Emails : Register(r, email)
           \/ SeedSampleClient(r)
           \/ \E c \in Clients : CreateClient(r, c)
           \/ IssueFirst(r)
           \/ FailJoining(r)
           \/ joining[r].pc = "idle" /\ RefreshStep(r) /\ UNCHANGED joinVars
    \/ \E email \in Emails : LoginByEmail(email)
    \/ \E c \in Clients : ProtectedStep(c)
    \/ Tick /\ UNCHANGED joinVars

AccountsSpec == AccountsInit /\ [][AccountsNext]_allVars

-----------------------------------------------------------------------------
(***************************************************************************)
(* Properties                                                              *)
(***************************************************************************)
\* Besides types: every token belongs to an account.
AccountsTypeOK ==
    /\ clients \in [Clients -> Client \cup {NoClient}]
    /\ joining \in [Requests -> Joining]
    /\ \A n \in Ids : tokens[n].client \in Registered
    /\ \A r \in Requests : joining[r].pc = "issue" => joining[r].client \in Registered

\* No address has two accounts, except for two registrations (or a seed) that
\* both looked before either inserted, and then only if they differ in case.
\* A login with either spelling takes whichever row comes first.
TwinsOverlapped ==
    \A c, d \in Registered :
        c # d /\ Lower[clients[c].email] = Lower[clients[d].email]
        => /\ clients[c].email # clients[d].email
           /\ c \notin clients[d].known /\ d \notin clients[c].known
=============================================================================
