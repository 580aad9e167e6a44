---------------------------- MODULE RefreshTokens ----------------------------
(***************************************************************************)
(* Refresh-token rotation: core/services/auth/auth_service.go on           *)
(* core/repository/client_token/client_token_repository.go.                *)
(*                                                                         *)
(* A refresh is a row of database statements, each on a connection of its  *)
(* own and none in a transaction: read the token, mark it used, insert its *)
(* successor, link the two.  Other refreshes, of the same token too, and   *)
(* logouts run between any two of them, and each may fail.                 *)
(***************************************************************************)
EXTENDS Naturals, Sequences, FiniteSets

CONSTANTS
    Clients,    \* registered clients; the code never deletes one
    Requests,   \* goroutines that serve POST /auth/refresh
    TTL,        \* JWT_REFRESH_TTL, in clock units
    MaxTokens,  \* bound on the rows of client_tokens
    MaxTime,    \* bound on the clock
    MaxFaults   \* bound on the requests that fail half way

ASSUME TTLAssumption == TTL \in Nat
ASSUME BoundAssumption == {MaxTokens, MaxTime, MaxFaults} \subseteq Nat

VARIABLES
    now,       \* the clock of the program and the database
    tokens,    \* rows of client_tokens in insertion order, the position is the id
    answered,  \* ids of the tokens whose raw value some caller was given
    req,       \* [Requests -> Request]: the refresh in progress
    faults,    \* the number of requests that failed half way
    ended,     \* history: families revoked whole with no rotation under way
    raced      \* history: families in which two rotations overlapped

vars == <<now, tokens, answered, req, faults, ended, raced>>

NotRevoked == "active"
\* Logout and LogoutAll revoke the same rows, and nothing reads the text that
\* tells them apart: "logout" stands for both.
Reasons == {"refresh_token_reuse", "logout", "session_revoked"}

\* replacedBy and from are 0 for none.  A family, uuid.New(), is named by its
\* first token.  from is history: the token that was exchanged for this one.
Token == [client : Clients, family : Nat, expires : Nat, used : BOOLEAN,
          replacedBy : Nat, revoked : Reasons \cup {NotRevoked}, from : Nat]

Request == [pc : {"idle", "reuse", "mark", "create", "link", "answer"},
            token : Nat, new : Nat]

Idle == [pc |-> "idle", token |-> 0, new |-> 0]

Ids == 1 .. Len(tokens)
IsExpired(n) == tokens[n].expires <= now
IsRevoked(n) == tokens[n].revoked # NotRevoked
IsReplaced(n) == tokens[n].replacedBy # 0

\* Request r has accepted a token of family f and not yet answered.
Rotating(r, f) ==
    /\ req[r].pc \in {"mark", "create", "link", "answer"}
    /\ tokens[req[r].token].family = f

\* A request may still insert a token into family f.
Inserting(f) ==
    \E r \in Requests : /\ req[r].pc \in {"mark", "create"}
                        /\ tokens[req[r].token].family = f

-----------------------------------------------------------------------------
Init ==
    /\ now = 0
    /\ tokens = << >>
    /\ answered = {}
    /\ req = [r \in Requests |-> Idle]
    /\ faults = 0
    /\ ended = {}
    /\ raced = {}

\* issueTokens for client c in family f, in exchange for token n.
Issue(c, f, n) ==
    /\ Len(tokens) < MaxTokens
    /\ tokens' = Append(tokens,
           [client |-> c, family |-> f, expires |-> now + TTL, used |-> FALSE,
            replacedBy |-> 0, revoked |-> NotRevoked, from |-> n])

\* Variant: no COALESCE.
RevokeAgain(rows, reason) ==
    tokens' = [n \in Ids |->
                  IF n \in rows THEN [tokens[n] EXCEPT !.revoked = reason] ELSE tokens[n]]

\* revoked_at and revoke_reason of the rows: COALESCE keeps what is there.
Revoke(rows, reason) ==
    tokens' = [n \in Ids |->
                  IF n \in rows /\ ~IsRevoked(n)
                  THEN [tokens[n] EXCEPT !.revoked = reason]
                  ELSE tokens[n]]

\* The families among fs are dead from here on, unless a rotation is under way.
End(fs) == ended' = ended \cup {f \in fs : ~Inserting(f)}

(***************************************************************************)
(* Requests that are one statement.                                        *)
(***************************************************************************)
\* Login, and Register once the client exists.
Login(c) ==
    /\ Issue(c, Len(tokens) + 1, 0)
    /\ answered' = answered \cup {Len(tokens) + 1}
    /\ UNCHANGED <<now, req, faults, ended, raced>>

\* RevokeAllByClientID, called by Logout and LogoutAll.
RevokeAll(c, reason) ==
    /\ Revoke({n \in Ids : tokens[n].client = c}, reason)
    /\ End({tokens[n].family : n \in {m \in Ids : tokens[m].client = c}})
    /\ UNCHANGED <<now, answered, req, faults, raced>>

\* RevokeByClientID; an id of another client's session matches no row.
RevokeSession(c, n) ==
    /\ n \in Ids
    /\ tokens[n].client = c
    /\ Revoke({n}, "session_revoked")
    /\ UNCHANGED <<now, answered, req, faults, ended, raced>>

(***************************************************************************)
(* Refresh, served by r.                                                   *)
(***************************************************************************)
\* Request r goes on with token n.
Proceed(r, n) ==
    /\ req' = [req EXCEPT ![r] = [pc |-> "mark", token |-> n, new |-> 0]]
    /\ raced' = IF \E q \in Requests \ {r} : Rotating(q, tokens[n].family)
                THEN raced \cup {tokens[n].family}
                ELSE raced
    /\ UNCHANGED <<now, tokens, answered, faults, ended>>

\* Variant: a replaced token is accepted.
AcceptReplaced(r, n) ==
    /\ req[r].pc = "idle"
    /\ n \in answered
    /\ ~IsExpired(n) /\ ~IsRevoked(n)
    /\ Proceed(r, n)

\* Variant: a revoked token is accepted.
AcceptRevoked(r, n) ==
    /\ req[r].pc = "idle"
    /\ n \in answered
    /\ ~IsExpired(n) /\ ~IsReplaced(n)
    /\ Proceed(r, n)

\* FindByHash and the checks on the row that was read.  A token that is
\* expired or revoked is refused and nothing changes.
Accept(r, n) ==
    /\ req[r].pc = "idle"
    /\ n \in answered
    /\ ~IsExpired(n) /\ ~IsRevoked(n) /\ ~IsReplaced(n)
    /\ req' = [req EXCEPT ![r] = [pc |-> "mark", token |-> n, new |-> 0]]
    /\ raced' = IF \E q \in Requests \ {r} : Rotating(q, tokens[n].family)
                THEN raced \cup {tokens[n].family}
                ELSE raced
    /\ UNCHANGED <<now, tokens, answered, faults, ended>>

DetectReuse(r, n) ==
    /\ req[r].pc = "idle"
    /\ n \in answered
    /\ ~IsExpired(n) /\ ~IsRevoked(n) /\ IsReplaced(n)
    /\ req' = [req EXCEPT ![r] = [pc |-> "reuse", token |-> n, new |-> 0]]
    /\ UNCHANGED <<now, tokens, answered, faults, ended, raced>>

RevokeFamily(r) ==
    /\ req[r].pc = "reuse"
    /\ Revoke({n \in Ids : tokens[n].family = tokens[req[r].token].family},
              "refresh_token_reuse")
    /\ End({tokens[req[r].token].family})
    /\ req' = [req EXCEPT ![r] = Idle]
    /\ UNCHANGED <<now, answered, faults, raced>>

\* clients.FindByID, which finds the client, and MarkUsed.
MarkUsed(r) ==
    /\ req[r].pc = "mark"
    /\ tokens' = [tokens EXCEPT ![req[r].token].used = TRUE]
    /\ req' = [req EXCEPT ![r].pc = "create"]
    /\ UNCHANGED <<now, answered, faults, ended, raced>>

\* Variant: a failed INSERT is taken for done.
CreateNothing(r) ==
    /\ req[r].pc = "create"
    /\ req' = [req EXCEPT ![r] = [pc |-> "link", token |-> req[r].token, new |-> Len(tokens) + 1]]
    /\ UNCHANGED <<now, tokens, answered, faults, ended, raced>>

\* Variant: every token starts a family.
CreateFamily(r) ==
    /\ req[r].pc = "create"
    /\ Issue(tokens[req[r].token].client, Len(tokens) + 1, req[r].token)
    /\ req' = [req EXCEPT ![r] = [pc |-> "link", token |-> req[r].token, new |-> Len(tokens) + 1]]
    /\ UNCHANGED <<now, answered, faults, ended, raced>>

\* The client and the family are those of the row that Accept read.
Create(r) ==
    /\ req[r].pc = "create"
    /\ Issue(tokens[req[r].token].client, tokens[req[r].token].family, req[r].token)
    /\ req' = [req EXCEPT ![r] = [pc |-> "link", token |-> req[r].token, new |-> Len(tokens) + 1]]
    /\ UNCHANGED <<now, answered, faults, ended, raced>>

\* FindByHash of the new token and SetReplacedBy, which overwrites whatever a
\* refresh of the same token may have put there.
SetReplacedBy(r) ==
    /\ req[r].pc = "link"
    /\ tokens' = [tokens EXCEPT ![req[r].token].replacedBy = req[r].new]
    /\ req' = [req EXCEPT ![r].pc = "answer"]
    /\ UNCHANGED <<now, answered, faults, ended, raced>>

Answer(r) ==
    /\ req[r].pc = "answer"
    /\ answered' = answered \cup {req[r].new}
    /\ req' = [req EXCEPT ![r] = Idle]
    /\ UNCHANGED <<now, tokens, faults, ended, raced>>

\* The next statement fails, the answer is lost or the process dies.  What the
\* earlier statements did stays; an error of RevokeFamily is even ignored.
Fail(r) ==
    /\ req[r].pc # "idle"
    /\ faults < MaxFaults
    /\ faults' = faults + 1
    /\ req' = [req EXCEPT ![r] = Idle]
    /\ UNCHANGED <<now, tokens, answered, ended, raced>>

Tick ==
    /\ now < MaxTime
    /\ now' = now + 1
    /\ UNCHANGED <<tokens, answered, req, faults, ended, raced>>

-----------------------------------------------------------------------------
RefreshStep(r) ==
    \/ \E n \in answered : Accept(r, n) \/ DetectReuse(r, n)
    \/ RevokeFamily(r)
    \/ MarkUsed(r) \/ Create(r) \/ SetReplacedBy(r) \/ Answer(r)
    \/ Fail(r)

Next ==
    \/ \E c \in Clients : \/ Login(c)
                          \/ RevokeAll(c, "logout")
                          \/ \E n \in Ids : RevokeSession(c, n)
    \/ \E r \in Requests : RefreshStep(r)
    \/ Tick

Spec == Init /\ [][Next]_vars

-----------------------------------------------------------------------------
(***************************************************************************)
(* Properties                                                              *)
(***************************************************************************)
TypeOK ==
    /\ now \in Nat
    /\ tokens \in Seq(Token)
    /\ answered \subseteq Ids
    /\ req \in [Requests -> Request]
    /\ \A r \in Requests :
           /\ req[r].pc # "idle" => req[r].token \in Ids
           /\ req[r].pc \in {"link", "answer"} => req[r].new \in Ids
    /\ faults \in Nat
    /\ ended \subseteq Nat
    /\ raced \subseteq Nat

\* Rotation never leaves a family, and a family never leaves its client:
\* RevokeFamily, whose WHERE names no client, cannot reach another client's
\* session.  A successor is newer than its token, which was marked used first.
RotationInFamily ==
    /\ \A m, n \in Ids : tokens[m].family = tokens[n].family =>
                             tokens[m].client = tokens[n].client
    /\ \A n \in Ids : IsReplaced(n) =>
           /\ tokens[n].used
           /\ tokens[n].replacedBy \in n + 1 .. Len(tokens)
           /\ tokens[tokens[n].replacedBy].from = n
           /\ tokens[tokens[n].replacedBy].family = tokens[n].family

\* A family whose tokens were all revoked, by reuse or by a logout, while no
\* rotation was inserting into it is dead for good: no token of it is ever
\* accepted again, and none is ever issued.
EndedStaysEnded ==
    \A n \in Ids : tokens[n].family \in ended => IsRevoked(n)

\* A caller holds n and could exchange it.
Usable(n) == n \in answered /\ ~IsRevoked(n) /\ ~IsReplaced(n)

\* Unless two rotations of a family overlap, at most one token of it can be
\* exchanged at any time, and no token was ever exchanged twice, whatever
\* failed on the way and however often a failed refresh was tried again.
OneUsableToken ==
    \A m, n \in Ids :
        /\ m # n
        /\ tokens[m].family = tokens[n].family
        /\ tokens[n].family \notin raced
        => /\ ~(Usable(m) /\ Usable(n))
           /\ {m, n} \subseteq answered => tokens[m].from # tokens[n].from

\* No step takes back a revocation or changes its reason, unlinks a replaced
\* token, or loses a row.
NothingTakenBack ==
    [][ /\ Len(tokens) <= Len(tokens')
        /\ \A n \in Ids :
              /\ IsRevoked(n) => tokens'[n].revoked = tokens[n].revoked
              /\ IsReplaced(n) => tokens'[n].replacedBy # 0
      ]_vars

\* "reusing an old replaced refresh token revokes its token family"
ReuseRevokesFamily ==
    \A m, n \in Ids :
        /\ tokens[m].revoked = "refresh_token_reuse"
        /\ tokens[n].family = tokens[m].family
        => IsRevoked(n)
=============================================================================
