---------------------------- MODULE AccountsProofs ----------------------------
(***************************************************************************)
(* Theorems about RefreshTokens and Accounts, for every number of clients, *)
(* addresses and concurrent requests, every lifetime, every pattern of     *)
(* failures, and whatever lower() does to the addresses.                   *)
(*                                                                         *)
(* The first part is about the tokens alone, under Spec of RefreshTokens.  *)
(* Every step of Accounts is a step of RefreshTokens or leaves the tokens  *)
(* alone, so that what the first part shows holds in the second.           *)
(***************************************************************************)
EXTENDS Accounts, TLAPS

(***************************************************************************)
(* What the statements do to the rows.                                     *)
(***************************************************************************)
\* Rows stay where they are, with all but used, replacedBy and revoked.
Kept == \A n \in Ids : /\ tokens'[n].client = tokens[n].client
                       /\ tokens'[n].family = tokens[n].family
                       /\ tokens'[n].from = tokens[n].from

LEMMA RowType ==
    ASSUME TypeOK, NEW n \in Ids
    PROVE  /\ tokens[n] \in Token
           /\ tokens[n].client \in Clients /\ tokens[n].family \in Nat
           /\ tokens[n].replacedBy \in Nat /\ tokens[n].from \in Nat
           /\ tokens[n].revoked \in Reasons \cup {NotRevoked}
<1>1. tokens[n] \in Token
  BY DEF TypeOK, Ids
<1>. QED  BY <1>1 DEF Token

LEMMA LenType == TypeOK => Len(tokens) \in Nat
BY DEF TypeOK

LEMMA AppendRow ==
    ASSUME NEW q \in Seq(Token), NEW row \in Token
    PROVE  /\ Append(q, row) \in Seq(Token)
           /\ Len(q) \in Nat
           /\ Len(Append(q, row)) = Len(q) + 1
           /\ \A n \in 1 .. Len(q) : Append(q, row)[n] = q[n]
           /\ Append(q, row)[Len(q) + 1] = row
OBVIOUS

LEMMA IssueEffect ==
    ASSUME TypeOK, NEW c \in Clients, NEW f \in Nat, NEW k \in Nat, Issue(c, f, k)
    PROVE  /\ tokens' \in Seq(Token)
           /\ Len(tokens') = Len(tokens) + 1
           /\ \A n \in Ids : tokens'[n] = tokens[n]
           /\ LET row == tokens'[Len(tokens) + 1] IN
                 /\ row.client = c /\ row.family = f /\ row.from = k
                 /\ row.replacedBy = 0 /\ row.revoked = NotRevoked
<1>. DEFINE row == [client |-> c, family |-> f, expires |-> now + TTL, used |-> FALSE,
                    replacedBy |-> 0, revoked |-> NotRevoked, from |-> k]
<1>1. row \in Token
  BY TTLAssumption DEF Token, TypeOK
<1>2. tokens' = Append(tokens, row)
  BY DEF Issue
<1>. HIDE DEF row
<1>3. tokens' \in Seq(Token) /\ Len(tokens') = Len(tokens) + 1
      /\ (\A n \in Ids : tokens'[n] = tokens[n]) /\ tokens'[Len(tokens) + 1] = row
  BY <1>1, <1>2, AppendRow DEF TypeOK, Ids
<1>. QED  BY <1>3 DEF row

\* A row with one field set.
LEMMA SetField ==
    ASSUME NEW row \in Token
    PROVE  /\ \A v \in Reasons : [row EXCEPT !.revoked = v] \in Token
           /\ \A v \in Nat : [row EXCEPT !.replacedBy = v] \in Token
           /\ [row EXCEPT !.used = TRUE] \in Token
BY DEF Token

LEMMA ReplaceRow ==
    ASSUME NEW q \in Seq(Token), NEW row \in Token, NEW k \in 1 .. Len(q)
    PROVE  /\ [q EXCEPT ![k] = row] \in Seq(Token)
           /\ Len([q EXCEPT ![k] = row]) = Len(q)
           /\ [q EXCEPT ![k] = row][k] = row
           /\ \A n \in 1 .. Len(q) \ {k} : [q EXCEPT ![k] = row][n] = q[n]
OBVIOUS

LEMMA RevokeEffect ==
    ASSUME TypeOK, NEW rows, NEW reason \in Reasons, Revoke(rows, reason)
    PROVE  /\ tokens' \in Seq(Token) /\ Len(tokens') = Len(tokens) /\ Kept
           /\ \A n \in Ids :
                 /\ tokens'[n].used = tokens[n].used
                 /\ tokens'[n].replacedBy = tokens[n].replacedBy
                 /\ IsRevoked(n) => tokens'[n].revoked = tokens[n].revoked
                 /\ n \in rows => IsRevoked(n)'
<1>. DEFINE New(n) == IF n \in rows /\ ~IsRevoked(n)
                      THEN [tokens[n] EXCEPT !.revoked = reason] ELSE tokens[n]
<1>1. \A n \in Ids : tokens[n] \in Token
  BY RowType
<1>2. \A n \in Ids : New(n) \in Token
  BY <1>1, SetField
<1>3. Len(tokens) \in Nat /\ tokens' = [n \in Ids |-> New(n)]
  BY LenType DEF Revoke
<1>. HIDE DEF New
<1>4. tokens' \in Seq(Token) /\ Len(tokens') = Len(tokens)
      /\ \A n \in Ids : tokens'[n] = New(n)
  BY <1>2, <1>3 DEF Ids
<1>. USE DEF New
<1>5. Kept
  BY <1>1, <1>4 DEF Kept, Token
<1>6. reason # NotRevoked
  BY DEF Reasons, NotRevoked
<1>7. ASSUME NEW n \in Ids
      PROVE  /\ tokens'[n].used = tokens[n].used
             /\ tokens'[n].replacedBy = tokens[n].replacedBy
             /\ IsRevoked(n) => tokens'[n].revoked = tokens[n].revoked
             /\ n \in rows => tokens'[n].revoked # NotRevoked
  <2>1. tokens[n] \in Token /\ tokens'[n] = New(n)
    BY <1>1, <1>4
  <2>. QED  BY <1>6, <2>1 DEF Token, IsRevoked
<1>. QED  BY <1>4, <1>5, <1>7 DEF IsRevoked

LEMMA MarkUsedEffect ==
    ASSUME TypeOK, NEW r \in Requests, MarkUsed(r)
    PROVE  /\ tokens' \in Seq(Token) /\ Len(tokens') = Len(tokens) /\ Kept
           /\ tokens'[req[r].token].used
           /\ \A n \in Ids :
                 /\ tokens[n].used => tokens'[n].used
                 /\ tokens'[n].replacedBy = tokens[n].replacedBy
                 /\ tokens'[n].revoked = tokens[n].revoked
<1>1. req[r].token \in Ids /\ tokens[req[r].token] \in Token
  BY RowType DEF MarkUsed, TypeOK
<1>2. tokens' = [tokens EXCEPT ![req[r].token] = [tokens[req[r].token] EXCEPT !.used = TRUE]]
  BY DEF MarkUsed
<1>3. [tokens[req[r].token] EXCEPT !.used = TRUE] \in Token
  BY <1>1, SetField
<1>4. PICK k \in Ids, row \in Token :
        /\ k = req[r].token /\ row = [tokens[k] EXCEPT !.used = TRUE]
        /\ tokens' = [tokens EXCEPT ![k] = row]
  BY <1>1, <1>2, <1>3
<1>5. /\ tokens' \in Seq(Token) /\ Len(tokens') = Len(tokens)
      /\ tokens'[k] = row
      /\ \A n \in Ids \ {k} : tokens'[n] = tokens[n]
  <2>1. tokens \in Seq(Token) /\ k \in 1 .. Len(tokens) /\ tokens' = [tokens EXCEPT ![k] = row]
    BY <1>4 DEF TypeOK, Ids
  <2>. QED  BY <2>1, ReplaceRow DEF Ids
<1>6. /\ row.client = tokens[k].client /\ row.family = tokens[k].family
      /\ row.from = tokens[k].from /\ row.revoked = tokens[k].revoked
      /\ row.used = TRUE /\ row.replacedBy = tokens[k].replacedBy
  BY <1>1, <1>4 DEF Token
<1>. QED  BY <1>4, <1>5, <1>6 DEF Kept

LEMMA SetReplacedByEffect ==
    ASSUME TypeOK, NEW r \in Requests, SetReplacedBy(r)
    PROVE  /\ tokens' \in Seq(Token) /\ Len(tokens') = Len(tokens) /\ Kept
           /\ tokens'[req[r].token].replacedBy = req[r].new
           /\ \A n \in Ids :
                 /\ tokens'[n].used = tokens[n].used
                 /\ n # req[r].token => tokens'[n].replacedBy = tokens[n].replacedBy
                 /\ tokens'[n].revoked = tokens[n].revoked
<1>1. req[r].token \in Ids /\ tokens[req[r].token] \in Token /\ req[r].new \in Nat
  BY RowType DEF SetReplacedBy, TypeOK, Request
<1>2. tokens' = [tokens EXCEPT ![req[r].token] =
                    [tokens[req[r].token] EXCEPT !.replacedBy = req[r].new]]
  BY DEF SetReplacedBy
<1>3. [tokens[req[r].token] EXCEPT !.replacedBy = req[r].new] \in Token
  BY <1>1, SetField
<1>4. PICK k \in Ids, row \in Token :
        /\ k = req[r].token /\ row = [tokens[k] EXCEPT !.replacedBy = req[r].new]
        /\ tokens' = [tokens EXCEPT ![k] = row]
  BY <1>1, <1>2, <1>3
<1>5. /\ tokens' \in Seq(Token) /\ Len(tokens') = Len(tokens)
      /\ tokens'[k] = row
      /\ \A n \in Ids \ {k} : tokens'[n] = tokens[n]
  <2>1. tokens \in Seq(Token) /\ k \in 1 .. Len(tokens) /\ tokens' = [tokens EXCEPT ![k] = row]
    BY <1>4 DEF TypeOK, Ids
  <2>. QED  BY <2>1, ReplaceRow DEF Ids
<1>6. /\ row.client = tokens[k].client /\ row.family = tokens[k].family
      /\ row.from = tokens[k].from /\ row.revoked = tokens[k].revoked
      /\ row.replacedBy = req[r].new /\ row.used = tokens[k].used
  BY <1>1, <1>4 DEF Token
<1>. QED  BY <1>4, <1>5, <1>6 DEF Kept

(***************************************************************************)
(* Type correctness.                                                       *)
(***************************************************************************)
LEMMA TypeInit == Init => TypeOK
BY DEF Init, TypeOK, Idle, Request

LEMMA TypeStep == TypeOK /\ [Next]_vars => TypeOK'
<1>. SUFFICES ASSUME TypeOK, [Next]_vars  PROVE TypeOK'
  OBVIOUS
<1>0. Len(tokens) \in Nat /\ Idle \in Request /\ Idle.pc = "idle"
  BY LenType DEF Idle, Request
<1>1. CASE UNCHANGED vars
  BY <1>1 DEF vars, TypeOK, Ids
<1>2. ASSUME NEW c \in Clients, Login(c)  PROVE TypeOK'
  <2>1. /\ tokens' \in Seq(Token) /\ Len(tokens') = Len(tokens) + 1
    <3>1. Len(tokens) + 1 \in Nat /\ 0 \in Nat /\ Issue(c, Len(tokens) + 1, 0)
      BY <1>0, <1>2 DEF Login
    <3>. QED  BY <3>1, IssueEffect
  <2>2. Ids \subseteq Ids' /\ Len(tokens) + 1 \in Ids'
    BY <1>0, <2>1 DEF Ids
  <2>. QED  BY <1>2, <2>1, <2>2 DEF Login, TypeOK
<1>3. ASSUME NEW c \in Clients, NEW reason \in Reasons, RevokeAll(c, reason)  PROVE TypeOK'
  <2>1. tokens' \in Seq(Token) /\ Len(tokens') = Len(tokens)
    BY <1>3, RevokeEffect DEF RevokeAll
  <2>2. ended' \subseteq Nat
    BY <1>3, RowType DEF RevokeAll, End, TypeOK
  <2>. QED  BY <1>3, <2>1, <2>2 DEF RevokeAll, TypeOK, Ids
<1>4. ASSUME NEW c \in Clients, NEW n \in Ids, RevokeSession(c, n)  PROVE TypeOK'
  <2>1. tokens' \in Seq(Token) /\ Len(tokens') = Len(tokens)
    BY <1>4, RevokeEffect DEF RevokeSession, Reasons
  <2>. QED  BY <1>4, <2>1 DEF RevokeSession, TypeOK, Ids
<1>5. ASSUME NEW r \in Requests, NEW n \in answered, Accept(r, n) \/ DetectReuse(r, n)
      PROVE  TypeOK'
  <2>1. n \in Ids /\ tokens[n].family \in Nat
    BY RowType DEF TypeOK
  <2>2. \A pc \in {"mark", "reuse"} :
          [pc |-> pc, token |-> n, new |-> 0] \in Request
    BY <2>1 DEF Request, Ids
  <2>3. req' \in [Requests -> Request]
    BY <1>5, <2>2 DEF Accept, DetectReuse, TypeOK
  <2>4. raced' \subseteq Nat
    BY <1>5, <2>1 DEF Accept, DetectReuse, TypeOK
  <2>5. \A q \in Requests : /\ req'[q].pc # "idle" => req'[q].token \in Ids
                            /\ req'[q].pc \in {"link", "answer"} => req'[q].new \in Ids
    BY <1>5, <2>1 DEF Accept, DetectReuse, TypeOK
  <2>. QED  BY <1>5, <2>3, <2>4, <2>5 DEF Accept, DetectReuse, TypeOK, Ids
<1>6. ASSUME NEW r \in Requests, RevokeFamily(r)  PROVE TypeOK'
  <2>1. tokens' \in Seq(Token) /\ Len(tokens') = Len(tokens)
    BY <1>6, RevokeEffect DEF RevokeFamily, Reasons
  <2>2. req[r].token \in Ids
    BY <1>6 DEF RevokeFamily, TypeOK
  <2>3. ended' \subseteq Nat
    BY <1>6, <2>2, RowType DEF RevokeFamily, End, TypeOK
  <2>. QED  BY <1>0, <1>6, <2>1, <2>3 DEF RevokeFamily, TypeOK, Ids
<1>7. ASSUME NEW r \in Requests, MarkUsed(r) \/ SetReplacedBy(r)  PROVE TypeOK'
  <2>1. tokens' \in Seq(Token) /\ Len(tokens') = Len(tokens)
    BY <1>7, MarkUsedEffect, SetReplacedByEffect
  <2>2. req[r] \in Request
    BY DEF TypeOK
  <2>3. \A pc \in {"create", "answer"} :
          /\ [req[r] EXCEPT !.pc = pc] \in Request
          /\ [req[r] EXCEPT !.pc = pc].token = req[r].token
          /\ [req[r] EXCEPT !.pc = pc].new = req[r].new
          /\ [req[r] EXCEPT !.pc = pc].pc = pc
    BY <2>2 DEF Request
  <2>4. \E pc \in {"create", "answer"} :
          /\ req' = [req EXCEPT ![r] = [req[r] EXCEPT !.pc = pc]]
          /\ pc = "answer" => req[r].pc = "link"
    BY <1>7 DEF MarkUsed, SetReplacedBy
  <2>5. req[r].pc # "idle"
    BY <1>7 DEF MarkUsed, SetReplacedBy
  <2>6. req' \in [Requests -> Request]
    BY <2>3, <2>4 DEF TypeOK
  <2>7. \A q \in Requests : /\ req'[q].pc # "idle" => req'[q].token \in Ids
                            /\ req'[q].pc \in {"link", "answer"} => req'[q].new \in Ids
    BY <2>3, <2>4, <2>5 DEF TypeOK
  <2>. QED  BY <1>7, <2>1, <2>6, <2>7 DEF MarkUsed, SetReplacedBy, TypeOK, Ids
<1>8. ASSUME NEW r \in Requests, Create(r)  PROVE TypeOK'
  <2>1. req[r].token \in Ids
    BY <1>8 DEF Create, TypeOK
  <2>2. tokens[req[r].token].client \in Clients /\ tokens[req[r].token].family \in Nat
        /\ req[r].token \in Nat
    BY <2>1, RowType DEF Ids
  <2>3. /\ tokens' \in Seq(Token) /\ Len(tokens') = Len(tokens) + 1
    BY <1>8, <2>2, IssueEffect DEF Create
  <2>4. Ids \subseteq Ids' /\ Len(tokens) + 1 \in Ids'
    BY <1>0, <2>3 DEF Ids
  <2>5. [pc |-> "link", token |-> req[r].token, new |-> Len(tokens) + 1] \in Request
    BY <1>0, <2>2 DEF Request
  <2>6. \A q \in Requests : /\ req'[q].pc # "idle" => req'[q].token \in Ids'
                            /\ req'[q].pc \in {"link", "answer"} => req'[q].new \in Ids'
    BY <1>8, <2>1, <2>4 DEF Create, TypeOK
  <2>. QED  BY <1>8, <2>3, <2>4, <2>5, <2>6 DEF Create, TypeOK
<1>9. ASSUME NEW r \in Requests, Answer(r)  PROVE TypeOK'
  <2>1. req[r].new \in Ids
    BY <1>9 DEF Answer, TypeOK
  <2>. QED  BY <1>0, <1>9, <2>1 DEF Answer, TypeOK, Ids
<1>10. ASSUME NEW r \in Requests, Fail(r)  PROVE TypeOK'
  BY <1>0, <1>10 DEF Fail, TypeOK, Ids
<1>11. CASE Tick
  BY <1>11 DEF Tick, TypeOK, Ids
<1>12. "logout" \in Reasons
  BY DEF Reasons
<1>. QED
  BY <1>1, <1>2, <1>3, <1>4, <1>5, <1>6, <1>7, <1>8, <1>9, <1>10, <1>11, <1>12
  DEF Next, RefreshStep

\* Every variable keeps its type; in particular no request ever works on a
\* token, or links one, that is not a stored row.
THEOREM TypeCorrect == Spec => []TypeOK
BY TypeInit, TypeStep, PTL DEF Spec

(***************************************************************************)
(* Nothing is taken back.                                                  *)
(***************************************************************************)
\* Rows are only added by a login and by Create, and what they say of a
\* revocation, a use or a replacement stays said.
LEMMA RowsStay ==
    ASSUME TypeOK, [Next]_vars
    PROVE  /\ Len(tokens) \in Nat /\ Len(tokens') \in Nat /\ Len(tokens) <= Len(tokens')
           /\ Ids \subseteq Ids' /\ Kept
           /\ \A n \in Ids : /\ tokens[n].used => tokens'[n].used
                             /\ IsRevoked(n) => tokens'[n].revoked = tokens[n].revoked
                             /\ IsReplaced(n) => tokens'[n].replacedBy # 0
           /\ \/ Len(tokens') = Len(tokens)
              \/ \E c \in Clients : Login(c)
              \/ \E r \in Requests : Create(r)
<1>. DEFINE Stay == /\ Len(tokens) <= Len(tokens') /\ Len(tokens') \in Nat
                    /\ Kept
                    /\ \A n \in Ids :
                          /\ tokens[n].used => tokens'[n].used
                          /\ tokens[n].revoked # NotRevoked => tokens'[n].revoked = tokens[n].revoked
                          /\ tokens[n].replacedBy # 0 => tokens'[n].replacedBy # 0
<1>1. Len(tokens) \in Nat
  BY LenType
<1>2. ASSUME tokens' = tokens  PROVE Stay /\ Len(tokens') = Len(tokens)
  BY <1>1, <1>2 DEF Kept, IsReplaced
<1>3. ASSUME NEW c \in Clients, NEW f \in Nat, NEW k \in Nat, Issue(c, f, k)  PROVE Stay
  <2>1. Len(tokens') = Len(tokens) + 1 /\ \A n \in Ids : tokens'[n] = tokens[n]
    BY <1>3, IssueEffect
  <2>2. Len(tokens) <= Len(tokens') /\ Len(tokens') \in Nat
    BY <1>1, <2>1
  <2>3. Kept
    BY <2>1 DEF Kept
  <2>4. ASSUME NEW n \in Ids
        PROVE  /\ tokens[n].used => tokens'[n].used
               /\ tokens[n].revoked # NotRevoked => tokens'[n].revoked = tokens[n].revoked
               /\ tokens[n].replacedBy # 0 => tokens'[n].replacedBy # 0
    BY <2>1, Zenon
  <2>. QED  BY <2>2, <2>3, <2>4, Zenon
<1>4. ASSUME NEW rows, NEW reason \in Reasons, Revoke(rows, reason)
      PROVE  Stay /\ Len(tokens') = Len(tokens)
  BY <1>1, <1>4, RevokeEffect DEF IsRevoked
<1>5. ASSUME NEW c \in Clients, Login(c)  PROVE Stay
  <2>1. Len(tokens) + 1 \in Nat /\ 0 \in Nat /\ Issue(c, Len(tokens) + 1, 0)
    BY <1>1, <1>5 DEF Login
  <2>. QED  BY <1>3, <2>1
<1>6. ASSUME NEW r \in Requests, Create(r)  PROVE Stay
  <2>1. req[r].token \in Ids
    BY <1>6 DEF Create, TypeOK
  <2>2. /\ tokens[req[r].token].client \in Clients /\ tokens[req[r].token].family \in Nat
        /\ req[r].token \in Nat
    BY <2>1, RowType DEF Ids
  <2>. QED  BY <1>3, <1>6, <2>2 DEF Create
<1>7. ASSUME NEW r \in Requests, MarkUsed(r)  PROVE Stay /\ Len(tokens') = Len(tokens)
  BY <1>1, <1>7, MarkUsedEffect DEF IsReplaced, IsRevoked
<1>8. ASSUME NEW r \in Requests, SetReplacedBy(r)  PROVE Stay /\ Len(tokens') = Len(tokens)
  <2>1. req[r].new # 0
    BY <1>1, <1>8 DEF SetReplacedBy, TypeOK, Ids
  <2>2. \A n \in Ids : tokens[n].replacedBy # 0 => tokens'[n].replacedBy # 0
    BY <1>8, <2>1, SetReplacedByEffect
  <2>. QED  BY <1>1, <1>8, <2>2, SetReplacedByEffect
<1>9. ASSUME UNCHANGED vars \/ Tick  PROVE Stay /\ Len(tokens') = Len(tokens)
  <2>1. tokens' = tokens
    BY <1>9 DEF vars, Tick
  <2>. QED  BY <1>2, <2>1
<1>10. ASSUME NEW r \in Requests,
              \/ Answer(r) \/ Fail(r)
              \/ \E n \in answered : Accept(r, n) \/ DetectReuse(r, n)
       PROVE  Stay /\ Len(tokens') = Len(tokens)
  <2>1. tokens' = tokens
    BY <1>10 DEF Answer, Fail, Accept, DetectReuse
  <2>. QED  BY <1>2, <2>1
<1>11. ASSUME NEW c \in Clients, NEW reason \in Reasons, RevokeAll(c, reason)
       PROVE  Stay /\ Len(tokens') = Len(tokens)
  BY <1>4, <1>11 DEF RevokeAll
<1>12. ASSUME NEW c \in Clients, NEW n \in Ids, RevokeSession(c, n)
       PROVE  Stay /\ Len(tokens') = Len(tokens)
  BY <1>4, <1>12 DEF RevokeSession, Reasons
<1>13. ASSUME NEW r \in Requests, RevokeFamily(r)
       PROVE  Stay /\ Len(tokens') = Len(tokens)
  BY <1>4, <1>13 DEF RevokeFamily, Reasons
<1>14. "logout" \in Reasons
  BY DEF Reasons
<1>. HIDE DEF Stay
<1>15. /\ Stay
       /\ \/ Len(tokens') = Len(tokens)
          \/ \E c \in Clients : Login(c)
          \/ \E r \in Requests : Create(r)
  BY <1>2, <1>5, <1>6, <1>7, <1>8, <1>9, <1>10, <1>11, <1>12, <1>13, <1>14
  DEF Next, RefreshStep
<1>. QED  BY <1>1, <1>15 DEF Ids, Stay, IsRevoked, IsReplaced

\* A revocation and its reason, and the mark that a token was replaced, are
\* permanent: COALESCE and the WHERE clauses let no later statement undo them.
THEOREM NothingIsTakenBack == Spec => NothingTakenBack
<1>1. TypeOK /\ [Next]_vars =>
        [ /\ Len(tokens) <= Len(tokens')
          /\ \A n \in Ids : /\ IsRevoked(n) => tokens'[n].revoked = tokens[n].revoked
                            /\ IsReplaced(n) => tokens'[n].replacedBy # 0 ]_vars
  BY RowsStay
<1>. QED  BY <1>1, TypeCorrect, PTL DEF Spec, NothingTakenBack

(***************************************************************************)
(* Families and links.                                                     *)
(*                                                                         *)
(* A token that was issued in exchange for another is newer and shares its *)
(* client and family; a request links only tokens of which one was issued  *)
(* in exchange for the other.                                              *)
(***************************************************************************)
FamilyInv ==
    /\ \A n \in Ids : /\ tokens[n].family \in Ids
                      /\ tokens[n].from = 0 => tokens[n].family = n
                      /\ tokens[n].from # 0 =>
                             /\ tokens[n].from \in 1 .. n - 1
                             /\ tokens[tokens[n].from].family = tokens[n].family
    /\ \A m, n \in Ids : tokens[m].family = tokens[n].family =>
                             tokens[m].client = tokens[n].client

Linked ==
    \A n \in Ids : tokens[n].replacedBy # 0 =>
        /\ tokens[n].used
        /\ tokens[n].replacedBy \in Ids
        /\ tokens[tokens[n].replacedBy].from = n

InProgress(r) ==
    /\ req[r].pc \in {"create", "link", "answer"} => tokens[req[r].token].used
    /\ req[r].pc \in {"link", "answer"} => tokens[req[r].new].from = req[r].token

LinkInv == Linked /\ \A r \in Requests : InProgress(r)

\* What the two actions that add a row say of it.
LEMMA NewRow ==
    ASSUME TypeOK
    PROVE  /\ \A c \in Clients : Login(c) =>
                 /\ Len(tokens') = Len(tokens) + 1
                 /\ tokens'[Len(tokens) + 1].client = c
                 /\ tokens'[Len(tokens) + 1].family = Len(tokens) + 1
                 /\ tokens'[Len(tokens) + 1].from = 0
                 /\ tokens'[Len(tokens) + 1].replacedBy = 0
           /\ \A r \in Requests : Create(r) =>
                 /\ Len(tokens') = Len(tokens) + 1
                 /\ req[r].token \in Ids
                 /\ tokens'[Len(tokens) + 1].client = tokens[req[r].token].client
                 /\ tokens'[Len(tokens) + 1].family = tokens[req[r].token].family
                 /\ tokens'[Len(tokens) + 1].from = req[r].token
                 /\ tokens'[Len(tokens) + 1].replacedBy = 0
<1>1. Len(tokens) \in Nat
  BY LenType
<1>2. ASSUME NEW c \in Clients, Login(c)
      PROVE  /\ Len(tokens') = Len(tokens) + 1
             /\ tokens'[Len(tokens) + 1].client = c
             /\ tokens'[Len(tokens) + 1].family = Len(tokens) + 1
             /\ tokens'[Len(tokens) + 1].from = 0
             /\ tokens'[Len(tokens) + 1].replacedBy = 0
  <2>1. Len(tokens) + 1 \in Nat /\ 0 \in Nat /\ Issue(c, Len(tokens) + 1, 0)
    BY <1>1, <1>2 DEF Login
  <2>. QED  BY <2>1, IssueEffect
<1>3. ASSUME NEW r \in Requests, Create(r)
      PROVE  /\ Len(tokens') = Len(tokens) + 1
             /\ req[r].token \in Ids
             /\ tokens'[Len(tokens) + 1].client = tokens[req[r].token].client
             /\ tokens'[Len(tokens) + 1].family = tokens[req[r].token].family
             /\ tokens'[Len(tokens) + 1].from = req[r].token
             /\ tokens'[Len(tokens) + 1].replacedBy = 0
  <2>1. req[r].token \in Ids
    BY <1>3 DEF Create, TypeOK
  <2>2. /\ tokens[req[r].token].client \in Clients /\ tokens[req[r].token].family \in Nat
        /\ req[r].token \in Nat
    BY <2>1, RowType DEF Ids
  <2>3. Issue(tokens[req[r].token].client, tokens[req[r].token].family, req[r].token)
    BY <1>3 DEF Create
  <2>. QED  BY <2>1, <2>2, <2>3, IssueEffect
<1>. QED  BY <1>2, <1>3

LEMMA FamilyStep == TypeOK /\ TypeOK' /\ FamilyInv /\ [Next]_vars => FamilyInv'
<1>. SUFFICES ASSUME TypeOK, TypeOK', FamilyInv, [Next]_vars  PROVE FamilyInv'
  OBVIOUS
<1>1. /\ Len(tokens) \in Nat /\ Len(tokens') \in Nat /\ Ids \subseteq Ids' /\ Kept
      /\ \/ Len(tokens') = Len(tokens)
         \/ \E c \in Clients : Login(c)
         \/ \E r \in Requests : Create(r)
  BY RowsStay
<1>2. CASE Len(tokens') = Len(tokens)
  <2>1. Ids' = Ids
    BY <1>2 DEF Ids
  <2>2. \A n \in Ids : tokens[n].from # 0 => tokens[n].from \in Ids
    BY <1>1 DEF FamilyInv, Ids
  <2>. QED  BY <1>1, <2>1, <2>2 DEF FamilyInv, Kept
<1>3. ASSUME Len(tokens') = Len(tokens) + 1,
             LET new == Len(tokens) + 1 IN
                 \/ tokens'[new].from = 0 /\ tokens'[new].family = new
                 \/ \E k \in Ids : /\ tokens'[new].from = k
                                   /\ tokens'[new].family = tokens[k].family
                                   /\ tokens'[new].client = tokens[k].client
      PROVE  FamilyInv'
  <2>1. PICK new \in Nat : new = Len(tokens) + 1
    BY <1>1
  <2>2. /\ Ids' = Ids \cup {new} /\ new \notin Ids
        /\ \A n \in Ids : n < new /\ n \in Nat /\ n # 0
    BY <1>1, <1>3, <2>1 DEF Ids
  <2>3. \/ tokens'[new].from = 0 /\ tokens'[new].family = new
        \/ \E k \in Ids : /\ tokens'[new].from = k
                          /\ tokens'[new].family = tokens[k].family
                          /\ tokens'[new].client = tokens[k].client
    BY <1>3, <2>1
  <2>4. \A n \in Ids : /\ tokens[n].family \in Ids
                       /\ tokens[n].from # 0 => tokens[n].from \in Ids
    BY <1>1 DEF FamilyInv, Ids
  <2>5. ASSUME NEW n \in Ids'
        PROVE  /\ tokens'[n].family \in Ids'
               /\ tokens'[n].from = 0 => tokens'[n].family = n
               /\ tokens'[n].from # 0 =>
                      /\ tokens'[n].from \in 1 .. n - 1
                      /\ tokens'[tokens'[n].from].family = tokens'[n].family
    <3>1. CASE n \in Ids
      BY <1>1, <2>2, <2>4, <3>1 DEF FamilyInv, Kept
    <3>2. CASE n = new
      <4>1. CASE tokens'[new].from = 0 /\ tokens'[new].family = new
        BY <2>2, <3>2, <4>1
      <4>2. ASSUME NEW k \in Ids, tokens'[new].from = k, tokens'[new].family = tokens[k].family
            PROVE  /\ tokens'[n].family \in Ids' /\ tokens'[n].from # 0
                   /\ tokens'[n].from \in 1 .. n - 1
                   /\ tokens'[tokens'[n].from].family = tokens'[n].family
        <5>1. k \in 1 .. new - 1
          BY <1>1, <2>1 DEF Ids
        <5>. QED  BY <1>1, <2>2, <2>4, <3>2, <4>2, <5>1 DEF Kept
      <4>. QED  BY <2>3, <3>2, <4>1, <4>2
    <3>. QED  BY <2>2, <3>1, <3>2
  <2>6. ASSUME NEW m \in Ids', NEW n \in Ids', tokens'[m].family = tokens'[n].family
        PROVE  tokens'[m].client = tokens'[n].client
    <3>1. CASE m \in Ids /\ n \in Ids
      BY <1>1, <2>6, <3>1 DEF FamilyInv, Kept
    <3>2. CASE m \in Ids /\ n = new
      BY <1>1, <2>2, <2>3, <2>4, <2>6, <3>2 DEF FamilyInv, Kept
    <3>3. CASE m = new /\ n \in Ids
      BY <1>1, <2>2, <2>3, <2>4, <2>6, <3>3 DEF FamilyInv, Kept
    <3>. QED  BY <2>2, <3>1, <3>2, <3>3
  <2>. QED  BY <2>5, <2>6 DEF FamilyInv
<1>4. ASSUME NEW c \in Clients, Login(c)  PROVE FamilyInv'
  BY <1>3, <1>4, NewRow
<1>5. ASSUME NEW r \in Requests, Create(r)  PROVE FamilyInv'
  BY <1>3, <1>5, NewRow
<1>. QED  BY <1>1, <1>2, <1>4, <1>5

\* A step that links nothing.
LEMMA LinkedStays ==
    ASSUME TypeOK, Linked, [Next]_vars,
           \A n \in Ids : tokens'[n].replacedBy = tokens[n].replacedBy
    PROVE  Linked'
<1>1. /\ Len(tokens) \in Nat /\ Ids \subseteq Ids' /\ Kept
      /\ \A n \in Ids : tokens[n].used => tokens'[n].used
      /\ \/ Len(tokens') = Len(tokens)
         \/ \E c \in Clients : Login(c)
         \/ \E r \in Requests : Create(r)
  BY RowsStay
<1>2. \A n \in Ids' : n \in Ids \/ tokens'[n].replacedBy = 0
  <2>1. \/ Len(tokens') = Len(tokens)
        \/ /\ Len(tokens') = Len(tokens) + 1
           /\ tokens'[Len(tokens) + 1].replacedBy = 0
    BY <1>1, NewRow
  <2>2. \A n \in Ids' : n \in Ids \/ (n = Len(tokens) + 1 /\ Len(tokens') = Len(tokens) + 1)
    BY <1>1, <2>1 DEF Ids
  <2>. QED  BY <1>1, <2>1, <2>2
<1>. QED  BY <1>1, <1>2 DEF Linked, Kept

\* A request that does nothing keeps its place.
LEMMA InProgressStays ==
    ASSUME TypeOK, [Next]_vars, NEW r \in Requests, InProgress(r), req'[r] = req[r]
    PROVE  InProgress(r)'
<1>1. /\ Kept /\ \A n \in Ids : tokens[n].used => tokens'[n].used
  BY RowsStay
<1>2. /\ req[r].pc \in {"create", "link", "answer"} => req[r].token \in Ids
      /\ req[r].pc \in {"link", "answer"} => req[r].new \in Ids
  BY DEF TypeOK
<1>. QED  BY <1>1, <1>2 DEF InProgress, Kept

LEMMA LinkStep == TypeOK /\ TypeOK' /\ LinkInv /\ [Next]_vars => LinkInv'
<1>. SUFFICES ASSUME TypeOK, TypeOK', LinkInv, [Next]_vars  PROVE LinkInv'
  OBVIOUS
<1>0. /\ Len(tokens) \in Nat /\ Kept /\ Ids \subseteq Ids'
      /\ \A n \in Ids : tokens[n].used => tokens'[n].used
  BY RowsStay
<1>. DEFINE Unlinked == \A n \in Ids : tokens'[n].replacedBy = tokens[n].replacedBy
<1>1. Unlinked => Linked'
  BY LinkedStays DEF LinkInv
<1>2. ASSUME req' = req  PROVE \A r \in Requests : InProgress(r)'
  BY <1>2, InProgressStays DEF LinkInv
<1>3. ASSUME NEW r \in Requests, \A q \in Requests \ {r} : req'[q] = req[q], InProgress(r)'
      PROVE  \A q \in Requests : InProgress(q)'
  BY <1>3, InProgressStays DEF LinkInv
<1>4. CASE tokens' = tokens /\ req' = req
  BY <1>1, <1>2, <1>4 DEF LinkInv
<1>5. ASSUME NEW rows, NEW reason \in Reasons, Revoke(rows, reason), req' = req
      PROVE  LinkInv'
  BY <1>1, <1>2, <1>5, RevokeEffect DEF LinkInv
<1>6. ASSUME NEW c \in Clients, Login(c)  PROVE LinkInv'
  <2>1. Len(tokens) + 1 \in Nat /\ 0 \in Nat /\ Issue(c, Len(tokens) + 1, 0) /\ req' = req
    BY <1>0, <1>6 DEF Login
  <2>2. Unlinked
    BY <2>1, IssueEffect
  <2>. QED  BY <1>1, <1>2, <2>1, <2>2 DEF LinkInv
<1>7. ASSUME NEW r \in Requests, NEW n \in answered, Accept(r, n) \/ DetectReuse(r, n)
      PROVE  LinkInv'
  <2>1. tokens' = tokens /\ req'[r].pc \in {"mark", "reuse"}
        /\ \A q \in Requests \ {r} : req'[q] = req[q]
    BY <1>7 DEF Accept, DetectReuse, TypeOK
  <2>2. InProgress(r)'
    BY <2>1 DEF InProgress
  <2>. QED  BY <1>1, <1>3, <2>1, <2>2 DEF LinkInv
<1>8. ASSUME NEW r \in Requests, RevokeFamily(r) \/ Answer(r) \/ Fail(r)  PROVE LinkInv'
  <2>1. req'[r].pc = "idle" /\ \A q \in Requests \ {r} : req'[q] = req[q]
    BY <1>8 DEF RevokeFamily, Answer, Fail, Idle, TypeOK
  <2>2. InProgress(r)'
    BY <2>1 DEF InProgress
  <2>3. Unlinked
    BY <1>8, RevokeEffect DEF RevokeFamily, Answer, Fail, Reasons
  <2>. QED  BY <1>1, <1>3, <2>1, <2>2, <2>3 DEF LinkInv
<1>9. ASSUME NEW r \in Requests, MarkUsed(r)  PROVE LinkInv'
  <2>1. /\ req'[r].pc = "create" /\ req'[r].token = req[r].token
        /\ \A q \in Requests \ {r} : req'[q] = req[q]
    BY <1>9 DEF MarkUsed, TypeOK, Request
  <2>2. tokens'[req[r].token].used /\ Unlinked
    BY <1>9, MarkUsedEffect
  <2>3. InProgress(r)'
    BY <2>1, <2>2 DEF InProgress
  <2>. QED  BY <1>1, <1>3, <2>1, <2>2, <2>3 DEF LinkInv
<1>10. ASSUME NEW r \in Requests, Create(r)  PROVE LinkInv'
  <2>1. /\ req'[r].pc = "link" /\ req'[r].token = req[r].token /\ req'[r].new = Len(tokens) + 1
        /\ \A q \in Requests \ {r} : req'[q] = req[q]
    BY <1>10 DEF Create, TypeOK
  <2>2. tokens[req[r].token].used /\ req[r].token \in Ids
    BY <1>10 DEF Create, LinkInv, InProgress, TypeOK
  <2>3. tokens'[Len(tokens) + 1].from = req[r].token
    BY <1>10, NewRow
  <2>4. InProgress(r)'
    BY <1>0, <2>1, <2>2, <2>3 DEF InProgress
  <2>5. Unlinked
    <3>1. tokens[req[r].token].client \in Clients /\ tokens[req[r].token].family \in Nat
          /\ req[r].token \in Nat
      BY <2>2, RowType DEF Ids
    <3>2. Issue(tokens[req[r].token].client, tokens[req[r].token].family, req[r].token)
      BY <1>10 DEF Create
    <3>. QED  BY <3>1, <3>2, IssueEffect
  <2>. QED  BY <1>1, <1>3, <2>1, <2>4, <2>5 DEF LinkInv
<1>11. ASSUME NEW r \in Requests, SetReplacedBy(r)  PROVE LinkInv'
  <2>1. /\ req[r].pc = "link" /\ req'[r].pc = "answer"
        /\ req'[r].token = req[r].token /\ req'[r].new = req[r].new
        /\ \A q \in Requests \ {r} : req'[q] = req[q]
    BY <1>11 DEF SetReplacedBy, TypeOK, Request
  <2>2. /\ tokens[req[r].token].used /\ tokens[req[r].new].from = req[r].token
        /\ req[r].token \in Ids /\ req[r].new \in Ids
    BY <2>1 DEF LinkInv, InProgress, TypeOK
  <2>3. InProgress(r)'
    BY <1>0, <2>1, <2>2 DEF InProgress, Kept
  <2>4. /\ Ids' = Ids
        /\ tokens'[req[r].token].replacedBy = req[r].new
        /\ \A n \in Ids : n # req[r].token => tokens'[n].replacedBy = tokens[n].replacedBy
    BY <1>11, SetReplacedByEffect DEF Ids
  <2>5. Linked'
    BY <1>0, <2>2, <2>4 DEF LinkInv, Linked, Kept
  <2>. QED  BY <1>3, <2>1, <2>3, <2>5 DEF LinkInv
<1>12. CASE UNCHANGED vars \/ Tick
  BY <1>4, <1>12 DEF vars, Tick
<1>13. ASSUME NEW c \in Clients,
              \/ RevokeAll(c, "logout")
              \/ \E n \in Ids : RevokeSession(c, n)
       PROVE  LinkInv'
  BY <1>5, <1>13 DEF RevokeAll, RevokeSession, Reasons
<1>. QED
  BY <1>6, <1>7, <1>8, <1>9, <1>10, <1>11, <1>12, <1>13 DEF Next, RefreshStep

\* A token and its successor share client and family, and all tokens of a
\* family one client, however refreshes interleave, fail and overwrite each
\* other's link: revoking a family never reaches another client.
THEOREM RotationStaysInFamily == Spec => []RotationInFamily
<1>1. Init => FamilyInv /\ LinkInv
  BY DEF Init, FamilyInv, LinkInv, Linked, InProgress, Ids, Idle
<1>2. TypeOK /\ FamilyInv /\ LinkInv => RotationInFamily
  <2>. SUFFICES ASSUME TypeOK, FamilyInv, LinkInv  PROVE RotationInFamily
    OBVIOUS
  <2>1. ASSUME NEW n \in Ids, IsReplaced(n)
        PROVE  /\ tokens[n].used
               /\ tokens[n].replacedBy \in n + 1 .. Len(tokens)
               /\ tokens[tokens[n].replacedBy].from = n
               /\ tokens[tokens[n].replacedBy].family = tokens[n].family
    <3>1. PICK m \in Ids : m = tokens[n].replacedBy /\ tokens[m].from = n /\ tokens[n].used
      BY <2>1 DEF LinkInv, Linked, IsReplaced
    <3>2. n \in Nat /\ n # 0 /\ m \in Nat /\ m <= Len(tokens) /\ Len(tokens) \in Nat
      BY LenType DEF Ids
    <3>3. n \in 1 .. m - 1 /\ tokens[n].family = tokens[m].family
      BY <3>1, <3>2 DEF FamilyInv
    <3>. QED  BY <3>1, <3>2, <3>3
  <2>2. \A m, n \in Ids : tokens[m].family = tokens[n].family =>
                              tokens[m].client = tokens[n].client
    BY DEF FamilyInv
  <2>. QED  BY <2>1, <2>2 DEF RotationInFamily
<1>. QED  BY <1>1, <1>2, TypeCorrect, FamilyStep, LinkStep, PTL DEF Spec

(***************************************************************************)
(* Dead families.                                                          *)
(*                                                                         *)
(* When a family ends, no request is about to insert into it and all its   *)
(* rows are revoked; a request accepts only a row that is not.             *)
(***************************************************************************)
EndedInv ==
    /\ ended \subseteq Ids
    /\ \A n \in Ids : tokens[n].family \in ended => tokens[n].revoked # NotRevoked
    /\ \A r \in Requests :
           req[r].pc \in {"mark", "create"} => tokens[req[r].token].family \notin ended

\* No request starts to insert.
NoneStarts ==
    \A r \in Requests : req'[r].pc \in {"mark", "create"} =>
        req[r].pc \in {"mark", "create"} /\ req'[r].token = req[r].token

LEMMA EndedQuiet ==
    ASSUME TypeOK, EndedInv, [Next]_vars, Len(tokens') = Len(tokens), ended' = ended, NoneStarts
    PROVE  EndedInv'
<1>1. Ids' = Ids /\ Kept
  BY RowsStay DEF Ids
<1>2. \A n \in Ids : tokens[n].revoked # NotRevoked => tokens'[n].revoked # NotRevoked
  BY RowsStay DEF IsRevoked
<1>3. \A r \in Requests : req[r].pc \in {"mark", "create"} => req[r].token \in Ids
  BY DEF TypeOK
<1>. QED  BY <1>1, <1>2, <1>3 DEF EndedInv, Kept, NoneStarts

\* Whole families are revoked.
LEMMA EndedGrows ==
    ASSUME TypeOK, EndedInv, [Next]_vars,
           NEW rows, NEW reason \in Reasons, Revoke(rows, reason), NEW fs, End(fs),
           fs \subseteq Ids, \A n \in Ids : tokens[n].family \in fs => n \in rows, NoneStarts
    PROVE  EndedInv'
<1>1. Ids' = Ids /\ Kept
  BY RevokeEffect DEF Ids
<1>2. \A n \in Ids : tokens[n].revoked # NotRevoked \/ n \in rows => tokens'[n].revoked # NotRevoked
  BY RevokeEffect DEF IsRevoked
<1>3. \A f \in ended' : f \in ended \/ (f \in fs /\ ~Inserting(f))
  BY DEF End
<1>4. \A r \in Requests : req[r].pc \in {"mark", "create"} =>
          req[r].token \in Ids /\ tokens[req[r].token].family \notin ended'
  BY <1>3 DEF TypeOK, EndedInv, Inserting
<1>5. ended' \subseteq Ids'
  BY <1>1, <1>3 DEF EndedInv
<1>6. \A n \in Ids' : tokens'[n].family \in ended' => tokens'[n].revoked # NotRevoked
  BY <1>1, <1>2, <1>3 DEF EndedInv, Kept
<1>7. \A r \in Requests :
         req'[r].pc \in {"mark", "create"} => tokens'[req'[r].token].family \notin ended'
  BY <1>1, <1>4 DEF NoneStarts, Kept
<1>. QED  BY <1>5, <1>6, <1>7 DEF EndedInv

\* A row is added to a family that has not ended.
LEMMA EndedRow ==
    ASSUME TypeOK, EndedInv, [Next]_vars, Len(tokens') = Len(tokens) + 1, ended' = ended,
           tokens'[Len(tokens) + 1].family \notin ended, NoneStarts
    PROVE  EndedInv'
<1>1. /\ Ids \subseteq Ids' /\ Kept
      /\ \A n \in Ids' : n \in Ids \/ n = Len(tokens) + 1
  BY RowsStay DEF Ids
<1>2. \A n \in Ids : tokens[n].revoked # NotRevoked => tokens'[n].revoked # NotRevoked
  BY RowsStay DEF IsRevoked
<1>3. \A r \in Requests : req[r].pc \in {"mark", "create"} => req[r].token \in Ids
  BY DEF TypeOK
<1>4. \A n \in Ids' : tokens'[n].family \in ended => tokens'[n].revoked # NotRevoked
  BY <1>1, <1>2 DEF EndedInv, Kept
<1>. QED  BY <1>1, <1>3, <1>4 DEF EndedInv, Kept, NoneStarts

LEMMA EndedStep == TypeOK /\ TypeOK' /\ FamilyInv /\ EndedInv /\ [Next]_vars => EndedInv'
<1>. SUFFICES ASSUME TypeOK, TypeOK', FamilyInv, EndedInv, [Next]_vars  PROVE EndedInv'
  OBVIOUS
<1>0. Len(tokens) \in Nat /\ (req' = req => NoneStarts)
  BY LenType DEF NoneStarts
<1>1. CASE UNCHANGED vars \/ Tick
  BY <1>0, <1>1, EndedQuiet DEF vars, Tick
<1>2. ASSUME NEW c \in Clients, Login(c)  PROVE EndedInv'
  <2>1. /\ Len(tokens') = Len(tokens) + 1
        /\ tokens'[Len(tokens) + 1].family = Len(tokens) + 1
    BY <1>2, NewRow
  <2>2. Len(tokens) + 1 \notin ended
    BY <1>0 DEF EndedInv, Ids
  <2>. QED  BY <1>0, <1>2, <2>1, <2>2, EndedRow DEF Login
<1>3. ASSUME NEW c \in Clients, NEW reason \in Reasons, RevokeAll(c, reason)  PROVE EndedInv'
  <2>. DEFINE rows == {n \in Ids : tokens[n].client = c}
              fs == {tokens[n].family : n \in rows}
  <2>1. Revoke(rows, reason) /\ End(fs) /\ NoneStarts
    BY <1>0, <1>3 DEF RevokeAll
  <2>2. fs \subseteq Ids
    BY DEF FamilyInv
  <2>3. \A n \in Ids : tokens[n].family \in fs => n \in rows
    BY DEF FamilyInv
  <2>. HIDE DEF rows, fs
  <2>. QED  BY <2>1, <2>2, <2>3, EndedGrows
<1>4. ASSUME NEW c \in Clients, NEW n \in Ids, RevokeSession(c, n)  PROVE EndedInv'
  BY <1>0, <1>4, RevokeEffect, EndedQuiet DEF RevokeSession, Reasons
<1>5. ASSUME NEW r \in Requests, NEW n \in answered, Accept(r, n)  PROVE EndedInv'
  <2>1. /\ tokens' = tokens /\ ended' = ended /\ Ids' = Ids
        /\ req'[r].token = n /\ \A q \in Requests \ {r} : req'[q] = req[q]
    BY <1>5 DEF Accept, TypeOK, Ids
  <2>2. n \in Ids /\ tokens[n].family \notin ended
    BY <1>5 DEF Accept, EndedInv, IsRevoked, TypeOK
  <2>. QED  BY <2>1, <2>2 DEF EndedInv
<1>6. ASSUME NEW r \in Requests, NEW n \in answered, DetectReuse(r, n)  PROVE EndedInv'
  <2>1. NoneStarts /\ tokens' = tokens /\ ended' = ended
    BY <1>6 DEF DetectReuse, NoneStarts, TypeOK
  <2>. QED  BY <2>1, EndedQuiet
<1>7. ASSUME NEW r \in Requests, RevokeFamily(r)  PROVE EndedInv'
  <2>. DEFINE f == tokens[req[r].token].family
              rows == {n \in Ids : tokens[n].family = f}
  <2>1. Revoke(rows, "refresh_token_reuse") /\ End({f}) /\ "refresh_token_reuse" \in Reasons
    BY <1>7 DEF RevokeFamily, Reasons
  <2>2. NoneStarts
    BY <1>7 DEF RevokeFamily, NoneStarts, Idle, TypeOK
  <2>3. f \in Ids
    BY <1>7 DEF RevokeFamily, FamilyInv, TypeOK
  <2>4. \A n \in Ids : tokens[n].family \in {f} => n \in rows
    OBVIOUS
  <2>. HIDE DEF rows, f
  <2>. QED  BY <2>1, <2>2, <2>3, <2>4, EndedGrows
<1>8. ASSUME NEW r \in Requests, MarkUsed(r) \/ SetReplacedBy(r) \/ Answer(r) \/ Fail(r)
      PROVE  EndedInv'
  <2>1. Len(tokens') = Len(tokens) /\ ended' = ended
    BY <1>8, MarkUsedEffect, SetReplacedByEffect DEF MarkUsed, SetReplacedBy, Answer, Fail
  <2>2. /\ req'[r].pc \in {"mark", "create"} =>
              req[r].pc \in {"mark", "create"} /\ req'[r].token = req[r].token
        /\ \A q \in Requests \ {r} : req'[q] = req[q]
    <3>1. PICK old \in Request : req[r] = old
      BY DEF TypeOK
    <3>2. \A pc \in {"create", "answer"} : LET next == [old EXCEPT !.pc = pc] IN
              next.pc = pc /\ next.token = old.token
      BY DEF Request
    <3>3. CASE MarkUsed(r)
      <4>1. req' = [req EXCEPT ![r] = [old EXCEPT !.pc = "create"]] /\ old.pc = "mark"
        BY <3>1, <3>3 DEF MarkUsed
      <4>. QED  BY <3>1, <3>2, <4>1 DEF TypeOK
    <3>4. CASE SetReplacedBy(r)
      <4>1. req' = [req EXCEPT ![r] = [old EXCEPT !.pc = "answer"]]
        BY <3>1, <3>4 DEF SetReplacedBy
      <4>. QED  BY <3>2, <4>1 DEF TypeOK
    <3>5. CASE Answer(r) \/ Fail(r)
      BY <3>5 DEF Answer, Fail, Idle, TypeOK
    <3>. QED  BY <1>8, <3>3, <3>4, <3>5
  <2>3. NoneStarts
    BY <2>2 DEF NoneStarts
  <2>. QED  BY <2>1, <2>3, EndedQuiet
<1>9. ASSUME NEW r \in Requests, Create(r)  PROVE EndedInv'
  <2>1. /\ Len(tokens') = Len(tokens) + 1
        /\ tokens'[Len(tokens) + 1].family = tokens[req[r].token].family
    BY <1>9, NewRow
  <2>2. tokens[req[r].token].family \notin ended
    BY <1>9 DEF Create, EndedInv
  <2>3. NoneStarts /\ ended' = ended
    BY <1>9 DEF Create, NoneStarts, TypeOK
  <2>. QED  BY <2>1, <2>2, <2>3, EndedRow
<1>10. "logout" \in Reasons
  BY DEF Reasons
<1>. QED
  BY <1>1, <1>2, <1>3, <1>4, <1>5, <1>6, <1>7, <1>8, <1>9, <1>10 DEF Next, RefreshStep

\* A family that reuse or a logout revoked while no rotation was inserting into
\* it is dead for good: whatever is presented, and whatever fails, all of its
\* tokens stay revoked and it gets no new one.
THEOREM EndedFamiliesStayEnded == Spec => []EndedStaysEnded
<1>1. Init => FamilyInv /\ EndedInv
  BY DEF Init, FamilyInv, EndedInv, Ids, Idle
<1>2. EndedInv => EndedStaysEnded
  BY DEF EndedInv, EndedStaysEnded, IsRevoked
<1>. QED  BY <1>1, <1>2, TypeCorrect, FamilyStep, EndedStep, PTL DEF Spec

(***************************************************************************)
(* One usable token.                                                       *)
(*                                                                         *)
(* In a family in which no two rotations overlapped, one request at most   *)
(* is rotating.  It holds the one token of the family that was handed out  *)
(* and not replaced, until it replaces that token by one that nobody has   *)
(* been given; and what was handed out in exchange for a token replaced it. *)
(***************************************************************************)
Active == {"mark", "create", "link", "answer"}
Family(r) == tokens[req[r].token].family

Sole ==
    \A q, r \in Requests :
        /\ req[q].pc \in Active /\ req[r].pc \in Active
        /\ Family(q) = Family(r) /\ Family(r) \notin raced
        => q = r

Chained ==
    /\ \A n \in answered : tokens[n].from # 0 => tokens[tokens[n].from].replacedBy # 0
    /\ \A m, n \in answered :
           m # n /\ tokens[m].family = tokens[n].family /\ tokens[n].family \notin raced
           => /\ tokens[m].replacedBy # 0 \/ tokens[n].replacedBy # 0
              /\ tokens[m].from # tokens[n].from

Holding(r) ==
    /\ req[r].pc # "answer" => req[r].token \in answered /\ tokens[req[r].token].replacedBy = 0
    /\ req[r].pc \in {"link", "answer"} => req[r].new \notin answered
    /\ req[r].pc = "answer" =>
           \A n \in answered : tokens[n].family = Family(r) =>
               tokens[n].replacedBy # 0 /\ tokens[n].from # req[r].token

Sound(r) ==
    /\ req[r].pc = "answer" => tokens[req[r].token].replacedBy # 0
    /\ req[r].pc \in Active /\ Family(r) \notin raced => Holding(r)

UniqueInv == Sole /\ Chained /\ \A r \in Requests : Sound(r)

\* Rows that are there keep family and from, and stay replaced.
LEMMA ChainStays ==
    ASSUME TypeOK, FamilyInv, [Next]_vars
    PROVE  \A n \in Ids :
              /\ n \in Ids'
              /\ tokens'[n].family = tokens[n].family /\ tokens'[n].from = tokens[n].from
              /\ tokens[n].replacedBy # 0 => tokens'[n].replacedBy # 0
              /\ tokens[n].from # 0 => tokens[n].from \in Ids
<1>1. /\ Ids \subseteq Ids' /\ Kept
      /\ \A n \in Ids : IsReplaced(n) => tokens'[n].replacedBy # 0
  BY RowsStay
<1>2. ASSUME NEW n \in Ids, tokens[n].from # 0  PROVE tokens[n].from \in Ids
  <2>1. tokens[n].from \in 1 .. n - 1 /\ Len(tokens) \in Nat
    BY <1>2, LenType DEF FamilyInv
  <2>. QED  BY <2>1 DEF Ids
<1>. QED  BY <1>1, <1>2 DEF Kept, IsReplaced

LEMMA ChainedStays ==
    ASSUME TypeOK, FamilyInv, Chained, [Next]_vars, answered' = answered, raced \subseteq raced'
    PROVE  Chained'
<1>1. answered \subseteq Ids
  BY DEF TypeOK
<1>. QED  BY <1>1, ChainStays DEF Chained

\* A request that does nothing still holds its token, whatever happens in
\* another family f.
LEMMA HoldingStays ==
    ASSUME TypeOK, FamilyInv, LinkInv, [Next]_vars, NEW f, answered \subseteq answered',
           \A n \in answered' : n \in answered \/ tokens'[n].family = f,
           \A n \in Ids : tokens[n].family # f => tokens'[n].replacedBy = tokens[n].replacedBy,
           NEW q \in Requests, req'[q] = req[q], req[q].pc \in Active, Family(q) # f,
           Holding(q)
    PROVE  Holding(q)'
<1>1. req[q].token \in Ids /\ answered \subseteq Ids
  BY DEF TypeOK, Active
<1>2. Family(q)' = Family(q)
  BY <1>1, ChainStays DEF Family
<1>3. ASSUME req[q].pc # "answer"
      PROVE  req[q].token \in answered' /\ tokens'[req[q].token].replacedBy = 0
  BY <1>1, <1>3 DEF Holding, Family
<1>4. ASSUME req[q].pc \in {"link", "answer"}  PROVE req[q].new \notin answered'
  <2>1. req[q].new \in Ids /\ tokens[req[q].new].from = req[q].token
    BY <1>4 DEF TypeOK, LinkInv, InProgress
  <2>2. req[q].token # 0
    BY <1>1, LenType DEF Ids
  <2>3. tokens[req[q].new].family = Family(q)
    BY <2>1, <2>2 DEF FamilyInv, Family
  <2>4. tokens'[req[q].new].family # f
    BY <2>1, <2>3, ChainStays
  <2>. QED  BY <1>4, <2>4 DEF Holding
<1>5. ASSUME req[q].pc = "answer", NEW n \in answered', tokens'[n].family = Family(q)
      PROVE  tokens'[n].replacedBy # 0 /\ tokens'[n].from # req[q].token
  <2>1. n \in answered /\ n \in Ids
    BY <1>1, <1>5
  <2>2. tokens[n].family = Family(q)
    BY <1>5, <2>1, ChainStays
  <2>3. tokens[n].replacedBy # 0 /\ tokens[n].from # req[q].token
    BY <1>5, <2>1, <2>2 DEF Holding
  <2>. QED  BY <2>1, <2>3, ChainStays
<1>. QED  BY <1>2, <1>3, <1>4, <1>5 DEF Holding

\* A request that does nothing stays sound.
LEMMA SoundStays ==
    ASSUME TypeOK, FamilyInv, LinkInv, [Next]_vars, NEW f, answered \subseteq answered',
           \A n \in answered' : n \in answered \/ tokens'[n].family = f,
           \A n \in Ids : tokens[n].family # f => tokens'[n].replacedBy = tokens[n].replacedBy,
           raced \subseteq raced',
           NEW q \in Requests, req'[q] = req[q],
           req[q].pc \in Active => Family(q) # f \/ Family(q) \in raced',
           Sound(q)
    PROVE  Sound(q)'
<1>1. ASSUME req[q].pc \in Active
      PROVE  /\ Family(q)' = Family(q)
             /\ tokens[req[q].token].replacedBy # 0 => tokens'[req[q].token].replacedBy # 0
  <2>1. req[q].token \in Ids
    BY <1>1 DEF TypeOK, Active
  <2>. QED  BY <2>1, ChainStays DEF Family
<1>2. ASSUME req[q].pc \in Active, Family(q) \notin raced'  PROVE Holding(q)'
  <2>1. Family(q) # f /\ Holding(q)
    BY <1>2 DEF Sound
  <2>. QED  BY <1>2, <2>1, HoldingStays
<1>3. req[q].pc = "answer" => req[q].pc \in Active
  BY DEF Active
<1>. QED  BY <1>1, <1>2, <1>3 DEF Sound

\* Nobody begins or goes on to rotate.
LEMMA UniqueRest ==
    ASSUME TypeOK, FamilyInv, LinkInv, UniqueInv, [Next]_vars, NEW f,
           answered \subseteq answered',
           \A n \in answered' : n \in answered \/ tokens'[n].family = f,
           \A n \in Ids : tokens'[n].replacedBy = tokens[n].replacedBy,
           raced' = raced,
           \A q \in Requests : req'[q] = req[q] \/ req'[q].pc \notin Active,
           f \notin Ids, Chained'
    PROVE  UniqueInv'
<1>1. \A q \in Requests : req[q].pc \in Active => req[q].token \in Ids
  BY DEF TypeOK, Active
<1>2. ASSUME NEW q \in Requests  PROVE Sound(q)'
  <2>1. CASE req'[q] = req[q]
    <3>1. req[q].pc \in Active => Family(q) # f
      BY <1>1 DEF FamilyInv, Family
    <3>2. Sound(q)
      BY DEF UniqueInv
    <3>. QED  BY <2>1, <3>1, <3>2, SoundStays
  <2>2. CASE req'[q].pc \notin Active
    BY <2>2 DEF Sound, Active
  <2>. QED  BY <2>1, <2>2
<1>3. Sole'
  <2>. SUFFICES ASSUME NEW q \in Requests, NEW r \in Requests,
                       req'[q].pc \in Active, req'[r].pc \in Active,
                       Family(q)' = Family(r)', Family(r)' \notin raced'
                PROVE  q = r
    BY DEF Sole
  <2>1. req'[q] = req[q] /\ req'[r] = req[r]
    OBVIOUS
  <2>2. Family(q)' = Family(q) /\ Family(r)' = Family(r)
    BY <1>1, <2>1, ChainStays DEF Family
  <2>. QED  BY <2>1, <2>2 DEF UniqueInv, Sole
<1>. QED  BY <1>2, <1>3 DEF UniqueInv

\* Request r goes on with the rotation of its family.
LEMMA UniqueActor ==
    ASSUME TypeOK, FamilyInv, LinkInv, UniqueInv, [Next]_vars, NEW r \in Requests,
           req[r].pc \in Active, req'[r].pc \in Active => req'[r].token = req[r].token,
           \A q \in Requests \ {r} : req'[q] = req[q],
           answered \subseteq answered',
           \A n \in answered' : n \in answered \/ tokens'[n].family = Family(r),
           \A n \in Ids :
              tokens[n].family # Family(r) => tokens'[n].replacedBy = tokens[n].replacedBy,
           raced' = raced,
           Chained', Sound(r)'
    PROVE  UniqueInv'
<1>1. \A q \in Requests : req[q].pc \in Active => req[q].token \in Ids
  BY DEF TypeOK, Active
<1>2. \A q \in Requests : req[q].pc \in Active => tokens'[req[q].token].family = Family(q)
  BY <1>1, ChainStays DEF Family
<1>3. ASSUME NEW q \in Requests \ {r}  PROVE Sound(q)'
  <2>1. Sound(q) /\ req'[q] = req[q]
    BY DEF UniqueInv
  <2>2. req[q].pc \in Active => Family(q) # Family(r) \/ Family(q) \in raced'
    BY DEF UniqueInv, Sole
  <2>. QED  BY <2>1, <2>2, SoundStays
<1>4. Sole'
  <2>. SUFFICES ASSUME NEW p \in Requests, NEW q \in Requests,
                       req'[p].pc \in Active, req'[q].pc \in Active,
                       Family(p)' = Family(q)', Family(q)' \notin raced'
                PROVE  p = q
    BY DEF Sole
  <2>1. \A s \in {p, q} : req[s].pc \in Active /\ req'[s].token = req[s].token
    OBVIOUS
  <2>2. Family(p)' = Family(p) /\ Family(q)' = Family(q)
    BY <1>2, <2>1 DEF Family
  <2>. QED  BY <2>1, <2>2 DEF UniqueInv, Sole
<1>. QED  BY <1>3, <1>4 DEF UniqueInv

LEMMA UniqueLogin ==
    ASSUME TypeOK, FamilyInv, LinkInv, UniqueInv, NEW c \in Clients, Login(c)
    PROVE  UniqueInv'
<1>0. Len(tokens) \in Nat /\ [Next]_vars
  BY LenType DEF Next
<1>. DEFINE k == Len(tokens) + 1
<1>2. /\ tokens'[k].family = k /\ tokens'[k].from = 0
      /\ answered' = answered \cup {k} /\ req' = req /\ raced' = raced
  BY NewRow DEF Login
<1>3. \A n \in Ids : tokens'[n] = tokens[n]
  BY <1>0, IssueEffect DEF Login
<1>4. k \notin Ids
  BY <1>0 DEF Ids
<1>. HIDE DEF k
<1>5. answered \subseteq Ids /\ \A n \in Ids : tokens[n].family \in Ids
  BY DEF TypeOK, FamilyInv
<1>6. \A n \in answered : tokens[n].from # 0 => tokens[n].from \in Ids
  BY <1>0, <1>5, ChainStays
<1>7. Chained'
  <2>1. ASSUME NEW n \in answered', tokens'[n].from # 0
        PROVE  tokens'[tokens'[n].from].replacedBy # 0
    <3>1. n \in answered /\ tokens'[n] = tokens[n]
      BY <1>2, <1>3, <1>5, <2>1
    <3>. QED  BY <1>3, <1>6, <2>1, <3>1 DEF UniqueInv, Chained
  <2>2. ASSUME NEW m \in answered', NEW n \in answered', m # n,
               tokens'[m].family = tokens'[n].family, tokens'[n].family \notin raced'
        PROVE  /\ tokens'[m].replacedBy # 0 \/ tokens'[n].replacedBy # 0
               /\ tokens'[m].from # tokens'[n].from
    <3>1. m \in answered /\ n \in answered
      BY <1>2, <1>3, <1>4, <1>5, <2>2
    <3>2. tokens'[m] = tokens[m] /\ tokens'[n] = tokens[n]
      BY <1>3, <1>5, <3>1
    <3>. QED  BY <1>2, <2>2, <3>1, <3>2 DEF UniqueInv, Chained
  <2>. QED  BY <2>1, <2>2 DEF Chained
<1>. QED  BY <1>0, <1>2, <1>3, <1>4, <1>7, UniqueRest

LEMMA UniqueAccept ==
    ASSUME TypeOK, FamilyInv, LinkInv, UniqueInv, NEW r \in Requests, NEW n \in answered,
           Accept(r, n)
    PROVE  UniqueInv'
<1>0. [Next]_vars
  BY DEF Next, RefreshStep
<1>. DEFINE f == tokens[n].family
<1>1. /\ tokens' = tokens /\ answered' = answered /\ raced \subseteq raced' /\ Ids' = Ids
      /\ \A q \in Requests \ {r} : req'[q] = req[q]
      /\ req'[r] = [pc |-> "mark", token |-> n, new |-> 0]
      /\ tokens[n].replacedBy = 0
      /\ req[r].pc = "idle"
  BY DEF Accept, IsReplaced, Ids, TypeOK
<1>2. \A q \in Requests \ {r} : req[q].pc \in Active => Family(q) # f \/ f \in raced'
  BY DEF Accept, Rotating, Active, Family
<1>3. Chained'
  BY <1>0, <1>1, ChainedStays DEF UniqueInv
<1>4. Sound(r)'
  BY <1>1 DEF Sound, Holding
<1>5. ASSUME NEW q \in Requests \ {r}  PROVE Sound(q)'
  <2>1. Sound(q)
    BY DEF UniqueInv
  <2>2. req[q].pc \in Active => Family(q) \in Ids
    BY DEF FamilyInv, Family, TypeOK, Active
  <2>3. 0 \notin Ids
    BY LenType DEF Ids
  <2>4. req[q].pc \in Active => Family(q) # 0 \/ Family(q) \in raced'
    BY <2>2, <2>3
  <2>5. req'[q] = req[q]
    BY <1>1
  <2>. QED  BY <1>0, <1>1, <2>1, <2>4, <2>5, SoundStays
<1>6. Sole'
  <2>. SUFFICES ASSUME NEW p \in Requests, NEW q \in Requests,
                       req'[p].pc \in Active, req'[q].pc \in Active,
                       Family(p)' = Family(q)', Family(q)' \notin raced', p # q
                PROVE  FALSE
    BY DEF Sole
  <2>1. Family(r)' = f /\ \A s \in Requests \ {r} : Family(s)' = Family(s)
    BY <1>1 DEF Family
  <2>2. CASE p = r \/ q = r
    BY <1>1, <1>2, <2>1, <2>2
  <2>3. CASE p # r /\ q # r
    BY <1>1, <2>1, <2>3 DEF UniqueInv, Sole
  <2>. QED  BY <2>2, <2>3
<1>. QED  BY <1>3, <1>4, <1>5, <1>6 DEF UniqueInv

LEMMA UniqueMark ==
    ASSUME TypeOK, FamilyInv, LinkInv, UniqueInv, NEW r \in Requests, MarkUsed(r)
    PROVE  UniqueInv'
<1>0. [Next]_vars
  BY DEF Next, RefreshStep
<1>1. /\ req[r].pc = "mark" /\ req'[r].pc = "create" /\ req'[r].token = req[r].token
      /\ \A q \in Requests \ {r} : req'[q] = req[q]
      /\ answered' = answered /\ raced' = raced
  BY DEF MarkUsed, TypeOK, Request
<1>2. \A n \in Ids : tokens'[n].replacedBy = tokens[n].replacedBy
  BY MarkUsedEffect
<1>3. req[r].token \in Ids /\ Sound(r)
  BY <1>1 DEF TypeOK, UniqueInv
<1>4. Family(r)' = Family(r)
  BY <1>0, <1>1, <1>3, ChainStays DEF Family
<1>5. Sound(r)'
  BY <1>1, <1>2, <1>3, <1>4 DEF Sound, Holding, Active
<1>6. Chained'
  BY <1>0, <1>1, ChainedStays DEF UniqueInv
<1>7. req[r].pc \in Active
  BY <1>1 DEF Active
<1>. QED  BY <1>0, <1>1, <1>2, <1>5, <1>6, <1>7, UniqueActor

LEMMA UniqueCreate ==
    ASSUME TypeOK, FamilyInv, LinkInv, UniqueInv, NEW r \in Requests, Create(r)
    PROVE  UniqueInv'
<1>0. [Next]_vars /\ Len(tokens) \in Nat
  BY LenType DEF Next, RefreshStep
<1>1. /\ req[r].pc = "create" /\ req'[r].pc = "link" /\ req'[r].token = req[r].token
      /\ req'[r].new = Len(tokens) + 1
      /\ \A q \in Requests \ {r} : req'[q] = req[q]
      /\ answered' = answered /\ raced' = raced
  BY DEF Create, TypeOK
<1>2. req[r].token \in Ids /\ Sound(r) /\ answered \subseteq Ids
  BY <1>1 DEF TypeOK, UniqueInv
<1>3. \A n \in Ids : tokens'[n] = tokens[n]
  <2>1. tokens[req[r].token].client \in Clients /\ tokens[req[r].token].family \in Nat
        /\ req[r].token \in Nat
    BY <1>2, RowType DEF Ids
  <2>2. Issue(tokens[req[r].token].client, tokens[req[r].token].family, req[r].token)
    BY DEF Create
  <2>. QED  BY <2>1, <2>2, IssueEffect
<1>4. Family(r)' = Family(r)
  BY <1>1, <1>2, <1>3 DEF Family
<1>5. Len(tokens) + 1 \notin answered
  BY <1>0, <1>2 DEF Ids
<1>6. Sound(r)'
  BY <1>1, <1>2, <1>3, <1>4, <1>5 DEF Sound, Holding, Active
<1>7. Chained'
  BY <1>0, <1>1, ChainedStays DEF UniqueInv
<1>8. req[r].pc \in Active
  BY <1>1 DEF Active
<1>. QED  BY <1>0, <1>1, <1>3, <1>6, <1>7, <1>8, UniqueActor

LEMMA UniqueLink ==
    ASSUME TypeOK, FamilyInv, LinkInv, UniqueInv, NEW r \in Requests, SetReplacedBy(r)
    PROVE  UniqueInv'
<1>0. [Next]_vars
  BY DEF Next, RefreshStep
<1>1. /\ req[r].pc = "link" /\ req'[r].pc = "answer"
      /\ req'[r].token = req[r].token /\ req'[r].new = req[r].new
      /\ \A q \in Requests \ {r} : req'[q] = req[q]
      /\ answered' = answered /\ raced' = raced
  BY DEF SetReplacedBy, TypeOK, Request
<1>2. req[r].token \in Ids /\ req[r].new \in Ids /\ Sound(r) /\ answered \subseteq Ids
      /\ req[r].token # 0
  BY <1>1, LenType DEF TypeOK, UniqueInv, Ids
<1>3. /\ tokens'[req[r].token].replacedBy = req[r].new
      /\ \A n \in Ids : n # req[r].token => tokens'[n].replacedBy = tokens[n].replacedBy
  BY SetReplacedByEffect
<1>4. Family(r)' = Family(r)
  BY <1>0, <1>1, <1>2, ChainStays DEF Family
<1>5. tokens'[req[r].token].replacedBy # 0
  BY <1>2, <1>3, LenType DEF Ids
<1>6. ASSUME Family(r) \notin raced, NEW n \in answered, tokens[n].family = Family(r)
      PROVE  tokens'[n].replacedBy # 0 /\ tokens'[n].from # req[r].token
  <2>1. req[r].token \in answered /\ tokens[req[r].token].replacedBy = 0
    BY <1>1, <1>2, <1>6 DEF Sound, Holding, Active
  <2>2. n # req[r].token => tokens[n].replacedBy # 0
    BY <1>6, <2>1 DEF UniqueInv, Chained, Family
  <2>3. tokens[n].from # req[r].token
    BY <1>2, <2>1 DEF UniqueInv, Chained
  <2>. QED  BY <1>0, <1>2, <1>5, <2>2, <2>3, ChainStays
<1>7. Holding(r)' \/ Family(r) \in raced
  <2>1. ASSUME Family(r) \notin raced, NEW n \in answered, tokens'[n].family = Family(r)
        PROVE  tokens'[n].replacedBy # 0 /\ tokens'[n].from # req[r].token
    BY <1>0, <1>2, <1>6, <2>1, ChainStays
  <2>2. Family(r) \notin raced => req[r].new \notin answered
    BY <1>1, <1>2 DEF Sound, Holding, Active
  <2>. QED  BY <1>1, <1>4, <2>1, <2>2 DEF Holding
<1>8. Sound(r)'
  BY <1>1, <1>4, <1>5, <1>7 DEF Sound
<1>9. Chained'
  BY <1>0, <1>1, ChainedStays DEF UniqueInv
<1>10. \A n \in Ids :
          tokens[n].family # Family(r) => tokens'[n].replacedBy = tokens[n].replacedBy
  BY <1>3 DEF Family
<1>11. req[r].pc \in Active
  BY <1>1 DEF Active
<1>. QED  BY <1>0, <1>1, <1>8, <1>9, <1>10, <1>11, UniqueActor

LEMMA UniqueAnswer ==
    ASSUME TypeOK, FamilyInv, LinkInv, UniqueInv, NEW r \in Requests, Answer(r)
    PROVE  UniqueInv'
<1>0. [Next]_vars
  BY DEF Next, RefreshStep
<1>1. /\ req[r].pc = "answer" /\ req'[r].pc = "idle"
      /\ \A q \in Requests \ {r} : req'[q] = req[q]
      /\ answered' = answered \cup {req[r].new} /\ raced' = raced /\ tokens' = tokens
  BY DEF Answer, Idle, TypeOK
<1>2. /\ req[r].token \in Ids /\ req[r].token # 0
      /\ tokens[req[r].new].from = req[r].token /\ req[r].new \in Ids /\ Sound(r)
  BY <1>1, LenType DEF TypeOK, UniqueInv, LinkInv, InProgress, Ids
<1>3. tokens[req[r].new].family = Family(r)
  BY <1>2 DEF FamilyInv, Family
<1>4. tokens[req[r].token].replacedBy # 0
  BY <1>1, <1>2 DEF Sound
<1>5. ASSUME NEW m \in answered, tokens[m].family = Family(r), Family(r) \notin raced
      PROVE  tokens[m].replacedBy # 0 /\ tokens[m].from # tokens[req[r].new].from
  BY <1>1, <1>2, <1>5 DEF Sound, Holding, Active
<1>6. Chained'
  <2>1. ASSUME NEW n \in answered', tokens[n].from # 0
        PROVE  tokens[tokens[n].from].replacedBy # 0
    BY <1>1, <1>2, <1>4, <2>1 DEF UniqueInv, Chained
  <2>2. ASSUME NEW m \in answered', NEW n \in answered', m # n,
               tokens[m].family = tokens[n].family, tokens[n].family \notin raced
        PROVE  /\ tokens[m].replacedBy # 0 \/ tokens[n].replacedBy # 0
               /\ tokens[m].from # tokens[n].from
    <3>1. CASE m \in answered /\ n \in answered
      BY <2>2, <3>1 DEF UniqueInv, Chained
    <3>2. CASE m = req[r].new
      BY <1>1, <1>3, <1>5, <2>2, <3>2
    <3>3. CASE n = req[r].new
      BY <1>1, <1>3, <1>5, <2>2, <3>3
    <3>. QED  BY <1>1, <3>1, <3>2, <3>3
  <2>. QED  BY <1>1, <2>1, <2>2 DEF Chained
<1>7. Sound(r)' /\ req[r].pc \in Active /\ req'[r].pc \notin Active
  BY <1>1 DEF Sound, Active
<1>8. \A n \in answered' : n \in answered \/ tokens'[n].family = Family(r)
  BY <1>1, <1>3
<1>. QED  BY <1>0, <1>1, <1>6, <1>7, <1>8, UniqueActor

LEMMA UniqueQuiet ==
    ASSUME TypeOK, FamilyInv, LinkInv, UniqueInv, [Next]_vars,
           answered' = answered, raced' = raced,
           \A n \in Ids : tokens'[n].replacedBy = tokens[n].replacedBy,
           \A q \in Requests : req'[q] = req[q] \/ req'[q].pc \notin Active
    PROVE  UniqueInv'
<1>1. 0 \notin Ids
  BY LenType DEF Ids
<1>2. Chained'
  BY ChainedStays DEF UniqueInv
<1>. QED  BY <1>1, <1>2, UniqueRest

LEMMA UniqueStep ==
    TypeOK /\ FamilyInv /\ LinkInv /\ UniqueInv /\ [Next]_vars => UniqueInv'
<1>. SUFFICES ASSUME TypeOK, FamilyInv, LinkInv, UniqueInv, [Next]_vars  PROVE UniqueInv'
  OBVIOUS
<1>1. CASE UNCHANGED vars \/ Tick
  BY <1>1, UniqueQuiet DEF vars, Tick
<1>2. ASSUME NEW c \in Clients,
             \/ RevokeAll(c, "logout")
             \/ \E n \in Ids : RevokeSession(c, n)
      PROVE  UniqueInv'
  BY <1>2, UniqueQuiet, RevokeEffect DEF RevokeAll, RevokeSession, Reasons
<1>3. ASSUME NEW r \in Requests, NEW n \in answered, DetectReuse(r, n)  PROVE UniqueInv'
  BY <1>3, UniqueQuiet DEF DetectReuse, TypeOK, Active
<1>4. ASSUME NEW r \in Requests, RevokeFamily(r)  PROVE UniqueInv'
  <2>1. \A n \in Ids : tokens'[n].replacedBy = tokens[n].replacedBy
    BY <1>4, RevokeEffect DEF RevokeFamily, Reasons
  <2>. QED  BY <1>4, <2>1, UniqueQuiet DEF RevokeFamily, Idle, TypeOK, Active
<1>5. ASSUME NEW r \in Requests, Fail(r)  PROVE UniqueInv'
  BY <1>5, UniqueQuiet DEF Fail, Idle, TypeOK, Active
<1>. QED
  BY <1>1, <1>2, <1>3, <1>4, <1>5, UniqueLogin, UniqueAccept, UniqueMark, UniqueCreate,
     UniqueLink, UniqueAnswer DEF Next, RefreshStep

\* Of the tokens of a session in which no two rotations overlapped, a caller
\* can exchange one at most, and no token was exchanged twice: a lost answer, a
\* crash between any two statements or a second try leaves no second chain.
THEOREM OneTokenIsUsable == Spec => []OneUsableToken
<1>1. Init => FamilyInv /\ LinkInv /\ UniqueInv
  BY DEF Init, FamilyInv, LinkInv, Linked, InProgress, Ids, Idle, UniqueInv, Sole, Chained,
         Sound, Active
<1>2. UniqueInv => OneUsableToken
  BY DEF UniqueInv, Chained, OneUsableToken, Usable, IsReplaced
<1>. QED  BY <1>1, <1>2, TypeCorrect, FamilyStep, LinkStep, UniqueStep, PTL DEF Spec

-----------------------------------------------------------------------------
(***************************************************************************)
(* Accounts.                                                               *)
(***************************************************************************)
JoinTypeOK ==
    /\ clients \in [Clients -> Client \cup {NoClient}]
    /\ joining \in [Requests -> Joining]
    /\ \A r \in Requests : joining[r].pc = "issue" => joining[r].client \in Registered

Owned == \A n \in Ids : tokens[n].client \in Registered

LEMMA Parts == AccountsTypeOK <=> JoinTypeOK /\ Owned
BY DEF AccountsTypeOK, JoinTypeOK, Owned

LEMMA JoiningType ==
    ASSUME JoinTypeOK, NEW r \in Requests
    PROVE  /\ joining[r].pc = "create" =>
                 joining[r].email \in Emails /\ joining[r].known \in SUBSET Clients
           /\ joining[r].pc = "issue" => joining[r].client \in Registered
<1>1. joining[r] \in Joining
  BY DEF JoinTypeOK
<1>. QED  BY <1>1 DEF JoinTypeOK, Joining

LEMMA NewJoiningType ==
    /\ NotJoining \in Joining /\ NotJoining.pc = "idle"
    /\ \A email \in Emails, known \in SUBSET Clients, seed \in BOOLEAN :
           [pc |-> "create", email |-> email, known |-> known, seed |-> seed] \in Joining
    /\ \A c \in Clients : [pc |-> "issue", client |-> c] \in Joining
<1>1. NotJoining \in Joining /\ NotJoining.pc = "idle"
  BY DEF Joining, NotJoining
<1>2. ASSUME NEW email \in Emails, NEW known \in SUBSET Clients, NEW seed \in BOOLEAN
      PROVE  [pc |-> "create", email |-> email, known |-> known, seed |-> seed] \in Joining
  BY DEF Joining
<1>3. ASSUME NEW c \in Clients  PROVE [pc |-> "issue", client |-> c] \in Joining
  BY DEF Joining
<1>. QED  BY <1>1, <1>2, <1>3, Zenon

(***************************************************************************)
(* What a step does to the accounts.                                       *)
(***************************************************************************)
Looks(r, email, seed) ==
    /\ ~EmailExists(email)
    /\ joining' = [joining EXCEPT ![r] =
           [pc |-> "create", email |-> email, known |-> Registered, seed |-> seed]]
    /\ clients' = clients

Leaves(r) ==
    /\ joining' = [joining EXCEPT ![r] = NotJoining]
    /\ clients' = clients

\* Every step creates a client, looks an address up, ends a registration or
\* touches neither.
LEMMA AccountsStep ==
    ASSUME [AccountsNext]_allVars
    PROVE  \/ \E r \in Requests, c \in Clients : CreateClient(r, c)
           \/ \E r \in Requests, email \in Emails, seed \in BOOLEAN : Looks(r, email, seed)
           \/ \E r \in Requests : Leaves(r)
           \/ UNCHANGED joinVars
<1>1. CASE UNCHANGED allVars
  BY <1>1 DEF allVars
<1>2. ASSUME NEW r \in Requests, NEW email \in Emails, Register(r, email)
      PROVE  Looks(r, email, FALSE)
  BY <1>2 DEF Register, Looks
<1>3. ASSUME NEW r \in Requests, SeedSampleClient(r)  PROVE Looks(r, SampleEmail, TRUE)
  BY <1>3 DEF SeedSampleClient, Looks
<1>4. ASSUME NEW r \in Requests, IssueFirst(r) \/ FailJoining(r)  PROVE Leaves(r)
  BY <1>4 DEF IssueFirst, FailJoining, Leaves
<1>5. ASSUME \/ \E email \in Emails : LoginByEmail(email)
             \/ \E c \in Clients : ProtectedStep(c)
      PROVE  UNCHANGED joinVars
  BY <1>5 DEF LoginByEmail, ProtectedStep
<1>6. SampleEmail \in Emails
  BY EmailAssumption
<1>. QED  BY <1>1, <1>2, <1>3, <1>4, <1>5, <1>6, Zenon DEF AccountsNext

\* Every step is one of RefreshTokens.
LEMMA TokensStep ==
    ASSUME JoinTypeOK, [AccountsNext]_allVars
    PROVE  [Next]_vars
<1>1. CASE UNCHANGED allVars
  BY <1>1 DEF allVars
<1>2. ASSUME NEW r \in Requests,
             \/ \E email \in Emails : Register(r, email)
             \/ SeedSampleClient(r)
             \/ \E c \in Clients : CreateClient(r, c)
             \/ FailJoining(r)
      PROVE  UNCHANGED vars
  BY <1>2 DEF Register, SeedSampleClient, CreateClient, FailJoining
<1>3. ASSUME NEW r \in Requests, IssueFirst(r)  PROVE Next
  <2>1. joining[r].client \in Clients /\ Login(joining[r].client)
    BY <1>3, JoiningType DEF IssueFirst, Registered
  <2>. QED  BY <2>1 DEF Next
<1>4. ASSUME NEW email \in Emails, LoginByEmail(email)  PROVE Next
  BY <1>4 DEF LoginByEmail, Matching, Registered, Next
<1>5. ASSUME NEW c \in Clients, ProtectedStep(c)  PROVE Next
  <2>1. CASE RevokeAll(c, "logout")
    BY <2>1 DEF Next
  <2>2. CASE \E n \in Sessions(c) : RevokeSession(c, n)
    BY <2>2 DEF Sessions, Next
  <2>. QED  BY <1>5, <2>1, <2>2 DEF ProtectedStep
<1>6. ASSUME NEW r \in Requests, RefreshStep(r)  PROVE Next
  BY <1>6 DEF Next
<1>7. ASSUME Tick  PROVE Next
  BY <1>7 DEF Next
<1>. QED  BY <1>1, <1>2, <1>3, <1>4, <1>5, <1>6, <1>7, Zenon DEF AccountsNext

\* The new row of CreateClient; no other row changes.
LEMMA CreateClientEffect ==
    ASSUME JoinTypeOK, NEW r \in Requests, NEW c \in Clients, CreateClient(r, c)
    PROVE  /\ clients' \in [Clients -> Client \cup {NoClient}]
           /\ Registered' = Registered \cup {c} /\ c \notin Registered
           /\ clients'[c].email = joining[r].email /\ clients'[c].known = joining[r].known
           /\ \A d \in Registered : clients'[d] = clients[d]
           /\ \A q \in Requests \ {r} : joining'[q] = joining[q]
           /\ joining'[r].pc # "create"
           /\ joining'[r] \in Joining
           /\ joining'[r].pc = "issue" => joining'[r].client = c
<1>. DEFINE row == [email |-> joining[r].email, known |-> joining[r].known]
<1>1. row \in Client
  BY JoiningType DEF CreateClient, Client
<1>2. row # NoClient
  BY <1>1, NoClientAssumption
<1>3. clients' = [clients EXCEPT ![c] = row] /\ c \notin Registered
  BY DEF CreateClient
<1>4. row.email = joining[r].email /\ row.known = joining[r].known
  OBVIOUS
<1>. HIDE DEF row
<1>5. /\ clients' \in [Clients -> Client \cup {NoClient}]
      /\ clients'[c] = row
      /\ \A d \in Clients \ {c} : clients'[d] = clients[d]
  BY <1>1, <1>3 DEF JoinTypeOK
<1>6. Registered' = Registered \cup {c}
  BY <1>2, <1>5 DEF Registered
<1>7. \A d \in Registered : clients'[d] = clients[d]
  BY <1>3, <1>5 DEF Registered
<1>8. /\ \A q \in Requests \ {r} : joining'[q] = joining[q]
      /\ joining'[r] = NotJoining \/ joining'[r] = [pc |-> "issue", client |-> c]
  BY DEF CreateClient, JoinTypeOK
<1>9. /\ joining'[r].pc # "create" /\ joining'[r] \in Joining
      /\ joining'[r].pc = "issue" => joining'[r].client = c
  <2>1. CASE joining'[r] = NotJoining
    BY <2>1, NewJoiningType
  <2>2. CASE joining'[r] = [pc |-> "issue", client |-> c]
    BY <2>2, NewJoiningType
  <2>. QED  BY <1>8, <2>1, <2>2
<1>. QED  BY <1>3, <1>4, <1>5, <1>6, <1>7, <1>8, <1>9

LEMMA JoinTypeStep == JoinTypeOK /\ [AccountsNext]_allVars => JoinTypeOK'
<1>. SUFFICES ASSUME JoinTypeOK, [AccountsNext]_allVars  PROVE JoinTypeOK'
  OBVIOUS
<1>1. ASSUME NEW r \in Requests, NEW c \in Clients, CreateClient(r, c)  PROVE JoinTypeOK'
  <2>1. joining' \in [Requests -> Joining]
    <3>1. joining' = [joining EXCEPT ![r] = joining'[r]]
      BY <1>1 DEF CreateClient, JoinTypeOK
    <3>2. joining'[r] \in Joining
      BY <1>1, CreateClientEffect
    <3>. QED  BY <3>1, <3>2 DEF JoinTypeOK
  <2>2. ASSUME NEW q \in Requests, joining'[q].pc = "issue"
        PROVE  joining'[q].client \in Registered'
    <3>1. CASE q = r
      BY <1>1, <2>2, <3>1, CreateClientEffect
    <3>2. CASE q # r
      BY <1>1, <2>2, <3>2, CreateClientEffect, JoiningType
    <3>. QED  BY <3>1, <3>2
  <2>3. clients' \in [Clients -> Client \cup {NoClient}]
    BY <1>1, CreateClientEffect
  <2>. QED  BY <2>1, <2>2, <2>3 DEF JoinTypeOK
<1>2. ASSUME NEW r \in Requests, NEW new \in Joining, new.pc # "issue", clients' = clients,
             joining' = [joining EXCEPT ![r] = new]
      PROVE  JoinTypeOK'
  <2>1. Registered' = Registered
    BY <1>2 DEF Registered
  <2>. QED  BY <1>2, <2>1 DEF JoinTypeOK
<1>3. ASSUME NEW r \in Requests, NEW email \in Emails, NEW seed \in BOOLEAN,
             Looks(r, email, seed)
      PROVE  JoinTypeOK'
  <2>1. Registered \in SUBSET Clients
    BY DEF Registered
  <2>. DEFINE new == [pc |-> "create", email |-> email, known |-> Registered, seed |-> seed]
  <2>2. new \in Joining /\ new.pc # "issue"
    BY <2>1, NewJoiningType
  <2>3. clients' = clients /\ joining' = [joining EXCEPT ![r] = new]
    BY <1>3 DEF Looks
  <2>. HIDE DEF new
  <2>. QED  BY <1>2, <2>2, <2>3
<1>4. ASSUME NEW r \in Requests, Leaves(r)  PROVE JoinTypeOK'
  BY <1>2, <1>4, NewJoiningType DEF Leaves
<1>5. CASE UNCHANGED joinVars
  BY <1>5 DEF joinVars, JoinTypeOK, Registered
<1>. QED  BY <1>1, <1>3, <1>4, <1>5, AccountsStep

LEMMA RegisteredGrows ==
    ASSUME JoinTypeOK, [AccountsNext]_allVars
    PROVE  Registered \subseteq Registered' /\ \A c \in Registered : clients'[c] = clients[c]
<1>1. ASSUME NEW r \in Requests, NEW c \in Clients, CreateClient(r, c)
      PROVE  Registered \subseteq Registered' /\ \A d \in Registered : clients'[d] = clients[d]
  BY <1>1, CreateClientEffect
<1>2. ASSUME clients' = clients
      PROVE  Registered \subseteq Registered' /\ \A d \in Registered : clients'[d] = clients[d]
  BY <1>2 DEF Registered
<1>. QED  BY <1>1, <1>2, AccountsStep DEF Looks, Leaves, joinVars

\* A login is for a registered client.
LEMMA LoginRegistered ==
    ASSUME JoinTypeOK, TypeOK, [AccountsNext]_allVars
    PROVE  \/ Len(tokens') = Len(tokens)
           \/ \E c \in Registered : Login(c)
           \/ \E r \in Requests : Create(r)
<1>. USE DEF Registered
<1>1. CASE UNCHANGED vars
  BY <1>1 DEF vars
<1>2. ASSUME NEW r \in Requests, IssueFirst(r)  PROVE \E c \in Registered : Login(c)
  BY <1>2, JoiningType DEF IssueFirst
<1>3. ASSUME NEW email \in Emails, LoginByEmail(email)  PROVE \E c \in Registered : Login(c)
  BY <1>3 DEF LoginByEmail, Matching
<1>4. ASSUME NEW c \in Clients, ProtectedStep(c)  PROVE Len(tokens') = Len(tokens)
  BY <1>4, RevokeEffect DEF ProtectedStep, RevokeAll, RevokeSession, Reasons
<1>5. ASSUME NEW r \in Requests, RefreshStep(r)
      PROVE  Len(tokens') = Len(tokens) \/ Create(r)
  <2>1. RevokeFamily(r) => Len(tokens') = Len(tokens)
    BY RevokeEffect DEF RevokeFamily, Reasons
  <2>2. MarkUsed(r) \/ SetReplacedBy(r) => Len(tokens') = Len(tokens)
    BY MarkUsedEffect, SetReplacedByEffect
  <2>3. Answer(r) \/ Fail(r) => Len(tokens') = Len(tokens)
    BY DEF Answer, Fail
  <2>4. (\E n \in answered : Accept(r, n) \/ DetectReuse(r, n)) => Len(tokens') = Len(tokens)
    BY DEF Accept, DetectReuse
  <2>. QED  BY <1>5, <2>1, <2>2, <2>3, <2>4 DEF RefreshStep
<1>6. ASSUME NEW r \in Requests,
             \/ \E email \in Emails : Register(r, email)
             \/ SeedSampleClient(r)
             \/ \E c \in Clients : CreateClient(r, c)
             \/ FailJoining(r)
      PROVE  UNCHANGED vars
  BY <1>6 DEF Register, SeedSampleClient, CreateClient, FailJoining
<1>7. Tick => Len(tokens') = Len(tokens)
  BY DEF Tick
<1>8. UNCHANGED allVars => UNCHANGED vars
  BY DEF allVars
<1>. QED
  BY <1>1, <1>2, <1>3, <1>4, <1>5, <1>6, <1>7, <1>8, Zenon DEF AccountsNext

LEMMA OwnedStep == JoinTypeOK /\ TypeOK /\ Owned /\ [AccountsNext]_allVars => Owned'
<1>. SUFFICES ASSUME JoinTypeOK, TypeOK, Owned, [AccountsNext]_allVars  PROVE Owned'
  OBVIOUS
<1>1. Registered \subseteq Registered'
  BY RegisteredGrows
<1>2. Len(tokens) \in Nat /\ \A n \in Ids : tokens'[n].client = tokens[n].client
  BY TokensStep, RowsStay DEF Kept
<1>3. CASE Len(tokens') = Len(tokens)
  BY <1>1, <1>2, <1>3 DEF Owned, Ids
<1>4. ASSUME NEW c \in Registered, Len(tokens') = Len(tokens) + 1,
             tokens'[Len(tokens) + 1].client = c
      PROVE  Owned'
  BY <1>1, <1>2, <1>4 DEF Owned, Ids
<1>5. ASSUME NEW c \in Registered, Login(c)  PROVE Owned'
  <2>1. c \in Clients
    BY DEF Registered
  <2>. QED  BY <1>4, <1>5, <2>1, NewRow
<1>6. ASSUME NEW r \in Requests, Create(r)  PROVE Owned'
  <2>1. req[r].token \in Ids /\ tokens[req[r].token].client \in Registered
    BY <1>6, NewRow DEF Owned
  <2>. QED  BY <1>4, <1>6, <2>1, NewRow
<1>. QED  BY <1>3, <1>5, <1>6, LoginRegistered

AccountsInv == TypeOK /\ JoinTypeOK /\ Owned

LEMMA AccountsInvInit == AccountsInit => AccountsInv
<1>. SUFFICES ASSUME AccountsInit  PROVE AccountsInv
  OBVIOUS
<1>1. TypeOK
  BY TypeInit DEF AccountsInit
<1>2. JoinTypeOK
  BY NewJoiningType DEF AccountsInit, JoinTypeOK
<1>3. Owned
  BY DEF AccountsInit, Init, Owned, Ids
<1>. QED  BY <1>1, <1>2, <1>3 DEF AccountsInv

LEMMA AccountsInvStep == AccountsInv /\ [AccountsNext]_allVars => AccountsInv'
BY TokensStep, TypeStep, JoinTypeStep, OwnedStep DEF AccountsInv

\* Types of the accounts; every token, so every access token too, is a
\* registered client's.
THEOREM AccountsTypeCorrect == AccountsSpec => []AccountsTypeOK
<1>1. AccountsInv => AccountsTypeOK
  BY Parts DEF AccountsInv
<1>. QED  BY <1>1, AccountsInvInit, AccountsInvStep, PTL DEF AccountsSpec

\* Accounts implements RefreshTokens: every theorem about Spec, on rotation,
\* revocation and families, holds of the sessions that registration, login by
\* address and the protected routes make.
THEOREM AccountsImplementTokens == AccountsSpec => Spec
<1>1. AccountsInit => Init
  BY DEF AccountsInit
<1>2. AccountsInv /\ [AccountsNext]_allVars => [Next]_vars
  BY TokensStep DEF AccountsInv
<1>. QED  BY <1>1, <1>2, AccountsInvInit, AccountsInvStep, PTL DEF AccountsSpec, Spec

\* What is proved of the tokens holds with registration, the seed and the access
\* tokens around them.
THEOREM AccountsKeepSessions ==
    AccountsSpec => /\ [](TypeOK /\ RotationInFamily /\ OneUsableToken /\ EndedStaysEnded)
                    /\ NothingTakenBack
BY AccountsImplementTokens, TypeCorrect, RotationStaysInFamily, OneTokenIsUsable,
   EndedFamiliesStayEnded, NothingIsTakenBack, PTL

(***************************************************************************)
(* One address, one account.                                               *)
(*                                                                         *)
(* What a registration knows when it looks has another address, and as no  *)
(* account ever changes it has one still when the registration inserts.    *)
(***************************************************************************)
KnownOther(known, email) ==
    \A c \in known : c \in Registered /\ Lower[clients[c].email] # Lower[email]

TwinInv ==
    /\ \A c, d \in Registered : c # d => clients[c].email # clients[d].email
    /\ \A c \in Registered : KnownOther(clients[c].known, clients[c].email)
    /\ \A r \in Requests :
           joining[r].pc = "create" => KnownOther(joining[r].known, joining[r].email)

LEMMA KnownStays ==
    ASSUME JoinTypeOK, [AccountsNext]_allVars, NEW known, NEW email, KnownOther(known, email)
    PROVE  KnownOther(known, email)'
BY RegisteredGrows DEF KnownOther

LEMMA TwinStep == JoinTypeOK /\ TwinInv /\ [AccountsNext]_allVars => TwinInv'
<1>. SUFFICES ASSUME JoinTypeOK, TwinInv, [AccountsNext]_allVars  PROVE TwinInv'
  OBVIOUS
<1>1. \A c \in Registered : clients'[c] = clients[c]
  BY RegisteredGrows
<1>2. \A c \in Registered : KnownOther(clients[c].known, clients[c].email)'
  <2>. TAKE c \in Registered
  <2>1. KnownOther(clients[c].known, clients[c].email)
    BY DEF TwinInv
  <2>2. \A d \in clients[c].known :
            d \in Registered' /\ Lower[clients'[d].email] # Lower[clients[c].email]
    BY <1>1, <2>1, RegisteredGrows DEF KnownOther
  <2>. QED  BY <1>1, <2>2 DEF KnownOther
<1>3. ASSUME NEW q \in Requests, joining[q].pc = "create", joining'[q] = joining[q]
      PROVE  KnownOther(joining[q].known, joining[q].email)'
  <2>1. \A d \in joining[q].known :
            d \in Registered' /\ Lower[clients'[d].email] # Lower[joining[q].email]
    BY <1>1, <1>3, RegisteredGrows DEF KnownOther, TwinInv
  <2>. QED  BY <1>3, <2>1 DEF KnownOther
<1>4. ASSUME NEW r \in Requests, NEW c \in Clients, CreateClient(r, c)  PROVE TwinInv'
  <2>1. /\ Registered' = Registered \cup {c} /\ c \notin Registered
        /\ clients'[c].email = joining[r].email /\ clients'[c].known = joining[r].known
    BY <1>4, CreateClientEffect
  <2>2. \A d \in Registered : clients[d].email # joining[r].email
    BY <1>4 DEF CreateClient
  <2>3. \A a, b \in Registered' : a # b => clients'[a].email # clients'[b].email
    BY <1>1, <2>1, <2>2 DEF TwinInv
  <2>4. KnownOther(clients[c].known, clients[c].email)'
    <3>1. \A d \in joining[r].known :
              d \in Registered /\ Lower[clients[d].email] # Lower[joining[r].email]
      BY <1>4 DEF CreateClient, TwinInv, KnownOther
    <3>. QED  BY <1>1, <2>1, <3>1 DEF KnownOther
  <2>5. \A d \in Registered' : KnownOther(clients[d].known, clients[d].email)'
    BY <1>2, <2>1, <2>4
  <2>6. ASSUME NEW q \in Requests, joining'[q].pc = "create"
        PROVE  KnownOther(joining[q].known, joining[q].email)'
    <3>1. q # r /\ joining'[q] = joining[q]
      BY <1>4, <2>6, CreateClientEffect
    <3>. QED  BY <1>3, <2>6, <3>1
  <2>. QED  BY <2>3, <2>5, <2>6 DEF TwinInv
<1>5. ASSUME clients' = clients,
             \A q \in Requests : joining'[q].pc = "create" =>
                 KnownOther(joining[q].known, joining[q].email)'
      PROVE  TwinInv'
  <2>1. Registered' = Registered
    BY <1>5 DEF Registered
  <2>. QED  BY <1>2, <1>5, <2>1 DEF TwinInv
<1>6. ASSUME NEW r \in Requests, NEW email \in Emails, NEW seed \in BOOLEAN,
             Looks(r, email, seed)
      PROVE  TwinInv'
  <2>1. clients' = clients /\ Registered' = Registered
    BY <1>6 DEF Looks, Registered
  <2>2. /\ joining'[r].known = Registered /\ joining'[r].email = email
        /\ \A q \in Requests \ {r} : joining'[q] = joining[q]
    BY <1>6 DEF Looks, JoinTypeOK
  <2>3. \A d \in Registered : Lower[clients[d].email] # Lower[email]
    BY <1>6 DEF Looks, EmailExists, Matching
  <2>4. KnownOther(joining[r].known, joining[r].email)'
    BY <2>1, <2>2, <2>3 DEF KnownOther
  <2>. QED  BY <1>3, <1>5, <2>1, <2>2, <2>4
<1>7. ASSUME NEW r \in Requests, Leaves(r)  PROVE TwinInv'
  <2>1. joining'[r].pc = "idle" /\ \A q \in Requests \ {r} : joining'[q] = joining[q]
    BY <1>7, NewJoiningType DEF Leaves, JoinTypeOK
  <2>2. clients' = clients
    BY <1>7 DEF Leaves
  <2>. QED  BY <1>3, <1>5, <2>1, <2>2
<1>8. CASE UNCHANGED joinVars
  BY <1>3, <1>5, <1>8 DEF joinVars
<1>. QED  BY <1>4, <1>6, <1>7, <1>8, AccountsStep

\* Two accounts of one address, up to case, take two registrations that both
\* looked before either inserted, and even those never have one spelling.
THEOREM TwinsTakeOverlap == AccountsSpec => []TwinsOverlapped
<1>1. AccountsInit => TwinInv
  BY DEF AccountsInit, TwinInv, Registered, NotJoining
<1>2. AccountsInv /\ TwinInv /\ [AccountsNext]_allVars => TwinInv'
  BY TwinStep DEF AccountsInv
<1>3. TwinInv => TwinsOverlapped
  BY DEF TwinInv, KnownOther, TwinsOverlapped
<1>. QED  BY <1>1, <1>2, <1>3, AccountsInvInit, AccountsInvStep, PTL DEF AccountsSpec
=============================================================================
