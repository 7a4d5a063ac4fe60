----------------------- MODULE AccountSessionsProofs ------------------------
(***************************************************************************)
(* What holds of every run of AccountSessions: for any accounts, tokens,   *)
(* codes and number of overlapping requests.                               *)
(***************************************************************************)
EXTENDS AccountSessions, FiniteSetTheorems, TLAPS

TokenRow == [owner : Accounts, login : Nat, by : {"password", "other"}, code : Nat,
             late : BOOLEAN]
CodeRow  == [owner : Accounts, kind : {"mfa", "oauth"}]

-----------------------------------------------------------------------------
(***************************************************************************)
(* The steps, by what they touch.                                          *)
(***************************************************************************)
\* A sweep begins on an account fit for it.
SweepBegins ==
  \E s \in Slots, a \in Accounts, why \in Words("sweep") :
     /\ BeginSweep(s, a, why)
     /\ why = "reset" => Active(a)
     /\ why \in {"off", "deleted"} => (\E b \in Admins : b # a) /\ state[a] # "absent"

\* The sign-in of an active account begins: by the password alone when there
\* is no second factor, with a code nobody used before, or otherwise.
SignInBegins ==
  \E s \in Slots, a \in Accounts, row \in Nat, word \in Words("signin") :
     /\ Start(s, "signin", a, row, word)
     /\ Active(a) /\ word = "password" => a \notin mfa
     /\ row = 0 \/ row \in DOMAIN codes \ used
     /\ used' = IF row = 0 THEN used ELSE used \cup {row}
     /\ locked' \subseteq locked
     /\ Active(a)
     /\ UNCHANGED << users, access, tokens, live, codes, bootstrap >>

\* Only the failure counter or the codes.
Outside ==
  /\ locked' \subseteq Accounts
  /\ codes \in Seq(CodeRow) => codes' \in Seq(CodeRow) /\ DOMAIN codes \subseteq DOMAIN codes'
  /\ used' \subseteq used \cup DOMAIN codes /\ used \subseteq used'
  /\ UNCHANGED << users, access, tokens, live, requests, bootstrap >>

\* Only the requests for an account.
EarlyAccess ==
  \E e \in Emails : \/ SubmitEarlyAccess(e)
                   \/ \E approve \in BOOLEAN : ReviewEarlyAccess(e, approve)

Acting ==
  \/ Outside \/ EarlyAccess \/ SweepBegins \/ SignInBegins
  \/ \E s \in Slots : Proceed(s)
  \/ \E s \in Slots, a \in Accounts : BeginRegister(s, a) \/ AcceptInvite(s, a)
  \/ \E s \in Slots, actor, a \in Accounts, given \in {"admin", "editor"} :
        BeginSetRole(s, actor, a, given)
  \/ \E actor, a \in Accounts : Activate(actor, a)
  \/ \E a \in Accounts : InviteMember(a)
  \/ \E s \in Slots : \E t \in DOMAIN tokens : BeginRotate(s, t)
  \/ \E t \in DOMAIN tokens : RevokeOne(t)

LEMMA CodesGrow ==
  ASSUME codes \in Seq(CodeRow), NEW a \in Accounts, NEW kind \in {"mfa", "oauth"}, Mint(a, kind)
  PROVE  codes' \in Seq(CodeRow) /\ DOMAIN codes \subseteq DOMAIN codes'
<1>1. PICK c \in CodeRow : codes' = Append(codes, c)
  BY DEF Mint, CodeRow
<1> QED
  BY <1>1

LEMMA RowTyped ==
  ASSUME NEW S, NEW q \in Seq(S), NEW i \in DOMAIN q
  PROVE  q[i] \in S /\ i \in Nat /\ i # 0
<1>1. q \in [1..Len(q) -> S] /\ DOMAIN q = 1..Len(q) /\ Len(q) \in Nat
  OBVIOUS
<1> QED
  BY <1>1

LEMMA StepKinds == ASSUME AccountTypeOK, Next PROVE Acting
<1> USE DEF Words
<1>1. ASSUME NEW a \in Accounts, OfAccount(a) PROVE Acting
  <2>1. CASE InviteMember(a)
    BY <2>1 DEF Acting
  <2>2. CASE LockExpires(a) \/ LoginFails(a)
    <3>1. Outside
      BY <2>2 DEF LockExpires, LoginFails, RegisterFailure, Outside, AccountTypeOK, issued, CodeRow
    <3> QED
      BY <3>1 DEF Acting
  <2>3. CASE LoginChallenge(a) \/ OAuthCallback(a)
    <3>1. Mint(a, "mfa") \/ Mint(a, "oauth")
      BY <2>3 DEF LoginChallenge, OAuthCallback
    <3>2. codes \in Seq(CodeRow) => codes' \in Seq(CodeRow) /\ DOMAIN codes \subseteq DOMAIN codes'
      BY <3>1, CodesGrow
    <3>3. Outside
      BY <2>3, <3>2 DEF LoginChallenge, OAuthCallback, Outside, AccountTypeOK
    <3> QED
      BY <3>3 DEF Acting
  <2> QED
    BY <1>1, <2>1, <2>2, <2>3 DEF OfAccount
<1>2. ASSUME NEW s \in Slots, Proceed(s) PROVE Acting
  BY <1>2 DEF Acting
<1>3. ASSUME NEW s \in Slots, NEW a \in Accounts, Enter(s, a) PROVE Acting
  <2>1. CASE BeginRegister(s, a) \/ AcceptInvite(s, a)
    BY <2>1 DEF Acting
  <2>2. CASE Login(s, a)
    <3>1. SignInBegins
      BY <2>2 DEF Login, SignInBegins, CanLogin, issued, Words
    <3> QED
      BY <3>1 DEF Acting
  <2>3. CASE TotpConfirm(s, a) \/ TotpDisable(s, a) \/ ResetPassword(s, a)
    <3>1. SweepBegins
      BY <2>3 DEF TotpConfirm, TotpDisable, ResetPassword, CanEnroll, ResetLinkValid,
                  ResetLinkMailed, SignedIn, SweepBegins, Words
    <3> QED
      BY <3>1 DEF Acting
  <2> QED
    BY <1>3, <2>1, <2>2, <2>3 DEF Enter
<1>4. ASSUME NEW s \in Slots, NEW actor \in Accounts, NEW a \in Accounts, Manage(s, actor, a)
      PROVE  Acting
  <2>1. CASE \E given \in {"admin", "editor"} : BeginSetRole(s, actor, a, given)
    BY <2>1 DEF Acting
  <2>2. CASE Activate(actor, a)
    BY <2>2 DEF Acting
  <2>3. CASE Deactivate(s, actor, a) \/ DeleteUser(s, actor, a)
    <3>1. SweepBegins
      BY <2>3 DEF Deactivate, DeleteUser, Manages, ListUsers, SweepBegins, Words
    <3> QED
      BY <3>1 DEF Acting
  <2> QED
    BY <1>4, <2>1, <2>2, <2>3 DEF Manage
<1>5. ASSUME NEW s \in Slots, NEW t \in DOMAIN tokens, BeginRotate(s, t) \/ ReuseDetected(s, t)
      PROVE  Acting
  <2>1. CASE BeginRotate(s, t)
    BY <2>1 DEF Acting
  <2>2. CASE ReuseDetected(s, t)
    <3>1. tokens[t] \in TokenRow
      BY RowTyped DEF AccountTypeOK, TokenRow
    <3>2. SweepBegins
      BY <2>2, <3>1 DEF ReuseDetected, SweepBegins, Words, TokenRow
    <3> QED
      BY <3>2 DEF Acting
  <2> QED
    BY <1>5, <2>1, <2>2
<1>6. ASSUME NEW s \in Slots, NEW k \in DOMAIN codes, MfaVerify(s, k) \/ ExchangeCode(s, k)
      PROVE  Acting
  <2>1. codes[k].owner \in Accounts /\ k \in Nat /\ k # 0
    <3>1. codes[k] \in CodeRow /\ k \in Nat /\ k # 0
      BY RowTyped DEF AccountTypeOK, CodeRow
    <3> QED
      BY <3>1 DEF CodeRow
  <2>2. CASE MfaVerify(s, k)
    <3>1. SignInBegins
      BY <2>1, <2>2 DEF MfaVerify, FirstUse, CanLogin, SignInBegins, Words
    <3> QED
      BY <3>1 DEF Acting
  <2>3. CASE ExchangeCode(s, k) /\ Active(codes[k].owner)
    <3>1. SignInBegins
      BY <2>1, <2>3 DEF ExchangeCode, FirstUse, SignInBegins, Words
    <3> QED
      BY <3>1 DEF Acting
  <2>4. CASE ExchangeCode(s, k) /\ ~Active(codes[k].owner)
    <3>1. Outside
      BY <2>1, <2>4 DEF ExchangeCode, FirstUse, Outside, AccountTypeOK
    <3> QED
      BY <3>1 DEF Acting
  <2> QED
    BY <1>6, <2>2, <2>3, <2>4
<1>7. ASSUME NEW t \in DOMAIN tokens, RevokeOne(t) PROVE Acting
  BY <1>7 DEF Acting
<1>8. ASSUME NEW k \in DOMAIN codes, MfaFails(k) PROVE Acting
  <2>1. codes[k].owner \in Accounts
    <3>1. codes[k] \in CodeRow /\ k \in Nat /\ k # 0
      BY RowTyped DEF AccountTypeOK, CodeRow
    <3> QED
      BY <3>1 DEF CodeRow
  <2>2. Outside
    BY <1>8, <2>1 DEF MfaFails, RegisterFailure, Outside, AccountTypeOK, issued, CodeRow
  <2> QED
    BY <2>2 DEF Acting
<1>9. ASSUME NEW e \in Emails,
             SubmitEarlyAccess(e) \/ \E approve \in BOOLEAN : ReviewEarlyAccess(e, approve)
      PROVE  Acting
  BY <1>9 DEF Acting, EarlyAccess
<1> QED
  BY <1>1, <1>2, <1>3, <1>4, <1>5, <1>6, <1>7, <1>8, <1>9 DEF Next

-----------------------------------------------------------------------------
(***************************************************************************)
(* Types.                                                                  *)
(***************************************************************************)
UsersTyped ==
  /\ state \in [Accounts -> {"absent", "off", "active", "deleted"}]
  /\ role \in [Accounts -> {"admin", "editor"}]
  /\ password \subseteq Accounts /\ mfa \subseteq Accounts /\ invited \subseteq Accounts
  /\ locked \subseteq Accounts
  /\ access \in [Emails -> {"none", "pending", "approved", "consumed"}]
  /\ bootstrap \subseteq Accounts

TokensTyped ==
  /\ tokens \in Seq(TokenRow)
  /\ live \subseteq DOMAIN tokens

CodesTyped ==
  /\ codes \in Seq(CodeRow)
  /\ used \subseteq DOMAIN codes

SlotsTyped == slot \in [Slots -> {Free} \cup Requests]

HistoryTyped == overtaken \subseteq Slots /\ crossed \in BOOLEAN

LEMMA TypeParts ==
  AccountTypeOK <=> UsersTyped /\ TokensTyped /\ CodesTyped /\ SlotsTyped /\ HistoryTyped
  BY DEF AccountTypeOK, UsersTyped, TokensTyped, CodesTyped, SlotsTyped, HistoryTyped, TokenRow, CodeRow

\* What a running request carries.
LEMMA RequestTyped ==
  ASSUME SlotsTyped, NEW s \in Slots, NEW op \in Ops, Running(s, op)
  PROVE  /\ slot[s].who \in Accounts /\ slot[s].row \in Nat
         /\ slot[s].word \in Words(op) /\ slot[s].seen \subseteq Nat
<1>1. slot[s] # Free
  <2>1. Free.op = "free"
    BY DEF Free, Request
  <2>2. slot[s].op # "free"
    BY DEF Running, Ops
  <2> QED
    BY <2>1, <2>2
<1>2. PICK o \in Ops : slot[s] \in [op : {o}, who : Accounts, row : Nat, word : Words(o), seen : SUBSET Nat]
  BY <1>1 DEF SlotsTyped, Requests
<1>3. slot[s].op = o
  BY <1>2
<1>4. o = op
  BY <1>3 DEF Running
<1> QED
  BY <1>2, <1>4

LEMMA RequestMade ==
  ASSUME NEW op \in Ops, NEW a \in Accounts, NEW row \in Nat, NEW word \in Words(op),
         NEW seen \in SUBSET Nat
  PROVE  Request(op, a, row, word, seen) \in Requests
  BY DEF Request, Requests

\* A request that starts fills its slot.
LEMMA StartFills ==
  ASSUME NEW s \in Slots, NEW op, NEW a, NEW row, NEW word, Start(s, op, a, row, word)
  PROVE  \E r : /\ r.op = op /\ r.who = a /\ r.row = row /\ r.word = word
               /\ slot' = [slot EXCEPT ![s] = r] /\ Admit(s, r)
  BY DEF Start, Admit, Request

\* A step gives at most one slot a new request, or none.
SlotMoves == \/ UNCHANGED slot
             \/ \E s \in Slots, r \in {Free} \cup Requests : slot' = [slot EXCEPT ![s] = r]

LEMMA SlotMoved == ASSUME AccountTypeOK, Acting PROVE SlotMoves
<1> USE DEF Ops, Words
<1>0. SlotsTyped /\ TokensTyped /\ CodesTyped
  BY TypeParts
<1>1. CASE Outside \/ EarlyAccess
  BY <1>1 DEF Outside, requests, EarlyAccess, SubmitEarlyAccess, ReviewEarlyAccess, SlotMoves
<1>2. CASE SweepBegins
  <2>1. PICK s \in Slots, a \in Accounts, why \in Words("sweep") : BeginSweep(s, a, why)
    BY <1>2 DEF SweepBegins
  <2>2. Swept(a) \in SUBSET Nat
    BY <1>0, RowTyped DEF Swept, LiveTokens, TokensTyped
  <2>3. Request("sweep", a, 0, why, Swept(a)) \in Requests
    BY <2>2, RequestMade
  <2> QED
    BY <2>1, <2>3 DEF BeginSweep, Admit, SlotMoves
<1>3. CASE SignInBegins
  <2>1. PICK s \in Slots, a \in Accounts, row \in Nat, word \in Words("signin") :
          Start(s, "signin", a, row, word)
    BY <1>3 DEF SignInBegins
  <2>2. Request("signin", a, row, word, {}) \in Requests
    BY RequestMade
  <2> QED
    BY <2>1, <2>2 DEF Start, Admit, SlotMoves
<1>4. ASSUME NEW s \in Slots, Proceed(s) PROVE SlotMoves
  <2>1. CASE Finish(s)
    BY <2>1 DEF Finish, SlotMoves
  <2>2. CASE SignInNext(s) /\ (Running(s, "register") \/ Running(s, "sweep"))
    <3>1. slot[s].who \in Accounts
      BY <1>0, <2>2, RequestTyped
    <3>2. Request("signin", slot[s].who, 0, "other", {}) \in Requests
      BY <3>1, RequestMade
    <3> QED
      BY <2>2, <3>2 DEF SignInNext, SlotMoves
  <2> QED
    BY <1>4, <2>1, <2>2 DEF Proceed, CommitRegister, RegisterConflict, CreateTokenPair,
       CommitRotate, CommitSweep, CommitSetRole
<1>5. ASSUME NEW s \in Slots, NEW a \in Accounts, BeginRegister(s, a) PROVE SlotMoves
  <2>1. SafeRole \in {"admin", "editor"}
    BY DEF SafeRole
  <2>2. Request("register", a, 0, SafeRole, {}) \in Requests
    BY <2>1, RequestMade
  <2> QED
    BY <1>5, <2>2 DEF BeginRegister, Start, Admit, SlotMoves
<1>6. ASSUME NEW s \in Slots, NEW a \in Accounts, AcceptInvite(s, a) PROVE SlotMoves
  <2>1. Request("signin", a, 0, "other", {}) \in Requests
    BY RequestMade
  <2> QED
    BY <1>6, <2>1 DEF AcceptInvite, Start, Admit, SlotMoves
<1>7. ASSUME NEW s \in Slots, NEW actor \in Accounts, NEW a \in Accounts,
             NEW given \in {"admin", "editor"}, BeginSetRole(s, actor, a, given)
      PROVE  SlotMoves
  <2>1. Request("role", a, 0, given, {}) \in Requests
    BY RequestMade
  <2> QED
    BY <1>7, <2>1 DEF BeginSetRole, Start, Admit, SlotMoves
<1>8. ASSUME NEW s \in Slots, NEW t \in DOMAIN tokens, BeginRotate(s, t) PROVE SlotMoves
  <2>1. t \in Nat /\ tokens[t].owner \in Accounts
    <3>1. tokens[t] \in TokenRow /\ t \in Nat
      BY <1>0, RowTyped DEF TokensTyped
    <3> QED
      BY <3>1 DEF TokenRow
  <2>2. Request("rotate", tokens[t].owner, t, "", {}) \in Requests
    BY <2>1, RequestMade
  <2> QED
    BY <1>8, <2>2 DEF BeginRotate, Start, Admit, SlotMoves
<1>9. CASE \/ \E actor, a \in Accounts : Activate(actor, a)
           \/ \E a \in Accounts : InviteMember(a)
           \/ \E t \in DOMAIN tokens : RevokeOne(t)
  BY <1>9 DEF Activate, requests, InviteMember, RevokeOne, SlotMoves
<1> QED
  BY <1>1, <1>2, <1>3, <1>4, <1>5, <1>6, <1>7, <1>8, <1>9 DEF Acting

LEMMA SlotsKept == ASSUME AccountTypeOK, Acting PROVE SlotsTyped'
  BY SlotMoved, TypeParts DEF SlotMoves, SlotsTyped

LEMMA HistoryKept == ASSUME AccountTypeOK, Acting PROVE HistoryTyped'
<1>0. HistoryTyped
  BY TypeParts
<1>1. ASSUME NEW s \in Slots, NEW req, Admit(s, req) PROVE HistoryTyped'
  BY <1>0, <1>1 DEF Admit, HistoryTyped
<1>2. ASSUME NEW s \in Slots, SignInNext(s) \/ Finish(s) PROVE HistoryTyped'
  BY <1>0, <1>2 DEF SignInNext, Finish, HistoryTyped
<1>3. ASSUME UNCHANGED requests PROVE HistoryTyped'
  BY <1>0, <1>3 DEF requests, HistoryTyped
<1>4. CASE \E s \in Slots : \E req : Admit(s, req)
  BY <1>1, <1>4
<1>5. CASE SweepBegins \/ SignInBegins
  BY <1>1, <1>5 DEF SweepBegins, BeginSweep, SignInBegins, Start
<1>6. CASE \E s \in Slots : Proceed(s)
  BY <1>2, <1>6 DEF Proceed, CommitRegister, RegisterConflict, CreateTokenPair, CommitRotate,
     CommitSweep, CommitSetRole
<1>7. CASE \/ \E s \in Slots, a \in Accounts : BeginRegister(s, a) \/ AcceptInvite(s, a)
           \/ \E s \in Slots, actor, a \in Accounts, given \in {"admin", "editor"} :
                 BeginSetRole(s, actor, a, given)
           \/ \E s \in Slots : \E t \in DOMAIN tokens : BeginRotate(s, t)
  BY <1>4, <1>7 DEF BeginRegister, AcceptInvite, BeginSetRole, BeginRotate, Start
<1>8. CASE \/ Outside \/ EarlyAccess
           \/ \E actor, a \in Accounts : Activate(actor, a)
           \/ \E a \in Accounts : InviteMember(a)
           \/ \E t \in DOMAIN tokens : RevokeOne(t)
  BY <1>3, <1>8 DEF Outside, EarlyAccess, SubmitEarlyAccess, ReviewEarlyAccess, Activate,
     InviteMember, RevokeOne
<1> QED
  BY <1>5, <1>6, <1>7, <1>8 DEF Acting

\* The tokens grow by one, and of those alive some may go.
TokensMove ==
  \/ tokens' = tokens /\ live' \subseteq live
  \/ \E r \in TokenRow : /\ tokens' = Append(tokens, r)
                         /\ live' \subseteq live \cup {Len(tokens) + 1}

\* Every rotation holds a live token, and no other holds it too.
Rotating ==
  /\ \A s \in Slots : Running(s, "rotate") =>
        slot[s].row \in live /\ tokens[slot[s].row].owner = slot[s].who
  /\ \A s, r \in Slots :
        Running(s, "rotate") /\ Running(r, "rotate") /\ slot[s].row = slot[r].row => s = r

LEMMA TokensMoved == ASSUME AccountTypeOK, Rotating, Acting PROVE TokensMove
<1>0. SlotsTyped /\ TokensTyped
  BY TypeParts
<1>1. CASE Outside \/ EarlyAccess \/ SweepBegins \/ SignInBegins
  BY <1>1 DEF Outside, EarlyAccess, SweepBegins, SignInBegins, SubmitEarlyAccess,
              ReviewEarlyAccess, BeginSweep, issued, TokensMove
<1>2. ASSUME NEW s \in Slots, CreateTokenPair(s) PROVE TokensMove
  <2>1. slot[s].who \in Accounts /\ slot[s].word \in {"password", "other"} /\ slot[s].row \in Nat
    BY <1>0, <1>2, RequestTyped DEF CreateTokenPair, Ops, Words
  <2>2. Len(tokens) + 1 \in Nat
    BY <1>0 DEF TokensTyped
  <2>3. PICK late \in BOOLEAN : late = (s \in overtaken)
    <3>1. CASE s \in overtaken
      <4>1. TRUE = (s \in overtaken)
        BY <3>1
      <4> QED
        BY <4>1
    <3>2. CASE s \notin overtaken
      <4>1. FALSE = (s \in overtaken)
        BY <3>2
      <4> QED
        BY <4>1
    <3> QED
      BY <3>1, <3>2
  <2>4. [owner |-> slot[s].who, login |-> Len(tokens) + 1, by |-> slot[s].word,
         code |-> slot[s].row, late |-> late] \in TokenRow
    BY <2>1, <2>2 DEF TokenRow
  <2> QED
    BY <1>2, <2>3, <2>4 DEF CreateTokenPair, NewToken, TokensMove
<1>3. ASSUME NEW s \in Slots, CommitRotate(s) PROVE TokensMove
  <2>1. slot[s].row \in live
    BY <1>3 DEF CommitRotate, Rotating
  <2>2. PICK old \in TokenRow : old = tokens[slot[s].row]
    BY <1>0, <2>1, RowTyped DEF TokensTyped
  <2>3. PICK late \in BOOLEAN : late = (s \in overtaken \/ old.late)
    OBVIOUS
  <2>4. tokens' = Append(tokens, [owner |-> old.owner, login |-> old.login, by |-> old.by, code |-> 0,
                                 late |-> late])
    BY <1>3, <2>2, <2>3 DEF CommitRotate, NewToken
  <2>6. [owner |-> old.owner, login |-> old.login, by |-> old.by, code |-> 0, late |-> late] \in TokenRow
    BY DEF TokenRow
  <2>5. live' \subseteq live \cup {Len(tokens) + 1}
    BY <1>3 DEF CommitRotate
  <2> QED
    BY <2>4, <2>5, <2>6 DEF TokensMove
<1>4. ASSUME NEW s \in Slots, \/ CommitRegister(s) \/ RegisterConflict(s)
                              \/ CommitSweep(s) \/ CommitSetRole(s)
      PROVE  TokensMove
  BY <1>4 DEF CommitRegister, RegisterConflict, CommitSweep, CommitSetRole, issued, TokensMove
<1>5. CASE \/ \E s \in Slots, a \in Accounts : BeginRegister(s, a) \/ AcceptInvite(s, a)
           \/ \E s \in Slots, actor, a \in Accounts, given \in {"admin", "editor"} :
                 BeginSetRole(s, actor, a, given)
           \/ \E actor, a \in Accounts : Activate(actor, a)
           \/ \E a \in Accounts : InviteMember(a)
           \/ \E s \in Slots : \E t \in DOMAIN tokens : BeginRotate(s, t)
           \/ \E t \in DOMAIN tokens : RevokeOne(t)
  BY <1>5 DEF BeginRegister, AcceptInvite, BeginSetRole, Activate, InviteMember, BeginRotate,
              RevokeOne, issued, TokensMove
<1> QED
  BY <1>1, <1>2, <1>3, <1>4, <1>5 DEF Acting, Proceed

\* What the tokens are after a step, row by row.
LEMMA TokensKept ==
  ASSUME TokensTyped, TokensMove
  PROVE  /\ TokensTyped' /\ DOMAIN tokens \subseteq DOMAIN tokens'
         /\ \A t \in DOMAIN tokens : tokens'[t] = tokens[t]
         /\ \A t \in DOMAIN tokens : t <= Len(tokens) /\ t \in Nat
         /\ \A t \in DOMAIN tokens' \ DOMAIN tokens : t = Len(tokens) + 1
         /\ Len(tokens) \in Nat /\ Len(tokens) <= Len(tokens')
<1>0. Len(tokens) \in Nat /\ DOMAIN tokens = 1..Len(tokens)
  BY DEF TokensTyped
<1>1. CASE tokens' = tokens /\ live' \subseteq live
  BY <1>0, <1>1 DEF TokensTyped
<1>2. CASE \E r \in TokenRow : /\ tokens' = Append(tokens, r)
                               /\ live' \subseteq live \cup {Len(tokens) + 1}
  <2>1. PICK r \in TokenRow : /\ tokens' = Append(tokens, r)
                              /\ live' \subseteq live \cup {Len(tokens) + 1}
    BY <1>2
  <2>2. /\ tokens' \in Seq(TokenRow) /\ Len(tokens') = Len(tokens) + 1
        /\ DOMAIN tokens' = 1..(Len(tokens) + 1)
        /\ \A t \in 1..Len(tokens) : tokens'[t] = tokens[t]
    BY <2>1 DEF TokensTyped
  <2> QED
    BY <1>0, <2>1, <2>2 DEF TokensTyped
<1> QED
  BY <1>1, <1>2 DEF TokensMove

LEMMA CodesKept == ASSUME AccountTypeOK, Acting PROVE CodesTyped' /\ used \subseteq used'
<1>0. CodesTyped
  BY TypeParts
<1>1. CASE Outside
  BY <1>0, <1>1 DEF Outside, CodesTyped
<1>2. CASE SignInBegins
  BY <1>0, <1>2 DEF SignInBegins, CodesTyped
<1>3. CASE EarlyAccess \/ SweepBegins
  BY <1>0, <1>3 DEF EarlyAccess, SweepBegins, SubmitEarlyAccess, ReviewEarlyAccess, BeginSweep,
                    issued, CodesTyped
<1>4. CASE \E s \in Slots : Proceed(s)
  BY <1>0, <1>4 DEF Proceed, CommitRegister, RegisterConflict, CreateTokenPair, CommitRotate,
                    CommitSweep, CommitSetRole, issued, CodesTyped
<1>5. CASE \/ \E s \in Slots, a \in Accounts : BeginRegister(s, a) \/ AcceptInvite(s, a)
           \/ \E s \in Slots, actor, a \in Accounts, given \in {"admin", "editor"} :
                 BeginSetRole(s, actor, a, given)
           \/ \E actor, a \in Accounts : Activate(actor, a)
           \/ \E a \in Accounts : InviteMember(a)
           \/ \E s \in Slots : \E t \in DOMAIN tokens : BeginRotate(s, t)
           \/ \E t \in DOMAIN tokens : RevokeOne(t)
  BY <1>0, <1>5 DEF BeginRegister, AcceptInvite, BeginSetRole, Activate, InviteMember,
              BeginRotate, RevokeOne, issued, CodesTyped
<1> QED
  BY <1>1, <1>2, <1>3, <1>4, <1>5 DEF Acting

LEMMA UsersKept == ASSUME AccountTypeOK, Acting PROVE UsersTyped'
<1>0. UsersTyped /\ SlotsTyped
  BY TypeParts
<1> USE DEF UsersTyped
<1>1. CASE Outside
  BY <1>0, <1>1 DEF Outside, users
<1>2. CASE EarlyAccess
  BY <1>0, <1>2 DEF EarlyAccess, SubmitEarlyAccess, ReviewEarlyAccess, users
<1>3. CASE SweepBegins
  BY <1>0, <1>3 DEF SweepBegins, BeginSweep, users
<1>4. CASE SignInBegins
  BY <1>0, <1>4 DEF SignInBegins, users
<1>5. ASSUME NEW s \in Slots, CommitRegister(s) PROVE UsersTyped'
  <2>1. slot[s].who \in Accounts /\ slot[s].word \in {"admin", "editor"}
    BY <1>0, <1>5, RequestTyped DEF CommitRegister, Ops, Words
  <2> QED
    BY <1>0, <1>5, <2>1 DEF CommitRegister
<1>6. ASSUME NEW s \in Slots, CommitSweep(s) PROVE UsersTyped'
  <2>1. slot[s].who \in Accounts
    BY <1>0, <1>6, RequestTyped DEF CommitSweep, Ops
  <2> QED
    BY <1>0, <1>6, <2>1 DEF CommitSweep, AfterSweep
<1>7. ASSUME NEW s \in Slots, CommitSetRole(s) PROVE UsersTyped'
  <2>1. slot[s].who \in Accounts /\ slot[s].word \in {"admin", "editor"}
    BY <1>0, <1>7, RequestTyped DEF CommitSetRole, Ops, Words
  <2> QED
    BY <1>0, <1>7, <2>1 DEF CommitSetRole
<1>8. ASSUME NEW s \in Slots, RegisterConflict(s) \/ CreateTokenPair(s) \/ CommitRotate(s)
      PROVE  UsersTyped'
  BY <1>0, <1>8 DEF RegisterConflict, CreateTokenPair, CommitRotate, users
<1>9. ASSUME NEW a \in Accounts, InviteMember(a) \/ \E actor \in Accounts : Activate(actor, a)
      PROVE  UsersTyped'
  BY <1>0, <1>9 DEF InviteMember, Activate, Manages, ListUsers
<1>10. ASSUME NEW s \in Slots, NEW a \in Accounts, BeginRegister(s, a) \/ AcceptInvite(s, a)
       PROVE  UsersTyped'
  BY <1>0, <1>10 DEF BeginRegister, AcceptInvite, InviteOpen, users
<1>11. CASE \/ \E s \in Slots, actor, a \in Accounts, given \in {"admin", "editor"} :
                  BeginSetRole(s, actor, a, given)
            \/ \E s \in Slots : \E t \in DOMAIN tokens : BeginRotate(s, t)
            \/ \E t \in DOMAIN tokens : RevokeOne(t)
  BY <1>0, <1>11 DEF BeginSetRole, BeginRotate, RevokeOne, users
<1> QED
  BY <1>1, <1>2, <1>3, <1>4, <1>5, <1>6, <1>7, <1>8, <1>9, <1>10, <1>11 DEF Acting, Proceed

-----------------------------------------------------------------------------
(***************************************************************************)
(* Rotations and the chains of tokens they make.                           *)
(***************************************************************************)
SessionInv ==
  /\ AccountTypeOK /\ Rotating /\ OneLivePerLogin
  /\ \A t \in DOMAIN tokens : tokens[t].login <= Len(tokens)

LEMMA SessionInitially == Init => SessionInv
<1> SUFFICES ASSUME Init PROVE SessionInv
  OBVIOUS
<1>1. UsersTyped
  BY DEF Init, UsersTyped
<1>2. tokens = << >> /\ TokensTyped /\ CodesTyped
  BY DEF Init, TokensTyped, CodesTyped
<1>3. SlotsTyped /\ \A s \in Slots : ~Running(s, "rotate")
  BY DEF Init, SlotsTyped, Running, Free, Request
<1>4. AccountTypeOK
  <2>1. HistoryTyped
    BY DEF Init, HistoryTyped
  <2> QED
    BY <1>1, <1>2, <1>3, <2>1, TypeParts
<1> QED
  BY <1>2, <1>3, <1>4 DEF Init, SessionInv, Rotating, OneLivePerLogin

\* The requests that do not rotate leave the tokens of those that do.
LEMMA RotationsKept ==
  ASSUME SessionInv, Acting PROVE Rotating'
<1>0. /\ Rotating /\ SlotsTyped /\ TokensTyped /\ TokensMove /\ live \subseteq DOMAIN tokens
      /\ \A t \in DOMAIN tokens : tokens'[t] = tokens[t]
  BY TypeParts, TokensMoved, TokensKept DEF SessionInv, TokensTyped
<1>1. ASSUME NEW s \in Slots, NEW r, r.op # "rotate", slot' = [slot EXCEPT ![s] = r],
             \A q \in Slots \ {s} : Running(q, "rotate") => slot[q].row \in live'
      PROVE  Rotating'
  <2>1. \A q \in Slots : Running(q, "rotate")' => q # s /\ Running(q, "rotate") /\ slot'[q] = slot[q]
    BY <1>0, <1>1 DEF SlotsTyped, Running
  <2> QED
    BY <1>0, <1>1, <2>1 DEF Rotating
<1>2. ASSUME UNCHANGED slot, \A q \in Slots : Running(q, "rotate") => slot[q].row \in live'
      PROVE  Rotating'
  BY <1>0, <1>2 DEF Rotating, Running
<1>3. CASE Outside \/ EarlyAccess
  BY <1>0, <1>2, <1>3 DEF Outside, requests, EarlyAccess, SubmitEarlyAccess, ReviewEarlyAccess, issued, Rotating
<1>4. CASE SweepBegins
  BY <1>0, <1>1, <1>4 DEF SweepBegins, BeginSweep, Admit, Request, issued, Rotating
<1>5. CASE SignInBegins
  <2>1. PICK s \in Slots : \E r : r.op = "signin" /\ slot' = [slot EXCEPT ![s] = r]
    BY <1>5, StartFills DEF SignInBegins
  <2>2. UNCHANGED live
    BY <1>5 DEF SignInBegins
  <2> QED
    BY <1>0, <1>1, <2>1, <2>2 DEF Rotating
<1>6. ASSUME NEW s \in Slots, CommitRegister(s) \/ RegisterConflict(s) \/ CreateTokenPair(s)
                              \/ CommitSetRole(s)
      PROVE  Rotating'
  <2>1. live \subseteq live'
    BY <1>6 DEF CommitRegister, RegisterConflict, CreateTokenPair, CommitSetRole, issued
  <2>2. SignInNext(s) \/ Finish(s)
    BY <1>6 DEF CommitRegister, RegisterConflict, CreateTokenPair, CommitSetRole
  <2> QED
    BY <1>0, <1>1, <2>1, <2>2 DEF SignInNext, Finish, Free, Request, Rotating
<1>7. ASSUME NEW s \in Slots, CommitRotate(s) PROVE Rotating'
  <2>1. \A q \in Slots \ {s} : Running(q, "rotate") => slot[q].row \in live'
    BY <1>0, <1>7 DEF CommitRotate, Rotating
  <2> QED
    BY <1>1, <1>7, <2>1 DEF CommitRotate, Finish, Free, Request
<1>8. ASSUME NEW s \in Slots, CommitSweep(s) PROVE Rotating'
  <2>1. \A q \in Slots \ {s} : Running(q, "rotate") => slot[q].row \in live'
    BY <1>0, <1>8 DEF CommitSweep, Locked, Running, Rotating
  <2> QED
    BY <1>1, <1>8, <2>1 DEF CommitSweep, SignInNext, Finish, Free, Request
<1>9. ASSUME NEW s \in Slots, NEW a \in Accounts, BeginRegister(s, a) \/ AcceptInvite(s, a)
      PROVE  Rotating'
  BY <1>0, <1>1, <1>9 DEF BeginRegister, AcceptInvite, Start, Admit, Request, issued, Rotating
<1>10. ASSUME NEW s \in Slots, NEW actor \in Accounts, NEW a \in Accounts,
              NEW given \in {"admin", "editor"}, BeginSetRole(s, actor, a, given)
       PROVE  Rotating'
  BY <1>0, <1>1, <1>10 DEF BeginSetRole, Start, Admit, Request, issued, Rotating
<1>11. ASSUME NEW a \in Accounts, InviteMember(a) \/ \E actor \in Accounts : Activate(actor, a)
       PROVE  Rotating'
  BY <1>0, <1>2, <1>11 DEF InviteMember, requests, Activate, issued, Rotating
<1>12. ASSUME NEW s \in Slots, NEW t \in DOMAIN tokens, BeginRotate(s, t) PROVE Rotating'
  <2>1. PICK r : r.op = "rotate" /\ r.row = t /\ r.who = tokens[t].owner /\ slot' = [slot EXCEPT ![s] = r]
    BY <1>12 DEF BeginRotate, Start, Admit, Request
  <2>2. UNCHANGED << tokens, live >> /\ t \in live /\ t \notin Locked(s)
    BY <1>12 DEF BeginRotate, LockToken, issued
  <2>3. \A q \in Slots : q # s => slot'[q] = slot[q]
    BY <2>1
  <2>4. slot'[s] = r
    BY <1>0, <2>1 DEF SlotsTyped
  <2>5. \A q \in Slots \ {s} : Running(q, "rotate") => slot[q].row # t
    BY <2>2 DEF Locked, Running
  <2> QED
    BY <1>0, <2>1, <2>2, <2>3, <2>4, <2>5 DEF Running, Rotating
<1>13. ASSUME NEW t \in DOMAIN tokens, RevokeOne(t) PROVE Rotating'
  <2>1. \A q \in Slots : Running(q, "rotate") => slot[q].row \in live'
    BY <1>0, <1>13 DEF RevokeOne, requests, Rotating
  <2> QED
    BY <1>2, <1>13, <2>1 DEF RevokeOne, requests
<1>14. ASSUME NEW s \in Slots, Proceed(s) PROVE Rotating'
  BY <1>6, <1>7, <1>8, <1>14 DEF Proceed
<1> QED
  BY <1>3, <1>4, <1>5, <1>9, <1>10, <1>11, <1>12, <1>13, <1>14 DEF Acting

\* A token that appears starts a chain of its own or takes the place of its
\* predecessor.
LEMMA ChainsKept ==
  ASSUME SessionInv, Acting
  PROVE  OneLivePerLogin' /\ \A t \in DOMAIN tokens' : tokens'[t].login <= Len(tokens')
<1>0. /\ Rotating /\ SlotsTyped /\ TokensTyped /\ TokensMove /\ live \subseteq DOMAIN tokens
      /\ TokensTyped' /\ DOMAIN tokens \subseteq DOMAIN tokens'
      /\ \A t \in DOMAIN tokens : tokens'[t] = tokens[t]
      /\ \A t \in DOMAIN tokens' \ DOMAIN tokens : t = Len(tokens) + 1
      /\ Len(tokens) \in Nat /\ Len(tokens) <= Len(tokens')
      /\ \A t \in DOMAIN tokens : t <= Len(tokens) /\ t \in Nat
  BY TypeParts, TokensMoved, TokensKept DEF SessionInv, TokensTyped
<1>1. ASSUME UNCHANGED tokens, live' \subseteq live
      PROVE  OneLivePerLogin' /\ \A t \in DOMAIN tokens' : tokens'[t].login <= Len(tokens')
  BY <1>1 DEF SessionInv, OneLivePerLogin
<1>2. ASSUME NEW r, NEW old \in SUBSET live, tokens' = Append(tokens, r),
             live' = old \cup {Len(tokens) + 1}, r.login \in Nat, r.login <= Len(tokens) + 1,
             \A t \in old : tokens[t].login # r.login
      PROVE  OneLivePerLogin' /\ \A t \in DOMAIN tokens' : tokens'[t].login <= Len(tokens')
  <2>1. PICK n \in Nat : n = Len(tokens)
    BY <1>0
  <2>2. Len(tokens') = n + 1 /\ tokens'[n + 1] = r
    BY <1>0, <1>2, <2>1 DEF TokensTyped
  <2>3. \A t \in old : t \in live /\ tokens'[t] = tokens[t]
    BY <1>0, <1>2
  <2>4. OneLivePerLogin'
    <3>1. ASSUME NEW t \in live', NEW u \in live', tokens'[t].login = tokens'[u].login
          PROVE  t = u
      <4>1. CASE t \in old /\ u \in old
        BY <2>3, <3>1, <4>1 DEF SessionInv, OneLivePerLogin
      <4>2. CASE t = n + 1 /\ u \in old
        BY <1>2, <2>2, <2>3, <3>1, <4>2
      <4>3. CASE t \in old /\ u = n + 1
        BY <1>2, <2>2, <2>3, <3>1, <4>3
      <4> QED
        BY <1>2, <2>1, <4>1, <4>2, <4>3
    <3> QED
      BY <3>1 DEF OneLivePerLogin
  <2>5. ASSUME NEW t \in DOMAIN tokens' PROVE tokens'[t].login <= Len(tokens')
    <3>1. CASE t \in DOMAIN tokens
      <4>1. tokens[t] \in TokenRow /\ tokens'[t] = tokens[t] /\ tokens[t].login <= n
        BY <1>0, <2>1, <3>1, RowTyped DEF SessionInv, TokensTyped
      <4>2. tokens[t].login \in Nat
        BY <4>1 DEF TokenRow
      <4> QED
        BY <2>1, <2>2, <4>1, <4>2
    <3>2. CASE t = n + 1
      BY <1>2, <2>1, <2>2, <3>2
    <3> QED
      BY <1>0, <2>1, <3>1, <3>2
  <2> QED
    BY <2>4, <2>5
<1>3. ASSUME NEW s \in Slots, CreateTokenPair(s)
      PROVE  OneLivePerLogin' /\ \A t \in DOMAIN tokens' : tokens'[t].login <= Len(tokens')
  <2>1. PICK r : tokens' = Append(tokens, r) /\ r.login = Len(tokens) + 1
    BY <1>3 DEF CreateTokenPair, NewToken
  <2>2. \A t \in live : tokens[t].login <= Len(tokens) /\ tokens[t].login \in Nat
    <3>1. ASSUME NEW t \in live PROVE tokens[t].login <= Len(tokens) /\ tokens[t] \in TokenRow
      BY <1>0, RowTyped DEF SessionInv, TokensTyped
    <3> QED
      BY <3>1 DEF TokenRow
  <2>3. live' = live \cup {Len(tokens) + 1}
    BY <1>3 DEF CreateTokenPair
  <2>4. /\ r.login \in Nat /\ r.login <= Len(tokens) + 1
        /\ \A t \in live : tokens[t].login # r.login
    BY <1>0, <2>1, <2>2
  <2> QED
    BY <1>2, <2>1, <2>3, <2>4
<1>4. ASSUME NEW s \in Slots, CommitRotate(s)
      PROVE  OneLivePerLogin' /\ \A t \in DOMAIN tokens' : tokens'[t].login <= Len(tokens')
  <2>1. PICK t : t = slot[s].row
    OBVIOUS
  <2>2. t \in live /\ tokens[t] \in TokenRow /\ tokens[t].login <= Len(tokens)
    BY <1>0, <1>4, <2>1, RowTyped DEF CommitRotate, Rotating, SessionInv, TokensTyped
  <2>3. PICK r : tokens' = Append(tokens, r) /\ r.login = tokens[t].login
    BY <1>4, <2>1 DEF CommitRotate, NewToken
  <2>4. live' = (live \ {t}) \cup {Len(tokens) + 1}
    BY <1>4, <2>1 DEF CommitRotate
  <2>5. \A u \in live \ {t} : tokens[u].login # r.login
    BY <2>2, <2>3 DEF SessionInv, OneLivePerLogin
  <2>6. r.login \in Nat /\ r.login <= Len(tokens) + 1
    BY <1>0, <2>2, <2>3 DEF TokenRow
  <2> QED
    BY <1>2, <2>3, <2>4, <2>5, <2>6
<1>5. ASSUME ~(\E s \in Slots : CreateTokenPair(s) \/ CommitRotate(s))
      PROVE  UNCHANGED tokens /\ live' \subseteq live
  BY <1>5 DEF Acting, Proceed, Outside, EarlyAccess, SweepBegins, SignInBegins, SubmitEarlyAccess,
     ReviewEarlyAccess, BeginSweep, CommitRegister, RegisterConflict, CommitSweep, CommitSetRole,
     BeginRegister, AcceptInvite, BeginSetRole, Activate, InviteMember, BeginRotate, RevokeOne,
     issued
<1> QED
  BY <1>1, <1>3, <1>4, <1>5

LEMMA SessionKept == ASSUME SessionInv, [Next]_vars PROVE SessionInv'
<1>1. CASE Next
  <2>1. Acting
    BY <1>1, StepKinds DEF SessionInv
  <2>2. AccountTypeOK'
    <3>1. TokensTyped'
      BY <2>1, TokensMoved, TokensKept, TypeParts DEF SessionInv
    <3>2. UsersTyped' /\ CodesTyped' /\ SlotsTyped' /\ HistoryTyped'
      BY <2>1, UsersKept, CodesKept, SlotsKept, HistoryKept DEF SessionInv
    <3> QED
      BY <3>1, <3>2 DEF AccountTypeOK, UsersTyped, TokensTyped, CodesTyped, SlotsTyped, HistoryTyped,
         TokenRow, CodeRow
  <2> QED
    BY <2>1, <2>2, RotationsKept, ChainsKept DEF SessionInv
<1>2. CASE UNCHANGED vars
  BY <1>2 DEF vars, requests, users, issued, SessionInv, AccountTypeOK, Rotating, Running, OneLivePerLogin
<1> QED
  BY <1>1, <1>2

\* The inductive invariant of tokens, rotations and codes holds in every
\* reachable state.
THEOREM SessionInvariance == Spec => []SessionInv
  BY SessionInitially, SessionKept, PTL DEF Spec

\* Types hold throughout, among them that only issued tokens and codes are
\* alive or burnt.
THEOREM AccountTypesCorrect == Spec => []AccountTypeOK
<1>1. SessionInv => AccountTypeOK
  BY DEF SessionInv
<1> QED
  BY <1>1, SessionInvariance, PTL

\* Refreshes of one token, however many overlap, leave one live token of those
\* that descend from a sign-in.
THEOREM RotationLeavesOne == Spec => []OneLivePerLogin
<1>1. SessionInv => OneLivePerLogin
  BY DEF SessionInv
<1> QED
  BY <1>1, SessionInvariance, PTL

-----------------------------------------------------------------------------
(***************************************************************************)
(* One-time codes.                                                         *)
(***************************************************************************)
\* A code in a request or in a token is burnt, and in one of them only.
CodeInv ==
  /\ \A t \in DOMAIN tokens : tokens[t].code # 0 => tokens[t].code \in used
  /\ \A s \in Slots : Running(s, "signin") /\ slot[s].row # 0 =>
        slot[s].row \in used /\ \A t \in DOMAIN tokens : tokens[t].code # slot[s].row
  /\ \A s, r \in Slots :
        Running(s, "signin") /\ Running(r, "signin") /\ slot[s].row = slot[r].row /\ slot[s].row # 0
          => s = r
  /\ OneSessionPerCode

LEMMA CodesInitially == Init => CodeInv
<1> SUFFICES ASSUME Init PROVE CodeInv
  OBVIOUS
<1>1. tokens = << >> /\ \A s \in Slots : ~Running(s, "signin")
  BY DEF Init, Running, Free, Request
<1> QED
  BY <1>1 DEF CodeInv, OneSessionPerCode

LEMMA CodesStaySingle == ASSUME SessionInv, CodeInv, [Next]_vars PROVE CodeInv'
<1>0. SlotsTyped /\ TokensTyped /\ CodesTyped
  BY TypeParts DEF SessionInv
<1>1. ASSUME UNCHANGED << tokens, slot >>, used \subseteq used' PROVE CodeInv'
  BY <1>1 DEF CodeInv, OneSessionPerCode, Running
<1>2. ASSUME NEW s \in Slots, NEW r, slot' = [slot EXCEPT ![s] = r], r.op = "signin" => r.row = 0,
             UNCHANGED tokens, used \subseteq used'
      PROVE  CodeInv'
  <2>1. \A q \in Slots : Running(q, "signin")' /\ slot'[q].row # 0 =>
           Running(q, "signin") /\ slot'[q] = slot[q]
    BY <1>0, <1>2 DEF SlotsTyped, Running
  <2> QED
    BY <1>2, <2>1 DEF CodeInv, OneSessionPerCode
<1>3. CASE UNCHANGED vars
  BY <1>1, <1>3 DEF vars, requests, issued
<1>4. ASSUME Next PROVE CodeInv'
  <2>1. Acting /\ used \subseteq used'
    BY <1>4, StepKinds, CodesKept DEF SessionInv
  <2>2. CASE Outside \/ EarlyAccess
    BY <1>1, <2>1, <2>2 DEF Outside, requests, EarlyAccess, SubmitEarlyAccess, ReviewEarlyAccess, issued
  <2>3. CASE SweepBegins
    BY <1>2, <2>1, <2>3 DEF SweepBegins, BeginSweep, Admit, Request, issued
  <2>4. CASE SignInBegins
    <3>1. PICK s \in Slots, a \in Accounts, row \in Nat, word \in Words("signin") :
            /\ Start(s, "signin", a, row, word)
            /\ row = 0 \/ row \in DOMAIN codes \ used
            /\ used' = IF row = 0 THEN used ELSE used \cup {row}
            /\ UNCHANGED tokens
      BY <2>4 DEF SignInBegins
    <3>2. PICK r : r.op = "signin" /\ r.row = row /\ slot' = [slot EXCEPT ![s] = r]
      BY <3>1, StartFills
    <3>3. CASE row = 0
      BY <1>2, <2>1, <3>1, <3>2, <3>3
    <3>4. CASE row # 0
      <4>1. row \notin used /\ used' = used \cup {row}
        BY <3>1, <3>4
      <4>2. slot'[s] = r /\ \A q \in Slots \ {s} : slot'[q] = slot[q]
        BY <1>0, <3>2 DEF SlotsTyped
      <4>3. \A q \in Slots \ {s} : Running(q, "signin") /\ slot[q].row # 0 => slot[q].row # row
        BY <4>1 DEF CodeInv
      <4>4. \A t \in DOMAIN tokens : tokens[t].code # row
        BY <3>4, <4>1 DEF CodeInv
      <4> QED
        BY <3>1, <3>2, <4>1, <4>2, <4>3, <4>4 DEF CodeInv, OneSessionPerCode, Running
    <3> QED
      BY <3>3, <3>4
  <2>5. ASSUME NEW s \in Slots, CreateTokenPair(s) \/ CommitRotate(s) PROVE CodeInv'
    <3>1. PICK r : /\ tokens' = Append(tokens, r)
                   /\ r.code = (IF CreateTokenPair(s) THEN slot[s].row ELSE 0)
      BY <2>5 DEF CreateTokenPair, CommitRotate, NewToken
    <3>2. PICK n \in Nat : n = Len(tokens)
      BY <1>0 DEF TokensTyped
    <3>3. /\ DOMAIN tokens' = DOMAIN tokens \cup {n + 1} /\ n + 1 \notin DOMAIN tokens
          /\ tokens'[n + 1] = r /\ \A t \in DOMAIN tokens : tokens'[t] = tokens[t]
      BY <1>0, <3>1, <3>2 DEF TokensTyped
    <3>4. \A q \in Slots : Running(q, "signin")' => q # s /\ Running(q, "signin") /\ slot'[q] = slot[q]
      <4>1. Finish(s)
        BY <2>5 DEF CreateTokenPair, CommitRotate
      <4>2. slot'[s] = Free /\ \A q \in Slots : q # s => slot'[q] = slot[q]
        BY <1>0, <4>1 DEF Finish, SlotsTyped
      <4>3. Free.op = "free"
        BY DEF Free, Request
      <4> QED
        BY <4>2, <4>3 DEF Running
    <3>5. UNCHANGED used
      BY <2>5 DEF CreateTokenPair, CommitRotate
    <3>6. r.code # 0 => Running(s, "signin") /\ r.code = slot[s].row
      BY <3>1 DEF CreateTokenPair
    <3>7. /\ r.code # 0 => r.code \in used /\ \A t \in DOMAIN tokens : tokens[t].code # r.code
          /\ \A q \in Slots \ {s} : Running(q, "signin") /\ slot[q].row # 0 => slot[q].row # r.code
      BY <3>6 DEF CodeInv
    <3>8. OneSessionPerCode'
      BY <3>3, <3>7 DEF CodeInv, OneSessionPerCode
    <3>9. \A t \in DOMAIN tokens' : tokens'[t].code # 0 => tokens'[t].code \in used'
      BY <3>3, <3>5, <3>7 DEF CodeInv
    <3>10. \A q \in Slots : Running(q, "signin")' /\ slot'[q].row # 0 =>
             slot'[q].row \in used' /\ \A t \in DOMAIN tokens' : tokens'[t].code # slot'[q].row
      BY <3>3, <3>4, <3>5, <3>7 DEF CodeInv
    <3>11. \A q, p \in Slots :
             Running(q, "signin")' /\ Running(p, "signin")' /\ slot'[q].row = slot'[p].row
               /\ slot'[q].row # 0 => q = p
      BY <3>4 DEF CodeInv
    <3> QED
      BY <3>8, <3>9, <3>10, <3>11 DEF CodeInv
  <2>6. ASSUME NEW s \in Slots,
               CommitRegister(s) \/ RegisterConflict(s) \/ CommitSweep(s) \/ CommitSetRole(s)
        PROVE  CodeInv'
    BY <1>2, <2>1, <2>6 DEF CommitRegister, RegisterConflict, CommitSweep, CommitSetRole,
       SignInNext, Finish, Free, Request, issued
  <2>7. ASSUME NEW s \in Slots, NEW a \in Accounts, BeginRegister(s, a) \/ AcceptInvite(s, a)
        PROVE  CodeInv'
    BY <1>2, <2>1, <2>7 DEF BeginRegister, AcceptInvite, Start, Admit, Request, issued
  <2>8. ASSUME NEW s \in Slots, NEW actor \in Accounts, NEW a \in Accounts,
               NEW given \in {"admin", "editor"}, BeginSetRole(s, actor, a, given)
        PROVE  CodeInv'
    BY <1>2, <2>1, <2>8 DEF BeginSetRole, Start, Admit, Request, issued
  <2>9. ASSUME NEW a \in Accounts, InviteMember(a) \/ \E actor \in Accounts : Activate(actor, a)
        PROVE  CodeInv'
    BY <1>1, <2>1, <2>9 DEF InviteMember, requests, Activate, issued
  <2>10. ASSUME NEW s \in Slots, NEW t \in DOMAIN tokens, BeginRotate(s, t) PROVE CodeInv'
    BY <1>2, <2>1, <2>10 DEF BeginRotate, Start, Admit, Request, issued
  <2>11. ASSUME NEW t \in DOMAIN tokens, RevokeOne(t) PROVE CodeInv'
    BY <1>1, <2>1, <2>11 DEF RevokeOne, requests
  <2> QED
    BY <2>1, <2>2, <2>3, <2>4, <2>5, <2>6, <2>7, <2>8, <2>9, <2>10, <2>11 DEF Acting, Proceed
<1> QED
  BY <1>3, <1>4

\* An MFA challenge or an exchange code signs in once, whoever presents it.
THEOREM CodeSignsInOnce == Spec => []OneSessionPerCode
<1>1. CodeInv => OneSessionPerCode
  BY DEF CodeInv
<1> QED
  BY <1>1, CodesInitially, CodesStaySingle, SessionInvariance, PTL DEF Spec

-----------------------------------------------------------------------------
(***************************************************************************)
(* Sweeps, and the requests they overlap.                                  *)
(***************************************************************************)
\* Who is being signed in is active, without a second factor if by password
\* alone, and a sweep has seen all there is to sweep - but for the requests
\* that overlapped a sweep of their account, and the tokens these issued.
QuietInv ==
  /\ \A s, r \in Slots :
        Running(s, "sweep") /\ r # s /\ slot[r].who = slot[s].who /\ Issues(slot[r]) => r \in overtaken
  /\ \A s \in Slots : Issues(slot[s]) /\ ~Running(s, "register") =>
        Active(slot[s].who) \/ s \in overtaken
  /\ \A s \in Slots : Running(s, "signin") /\ slot[s].word = "password" =>
        slot[s].who \notin mfa \/ s \in overtaken
  /\ \A s \in Slots : Running(s, "sweep") =>
        \A t \in LiveTokens(slot[s].who) : t \in slot[s].seen \/ tokens[t].late
  /\ InactiveHoldsNoSession
  /\ PasswordAloneIsNotEnough

LEMMA FreeIdles == Free.op = "free" /\ Free.who = NoAccount /\ Free.word = "" /\ ~Issues(Free)
  BY DEF Free, Request, Issues

\* Whoever is going to issue a token, or sweeps, does it for an account.
LEMMA BusyWho ==
  ASSUME SlotsTyped, NEW s \in Slots, slot[s].op # "free"
  PROVE  slot[s].who \in Accounts
<1>1. slot[s] # Free
  BY FreeIdles
<1>2. PICK op \in Ops : slot[s] \in [op : {op}, who : Accounts, row : Nat, word : Words(op),
                                     seen : SUBSET Nat]
  BY <1>1 DEF SlotsTyped, Requests
<1> QED
  BY <1>2

LEMMA IssuerBusy ==
  ASSUME SlotsTyped, NEW s \in Slots, Issues(slot[s]) PROVE slot[s].op # "free"
<1>1. CASE slot[s] = Free
  BY <1>1, FreeIdles
<1>2. CASE slot[s] # Free
  <2>1. PICK op \in Ops : slot[s] \in [op : {op}, who : Accounts, row : Nat, word : Words(op),
                                       seen : SUBSET Nat]
    BY <1>2 DEF SlotsTyped, Requests
  <2> QED
    BY <2>1 DEF Ops
<1> QED
  BY <1>1, <1>2

LEMMA QuietInitially == Init => QuietInv
<1> SUFFICES ASSUME Init PROVE QuietInv
  OBVIOUS
<1>1. live = {} /\ mfa = {} /\ \A s \in Slots : slot[s] = Free
  BY DEF Init
<1>2. \A s \in Slots : ~Issues(slot[s]) /\ slot[s].op = "free"
  BY <1>1, FreeIdles
<1> QED
  BY <1>1, <1>2 DEF QuietInv, InactiveHoldsNoSession, PasswordAloneIsNotEnough, LiveTokens, Running

\* No account is switched off, no second factor changes, no token appears.
Calm == /\ \A a \in Accounts : Active(a) => Active(a)'
        /\ UNCHANGED << mfa, tokens >> /\ live' \subseteq live

LEMMA CalmSessions ==
  ASSUME QuietInv, Calm PROVE InactiveHoldsNoSession' /\ PasswordAloneIsNotEnough'
<1>1. \A a : LiveTokens(a)' \subseteq LiveTokens(a)
  BY DEF Calm, LiveTokens
<1>2. InactiveHoldsNoSession'
  BY <1>1 DEF QuietInv, InactiveHoldsNoSession, Calm
<1>3. PasswordAloneIsNotEnough'
  BY <1>1 DEF QuietInv, PasswordAloneIsNotEnough, Calm
<1> QED
  BY <1>2, <1>3

LEMMA CalmKept ==
  ASSUME SessionInv, QuietInv, Calm, UNCHANGED << slot, overtaken >> PROVE QuietInv'
<1>0. SlotsTyped
  BY TypeParts DEF SessionInv
<1>1. \A s \in Slots : Issues(slot[s]) => slot[s].who \in Accounts
  BY <1>0, BusyWho, IssuerBusy
<1>2. \A a : LiveTokens(a)' \subseteq LiveTokens(a)
  BY DEF Calm, LiveTokens
<1>3. \A s, r \in Slots : Running(s, "sweep")' /\ r # s /\ slot'[r].who = slot'[s].who /\ Issues(slot'[r])
        => r \in overtaken'
  BY DEF QuietInv, Running
<1>4. \A s \in Slots : Issues(slot'[s]) /\ ~Running(s, "register")' =>
        Active(slot[s].who)' \/ s \in overtaken'
  BY <1>1 DEF QuietInv, Running, Calm
<1>5. \A s \in Slots : Running(s, "signin")' /\ slot'[s].word = "password" =>
        slot'[s].who \notin mfa' \/ s \in overtaken'
  BY DEF QuietInv, Running, Calm
<1>6. \A s \in Slots : Running(s, "sweep")' =>
        \A t \in LiveTokens(slot[s].who)' : t \in slot'[s].seen \/ tokens'[t].late
  BY <1>2 DEF QuietInv, Running, Calm
<1> QED
  BY <1>3, <1>4, <1>5, <1>6, CalmSessions DEF QuietInv, Issues

\* One slot gets a new request.
LEMMA QuietRequest ==
  ASSUME SessionInv, QuietInv, Calm, NEW s \in Slots, NEW r, slot' = [slot EXCEPT ![s] = r],
         \A q \in Slots \ {s} : q \in overtaken => q \in overtaken',
         r.op = "sweep" =>
           \A q \in Slots \ {s} : slot[q].who = r.who /\ Issues(slot[q]) => q \in overtaken',
         Issues(r) /\ (\E q \in Slots \ {s} : Running(q, "sweep") /\ slot[q].who = r.who)
           => s \in overtaken',
         Issues(r) /\ r.op # "register" => Active(r.who)' \/ s \in overtaken',
         r.op = "signin" /\ r.word = "password" => r.who \notin mfa \/ s \in overtaken',
         r.op = "sweep" => \A t \in LiveTokens(r.who)' : t \in r.seen \/ tokens[t].late
  PROVE  QuietInv'
<1>0. SlotsTyped
  BY TypeParts DEF SessionInv
<1>1. \A q \in Slots : Issues(slot[q]) => slot[q].who \in Accounts
  BY <1>0, BusyWho, IssuerBusy
<1>2. slot'[s] = r /\ \A q \in Slots : q # s => slot'[q] = slot[q]
  BY <1>0 DEF SlotsTyped
<1>3. ASSUME NEW p \in Slots, NEW q \in Slots, Running(p, "sweep")', q # p,
             slot'[q].who = slot'[p].who, Issues(slot'[q])
      PROVE  q \in overtaken'
  <2>1. CASE p = s
    BY <1>2, <1>3, <2>1 DEF Running
  <2>2. CASE q = s
    BY <1>2, <1>3, <2>2 DEF Running
  <2>3. CASE p # s /\ q # s
    BY <1>2, <1>3, <2>3 DEF Running, QuietInv
  <2> QED
    BY <2>1, <2>2, <2>3
<1>4. ASSUME NEW q \in Slots, Issues(slot'[q]), ~Running(q, "register")'
      PROVE  Active(slot[q].who)' \/ q \in overtaken'
  <2>1. CASE q = s
    BY <1>2, <1>4, <2>1 DEF Running, Active
  <2>2. CASE q # s
    BY <1>1, <1>2, <1>4, <2>2 DEF Running, QuietInv, Calm, Active
  <2> QED
    BY <2>1, <2>2
<1>5. ASSUME NEW q \in Slots, Running(q, "signin")', slot'[q].word = "password"
      PROVE  slot'[q].who \notin mfa' \/ q \in overtaken'
  <2>1. CASE q = s
    BY <1>2, <1>5, <2>1 DEF Running, Calm
  <2>2. CASE q # s
    BY <1>2, <1>5, <2>2 DEF Running, QuietInv, Calm
  <2> QED
    BY <2>1, <2>2
<1>6. ASSUME NEW q \in Slots, Running(q, "sweep")', NEW t \in LiveTokens(slot[q].who)'
      PROVE  t \in slot'[q].seen \/ tokens'[t].late
  <2>1. CASE q = s
    BY <1>2, <1>6, <2>1 DEF Running, Calm, LiveTokens
  <2>2. CASE q # s
    BY <1>2, <1>6, <2>2 DEF Running, QuietInv, Calm, LiveTokens
  <2> QED
    BY <2>1, <2>2
<1> QED
  BY <1>3, <1>4, <1>5, <1>6, CalmSessions DEF QuietInv, Issues

\* A request that starts is marked, and marks, as the invariant asks.
LEMMA QuietAdmit ==
  ASSUME SessionInv, QuietInv, Calm, NEW s \in Slots, NEW r, Admit(s, r),
         Issues(r) /\ r.op # "register" => Active(r.who)',
         r.op = "signin" /\ r.word = "password" => r.who \notin mfa,
         r.op = "sweep" => \A t \in LiveTokens(r.who)' : t \in r.seen \/ tokens[t].late
  PROVE  QuietInv'
<1>1. slot' = [slot EXCEPT ![s] = r] /\ overtaken \subseteq overtaken'
  BY DEF Admit
<1>2. r.op = "sweep" => \A q \in Slots : slot[q].who = r.who /\ Issues(slot[q]) => q \in overtaken'
  BY DEF Admit
<1>3. Issues(r) /\ (\E q \in Slots : Running(q, "sweep") /\ slot[q].who = r.who) => s \in overtaken'
  BY DEF Admit, Running
<1> QED
  BY <1>1, <1>2, <1>3, QuietRequest

LEMMA QuietStart ==
  ASSUME SessionInv, QuietInv, Calm, NEW s \in Slots, NEW op \in Ops \ {"sweep"}, NEW a \in Accounts,
         NEW row, NEW word, Start(s, op, a, row, word), word # "reset",
         op \in {"signin", "rotate"} => Active(a)',
         op = "signin" /\ word = "password" => a \notin mfa
  PROVE  QuietInv'
<1>1. PICK r : r.op = op /\ r.who = a /\ r.word = word /\ Admit(s, r)
  BY StartFills
<1>2. Issues(r) /\ r.op # "register" => Active(r.who)'
  BY <1>1 DEF Issues, Active
<1> QED
  BY <1>1, <1>2, QuietAdmit

\* A request ends.
LEMMA QuietFinish == ASSUME SessionInv, QuietInv, Calm, NEW s \in Slots, Finish(s) PROVE QuietInv'
<1>1. slot' = [slot EXCEPT ![s] = Free] /\ \A q \in Slots \ {s} : q \in overtaken => q \in overtaken'
  BY DEF Finish
<1> QED
  BY <1>1, FreeIdles, QuietRequest

\* A token appears: of an active account, better than a password alone if that
\* has a second factor and out of no sweep's sight, or it is late.
LEMMA QuietToken ==
  ASSUME SessionInv, QuietInv, NEW s \in Slots, NEW a \in Accounts, NEW r,
         Finish(s), UNCHANGED << state, mfa >>, tokens' = Append(tokens, r),
         live' \subseteq live \cup {Len(tokens) + 1}, r.owner = a,
         Active(a) \/ r.late,
         r.by = "password" => a \notin mfa \/ r.late,
         (\E q \in Slots \ {s} : Running(q, "sweep") /\ slot[q].who = a) => r.late
  PROVE  QuietInv'
<1>0. TokensTyped /\ SlotsTyped /\ live \subseteq DOMAIN tokens
  BY TypeParts DEF SessionInv, TokensTyped
<1>1. slot'[s] = Free /\ \A q \in Slots : q # s => slot'[q] = slot[q]
  BY <1>0 DEF Finish, SlotsTyped
<1>2. \A q \in Slots : q # s => (q \in overtaken' <=> q \in overtaken)
  BY DEF Finish
<1>3. PICK n : /\ tokens'[n] = r /\ live' \subseteq live \cup {n}
               /\ \A t \in live : tokens'[t] = tokens[t]
  BY <1>0 DEF TokensTyped
<1>4. \A b : \A t \in LiveTokens(b)' :
        \/ t \in LiveTokens(b) /\ tokens'[t] = tokens[t]
        \/ b = a /\ tokens'[t] = r
  BY <1>3 DEF LiveTokens
<1>5. InactiveHoldsNoSession'
  <2>1. ASSUME NEW b \in Accounts, ~Active(b)', NEW t \in LiveTokens(b)' PROVE tokens'[t].late
    <3>1. ~Active(b)
      BY <2>1 DEF Active
    <3>2. CASE t \in LiveTokens(b) /\ tokens'[t] = tokens[t]
      BY <2>1, <3>1, <3>2 DEF QuietInv, InactiveHoldsNoSession
    <3>3. CASE b = a /\ tokens'[t] = r
      BY <3>1, <3>3
    <3> QED
      BY <1>4, <2>1, <3>2, <3>3
  <2> QED
    BY <2>1 DEF InactiveHoldsNoSession
<1>6. PasswordAloneIsNotEnough'
  <2>1. ASSUME NEW b \in mfa', NEW t \in LiveTokens(b)', tokens'[t].by = "password"
        PROVE  tokens'[t].late
    <3>1. CASE t \in LiveTokens(b) /\ tokens'[t] = tokens[t]
      BY <2>1, <3>1 DEF QuietInv, PasswordAloneIsNotEnough
    <3>2. CASE b = a /\ tokens'[t] = r
      BY <2>1, <3>2
    <3> QED
      BY <1>4, <2>1, <3>1, <3>2
  <2> QED
    BY <2>1 DEF PasswordAloneIsNotEnough
<1>7. ASSUME NEW p \in Slots, NEW q \in Slots, Running(p, "sweep")', q # p,
             slot'[q].who = slot'[p].who, Issues(slot'[q])
      PROVE  q \in overtaken'
  <2>1. p # s /\ q # s
    BY <1>1, <1>7, FreeIdles DEF Running
  <2> QED
    BY <1>1, <1>2, <1>7, <2>1 DEF QuietInv, Running
<1>8. ASSUME NEW q \in Slots, Issues(slot'[q]), ~Running(q, "register")'
      PROVE  Active(slot[q].who)' \/ q \in overtaken'
  <2>1. q # s
    BY <1>1, <1>8, FreeIdles
  <2> QED
    BY <1>1, <1>2, <1>8, <2>1 DEF QuietInv, Running, Active
<1>9. ASSUME NEW q \in Slots, Running(q, "signin")', slot'[q].word = "password"
      PROVE  slot'[q].who \notin mfa' \/ q \in overtaken'
  <2>1. q # s
    BY <1>1, <1>9, FreeIdles
  <2> QED
    BY <1>1, <1>2, <1>9, <2>1 DEF QuietInv, Running
<1>10. ASSUME NEW q \in Slots, Running(q, "sweep")', NEW t \in LiveTokens(slot[q].who)'
       PROVE  t \in slot'[q].seen \/ tokens'[t].late
  <2>1. q # s
    BY <1>1, <1>10, FreeIdles DEF Running
  <2>2. Running(q, "sweep") /\ slot'[q] = slot[q]
    BY <1>1, <1>10, <2>1 DEF Running
  <2>3. \/ t \in LiveTokens(slot[q].who) /\ tokens'[t] = tokens[t]
        \/ slot[q].who = a /\ tokens'[t] = r
    BY <1>4, <1>10, <2>2
  <2> QED
    BY <2>1, <2>2, <2>3 DEF QuietInv
<1> QED
  BY <1>5, <1>6, <1>7, <1>8, <1>9, <1>10 DEF QuietInv, Issues

LEMMA QuietSweep ==
  ASSUME SessionInv, QuietInv, NEW s \in Slots, CommitSweep(s) PROVE QuietInv'
<1>0. SlotsTyped /\ UsersTyped
  BY TypeParts DEF SessionInv
<1>1. PICK a \in Accounts : a = slot[s].who
  BY <1>0, RequestTyped DEF CommitSweep, Ops
<1>2. /\ Running(s, "sweep") /\ UNCHANGED tokens
      /\ live' = live \ slot[s].seen /\ AfterSweep(a, slot[s].word)
  BY <1>1 DEF CommitSweep
<1>3. \A q \in Slots : q # s => slot'[q] = slot[q] /\ (q \in overtaken' <=> q \in overtaken)
  BY <1>0 DEF CommitSweep, SignInNext, Finish, SlotsTyped
<1>4. \/ slot'[s] = Free
      \/ /\ slot[s].word = "reset" /\ slot'[s].op = "signin" /\ slot'[s].who = a
         /\ slot'[s].word = "other" /\ overtaken' = overtaken
  <2>1. CASE slot[s].word = "reset"
    BY <1>0, <1>1, <2>1 DEF CommitSweep, SignInNext, Request, SlotsTyped
  <2>2. CASE slot[s].word # "reset"
    BY <1>0, <2>2 DEF CommitSweep, Finish, SlotsTyped
  <2> QED
    BY <2>1, <2>2
<1>5. \A b \in Accounts : b # a => (Active(b)' <=> Active(b)) /\ (b \in mfa' => b \in mfa)
  BY <1>0, <1>2 DEF AfterSweep, UsersTyped, Active
<1>6. /\ \A b : LiveTokens(b)' \subseteq LiveTokens(b)
      /\ \A t \in LiveTokens(a)' : tokens'[t].late
  <2>1. \A t \in LiveTokens(a) : t \in slot[s].seen \/ tokens[t].late
    BY <1>1, <1>2 DEF QuietInv
  <2> QED
    BY <1>2, <2>1 DEF LiveTokens
<1>7. \A q \in Slots : q # s /\ slot[q].who = a /\ Issues(slot[q]) => q \in overtaken
  BY <1>1, <1>2 DEF QuietInv
<1>8. Issues(slot[s]) /\ slot[s].word = "reset" => Active(a)' \/ s \in overtaken
  BY <1>1, <1>2 DEF QuietInv, AfterSweep, Active, Running
<1>9. InactiveHoldsNoSession'
  BY <1>2, <1>5, <1>6 DEF QuietInv, InactiveHoldsNoSession
<1>10. PasswordAloneIsNotEnough'
  <2>1. ASSUME NEW b \in mfa', NEW t \in LiveTokens(b)', tokens'[t].by = "password"
        PROVE  tokens'[t].late
    <3>1. b \in Accounts
      BY <1>0, <1>2, <2>1 DEF AfterSweep, UsersTyped
    <3> QED
      BY <1>2, <1>5, <1>6, <2>1, <3>1 DEF QuietInv, PasswordAloneIsNotEnough
  <2> QED
    BY <2>1 DEF PasswordAloneIsNotEnough
<1>11. ASSUME NEW p \in Slots, NEW q \in Slots, Running(p, "sweep")', q # p,
              slot'[q].who = slot'[p].who, Issues(slot'[q])
       PROVE  q \in overtaken'
  <2>1. p # s /\ slot'[p] = slot[p] /\ Running(p, "sweep")
    BY <1>3, <1>4, <1>11, FreeIdles DEF Running
  <2>2. CASE q = s
    <3>1. slot[s].word = "reset" /\ slot'[s].who = a /\ overtaken' = overtaken
      BY <1>4, <1>11, <2>2, FreeIdles
    <3>2. Issues(slot[s])
      BY <3>1 DEF Issues
    <3> QED
      BY <1>1, <1>11, <2>1, <2>2, <3>1, <3>2 DEF QuietInv
  <2>3. CASE q # s
    BY <1>3, <1>11, <2>1, <2>3 DEF QuietInv
  <2> QED
    BY <2>2, <2>3
<1>12. ASSUME NEW q \in Slots, Issues(slot'[q]), ~Running(q, "register")'
       PROVE  Active(slot[q].who)' \/ q \in overtaken'
  <2>1. CASE q = s
    <3>1. slot[s].word = "reset" /\ slot'[s].who = a /\ overtaken' = overtaken
      BY <1>4, <1>12, <2>1, FreeIdles
    <3>2. Issues(slot[s])
      BY <3>1 DEF Issues
    <3> QED
      BY <1>8, <2>1, <3>1, <3>2 DEF Active
  <2>2. CASE q # s
    <3>1. slot'[q] = slot[q] /\ slot[q].who \in Accounts
      BY <1>0, <1>3, <1>12, <2>2, BusyWho, IssuerBusy
    <3>2. CASE slot[q].who = a
      BY <1>3, <1>7, <1>12, <2>2, <3>1, <3>2
    <3>3. CASE slot[q].who # a
      BY <1>3, <1>5, <1>12, <2>2, <3>1, <3>3 DEF QuietInv, Running, Active
    <3> QED
      BY <3>2, <3>3
  <2> QED
    BY <2>1, <2>2
<1>13. ASSUME NEW q \in Slots, Running(q, "signin")', slot'[q].word = "password"
       PROVE  slot'[q].who \notin mfa' \/ q \in overtaken'
  <2>1. q # s /\ slot'[q] = slot[q] /\ Running(q, "signin")
    BY <1>3, <1>4, <1>13, FreeIdles DEF Running
  <2>2. slot[q].who \in Accounts /\ Issues(slot[q])
    BY <1>0, <2>1, BusyWho DEF Running, Issues
  <2> QED
    BY <1>3, <1>5, <1>7, <1>13, <2>1, <2>2 DEF QuietInv
<1>14. ASSUME NEW q \in Slots, Running(q, "sweep")', NEW t \in LiveTokens(slot[q].who)'
       PROVE  t \in slot'[q].seen \/ tokens'[t].late
  <2>1. q # s /\ slot'[q] = slot[q] /\ Running(q, "sweep")
    BY <1>3, <1>4, <1>14, FreeIdles DEF Running
  <2>2. t \in LiveTokens(slot[q].who)
    BY <1>6, <1>14, <2>1 DEF LiveTokens
  <2> QED
    BY <1>2, <2>1, <2>2 DEF QuietInv
<1> QED
  BY <1>9, <1>10, <1>11, <1>12, <1>13, <1>14 DEF QuietInv, Issues, Active, LiveTokens

LEMMA QuietKept == ASSUME SessionInv, QuietInv, [Next]_vars PROVE QuietInv'
<1>0. SlotsTyped /\ UsersTyped /\ TokensTyped
  BY TypeParts DEF SessionInv
<1>1. CASE UNCHANGED vars
  BY <1>1, CalmKept DEF vars, requests, users, issued, Calm, Active
<1>2. ASSUME Next PROVE QuietInv'
  <2>1. Acting
    BY <1>2, StepKinds DEF SessionInv
  <2>2. CASE Outside \/ EarlyAccess
    BY <2>2, CalmKept DEF Outside, EarlyAccess, SubmitEarlyAccess, ReviewEarlyAccess, requests, users,
       issued, Calm, Active
  <2>3. CASE SweepBegins
    <3>1. PICK s \in Slots, a \in Accounts, why \in Words("sweep") :
            BeginSweep(s, a, why) /\ (why = "reset" => Active(a))
      BY <2>3 DEF SweepBegins
    <3>2. PICK r : /\ r.op = "sweep" /\ r.who = a /\ r.word = why /\ r.seen = LiveTokens(a)
                   /\ Admit(s, r)
      BY <3>1 DEF BeginSweep, Request, Swept
    <3>3. Calm /\ UNCHANGED << state, tokens, live >>
      BY <3>1 DEF BeginSweep, users, issued, Calm, Active
    <3>4. \A t \in LiveTokens(r.who)' : t \in r.seen
      BY <3>2, <3>3 DEF LiveTokens
    <3>5. Issues(r) => Active(r.who)'
      BY <3>1, <3>2, <3>3 DEF Issues, Active
    <3> QED
      BY <3>2, <3>3, <3>4, <3>5, QuietAdmit
  <2>4. CASE SignInBegins
    <3>1. PICK s \in Slots, a \in Accounts, row \in Nat, word \in Words("signin") :
            /\ Start(s, "signin", a, row, word) /\ Active(a) /\ (word = "password" => a \notin mfa)
            /\ UNCHANGED << users, tokens, live >>
      BY <2>4 DEF SignInBegins
    <3>2. Calm /\ Active(a)'
      BY <3>1 DEF users, Calm, Active
    <3>3. word # "reset"
      BY DEF Words
    <3> QED
      BY <3>1, <3>2, <3>3, QuietStart DEF Ops
  <2>5. ASSUME NEW s \in Slots, CreateTokenPair(s) PROVE QuietInv'
    <3>1. PICK a \in Accounts : a = slot[s].who
      BY <1>0, <2>5, RequestTyped DEF CreateTokenPair, Ops
    <3>2. PICK r : /\ tokens' = Append(tokens, r) /\ r.owner = a /\ r.by = slot[s].word
                   /\ r.late <=> s \in overtaken
      <4>1. PICK r : /\ tokens' = Append(tokens, r)
                     /\ r = [owner |-> slot[s].who, login |-> Len(tokens) + 1, by |-> slot[s].word,
                             code |-> slot[s].row, late |-> s \in overtaken]
        BY <2>5 DEF CreateTokenPair, NewToken
      <4>2. r.owner = a /\ r.by = slot[s].word /\ (r.late <=> s \in overtaken)
        BY <3>1, <4>1
      <4> QED
        BY <4>1, <4>2
    <3>3. Issues(slot[s]) /\ ~Running(s, "register")
      BY <2>5 DEF CreateTokenPair, Running, Issues
    <3>4. Active(a) \/ r.late
      BY <3>1, <3>2, <3>3 DEF QuietInv
    <3>5. r.by = "password" => a \notin mfa \/ r.late
      BY <2>5, <3>1, <3>2 DEF QuietInv, CreateTokenPair
    <3>6. (\E q \in Slots \ {s} : Running(q, "sweep") /\ slot[q].who = a) => r.late
      BY <3>1, <3>2, <3>3 DEF QuietInv
    <3>7. /\ Finish(s) /\ UNCHANGED << state, mfa >>
          /\ live' \subseteq live \cup {Len(tokens) + 1}
      BY <2>5 DEF CreateTokenPair, users
    <3> QED
      BY <3>2, <3>4, <3>5, <3>6, <3>7, QuietToken
  <2>6. ASSUME NEW s \in Slots, CommitRotate(s) PROVE QuietInv'
    <3>1. PICK a \in Accounts : a = slot[s].who
      BY <1>0, <2>6, RequestTyped DEF CommitRotate, Ops
    <3>2. PICK t \in live : t = slot[s].row /\ tokens[t].owner = a
      BY <2>6, <3>1 DEF CommitRotate, SessionInv, Rotating
    <3>3. PICK r : /\ tokens' = Append(tokens, r) /\ r.owner = a /\ r.by = tokens[t].by
                   /\ r.late <=> s \in overtaken \/ tokens[t].late
      <4>1. PICK r : /\ tokens' = Append(tokens, r)
                     /\ r = [owner |-> tokens[t].owner, login |-> tokens[t].login,
                             by |-> tokens[t].by, code |-> 0,
                             late |-> s \in overtaken \/ tokens[t].late]
        BY <2>6, <3>2 DEF CommitRotate, NewToken
      <4>2. /\ r.owner = a /\ r.by = tokens[t].by
            /\ r.late <=> s \in overtaken \/ tokens[t].late
        BY <3>2, <4>1
      <4> QED
        BY <4>1, <4>2
    <3>4. Issues(slot[s]) /\ ~Running(s, "register")
      BY <2>6 DEF CommitRotate, Running, Issues
    <3>5. Active(a) \/ r.late
      BY <3>1, <3>3, <3>4 DEF QuietInv
    <3>6. r.by = "password" => a \notin mfa \/ r.late
      BY <3>2, <3>3 DEF QuietInv, PasswordAloneIsNotEnough, LiveTokens
    <3>7. (\E q \in Slots \ {s} : Running(q, "sweep") /\ slot[q].who = a) => r.late
      BY <3>1, <3>3, <3>4 DEF QuietInv
    <3>8. /\ Finish(s) /\ UNCHANGED << state, mfa >>
          /\ live' \subseteq live \cup {Len(tokens) + 1}
      BY <2>6 DEF CommitRotate, users
    <3> QED
      BY <3>3, <3>5, <3>6, <3>7, <3>8, QuietToken
  <2>7. ASSUME NEW s \in Slots, RegisterConflict(s) \/ CommitSetRole(s) PROVE QuietInv'
    <3>1. Calm /\ Finish(s)
      BY <2>7 DEF RegisterConflict, CommitSetRole, users, issued, Calm, Active
    <3> QED
      BY <3>1, QuietFinish
  <2>8. ASSUME NEW s \in Slots, CommitRegister(s) PROVE QuietInv'
    <3>1. PICK a \in Accounts : a = slot[s].who
      BY <1>0, <2>8, RequestTyped DEF CommitRegister, Ops
    <3>2. Calm /\ Active(a)'
      BY <1>0, <2>8, <3>1 DEF CommitRegister, issued, Calm, Active, UsersTyped
    <3>3. CASE Finish(s)
      BY <3>2, <3>3, QuietFinish
    <3>4. CASE SignInNext(s)
      <4>1. PICK r : r = Request("signin", a, 0, "other", {})
        OBVIOUS
      <4>2. r.op = "signin" /\ r.who = a /\ r.word = "other"
        BY <4>1 DEF Request
      <4>3. slot' = [slot EXCEPT ![s] = r] /\ overtaken' = overtaken
        BY <3>1, <3>4, <4>1 DEF SignInNext
      <4>4. Issues(slot[s])
        BY <2>8 DEF CommitRegister, Running, Issues
      <4>5. (\E q \in Slots \ {s} : Running(q, "sweep") /\ slot[q].who = r.who) => s \in overtaken'
        BY <3>1, <4>2, <4>3, <4>4 DEF QuietInv
      <4>6. Active(r.who)'
        BY <3>2, <4>2 DEF Active
      <4> QED
        BY <3>2, <4>2, <4>3, <4>5, <4>6, QuietRequest
    <3> QED
      BY <2>8, <3>3, <3>4 DEF CommitRegister
  <2>9. ASSUME NEW s \in Slots, NEW a \in Accounts, AcceptInvite(s, a) PROVE QuietInv'
    <3>1. Calm /\ Active(a)'
      BY <1>0, <2>9 DEF AcceptInvite, issued, Calm, Active, UsersTyped
    <3>2. Start(s, "signin", a, 0, "other")
      BY <2>9 DEF AcceptInvite
    <3> QED
      BY <3>1, <3>2, QuietStart DEF Ops
  <2>10. ASSUME NEW s \in Slots, NEW t \in DOMAIN tokens, BeginRotate(s, t) PROVE QuietInv'
    <3>1. tokens[t].owner \in Accounts
      <4>1. tokens[t] \in TokenRow
        BY <1>0, RowTyped DEF TokensTyped
      <4> QED
        BY <4>1 DEF TokenRow
    <3>2. Active(tokens[t].owner) /\ Start(s, "rotate", tokens[t].owner, t, "")
      BY <2>10 DEF BeginRotate
    <3>3. Calm /\ UNCHANGED << state, tokens >>
      BY <2>10 DEF BeginRotate, issued, users, Calm, Active
    <3>4. PICK a \in Accounts : a = tokens[t].owner
      BY <3>1
    <3>5. Active(a)' /\ Start(s, "rotate", a, t, "")
      BY <3>2, <3>3, <3>4 DEF Active
    <3> QED
      BY <3>3, <3>5, QuietStart DEF Ops
  <2>11. ASSUME NEW s \in Slots, NEW op \in {"register", "role"}, NEW a \in Accounts,
                NEW word \in {"admin", "editor"},
                Start(s, op, a, 0, word), UNCHANGED << users, issued >>
         PROVE  QuietInv'
    <3>1. Calm
      BY <2>11 DEF issued, users, Calm, Active
    <3> QED
      BY <2>11, <3>1, QuietStart DEF Ops
  <2>12. CASE \/ \E s \in Slots, a \in Accounts : BeginRegister(s, a)
              \/ \E s \in Slots, actor, a \in Accounts, given \in {"admin", "editor"} :
                    BeginSetRole(s, actor, a, given)
    <3>1. SafeRole \in {"admin", "editor"}
      BY DEF SafeRole
    <3> QED
      BY <2>11, <2>12, <3>1 DEF BeginRegister, BeginSetRole
  <2>13. CASE \/ \E actor, a \in Accounts : Activate(actor, a)
              \/ \E a \in Accounts : InviteMember(a)
              \/ \E t \in DOMAIN tokens : RevokeOne(t)
    <3>1. Calm /\ UNCHANGED << slot, overtaken >>
      BY <1>0, <2>13 DEF Activate, InviteMember, CanAppear, RevokeOne, requests, issued, users, Calm,
                         Active, UsersTyped
    <3> QED
      BY <3>1, CalmKept
  <2> QED
    BY <2>1, <2>2, <2>3, <2>4, <2>5, <2>6, <2>7, <2>8, <2>9, <2>10, <2>12, <2>13, QuietSweep
       DEF Acting, Proceed
<1> QED
  BY <1>1, <1>2

\* An account that is switched off or deleted has no live token to wake up
\* with, whatever overlaps, but those of requests that overlapped the sweep.
THEOREM NoSessionWhenOff == Spec => []InactiveHoldsNoSession
<1>1. QuietInv => InactiveHoldsNoSession
  BY DEF QuietInv
<1>2. SessionInv /\ QuietInv /\ [Next]_vars => QuietInv'
  BY QuietKept
<1> QED
  BY <1>1, <1>2, QuietInitially, SessionInvariance, PTL DEF Spec

\* Nor is, while the second factor is on, a session alive that a password alone
\* opened, with the same exception.
THEOREM NoPasswordSession == Spec => []PasswordAloneIsNotEnough
<1>1. QuietInv => PasswordAloneIsNotEnough
  BY DEF QuietInv
<1>2. SessionInv /\ QuietInv /\ [Next]_vars => QuietInv'
  BY QuietKept
<1> QED
  BY <1>1, <1>2, QuietInitially, SessionInvariance, PTL DEF Spec


-----------------------------------------------------------------------------
(***************************************************************************)
(* Registrations.                                                          *)
(***************************************************************************)
\* An invitation that is spent bought an account, and one.
InvitationSpent ==
  /\ \A a, b \in Accounts :
       ByInvitation(a) => /\ access[EmailOf[a]] = "consumed"
                          /\ ByInvitation(b) /\ EmailOf[b] = EmailOf[a] => a = b
  /\ \A e \in Emails : access[e] = "consumed" =>
       \E a \in Local : EmailOf[a] = e /\ state[a] # "absent"

\* The account it bought stands in the way of the page until it is deleted.
LEMMA SpentShows == InvitationSpent => InvitationBuysOneAccount
<1> SUFFICES ASSUME InvitationSpent PROVE InvitationBuysOneAccount
  OBVIOUS
<1>1. ASSUME NEW e \in Emails, ValidateInvitation(e), ~InvitationUsable(e)
      PROVE  \E a \in Local : EmailOf[a] = e /\ state[a] = "deleted"
  <2>1. PICK a \in Local : EmailOf[a] = e /\ state[a] # "absent"
    BY <1>1 DEF ValidateInvitation, InvitationUsable, InvitationSpent
  <2> QED
    BY <1>1, <2>1, AccountsAssumption DEF ValidateInvitation, FreeAddress
<1> QED
  BY <1>1 DEF InvitationSpent, InvitationBuysOneAccount

\* One at a time, and until it commits its invitation is not spent.  Who is
\* switched off or deleted was there.
GateInv ==
  /\ \A s, r \in Slots : Running(s, "register") /\ Running(r, "register") => s = r
  /\ \A s \in Slots : Running(s, "register") /\ slot[s].word = "editor" /\ slot[s].who \in Local =>
        access[EmailOf[slot[s].who]] = "approved"
  /\ \A s \in Slots : Running(s, "sweep") /\ slot[s].word \in {"off", "deleted"} =>
        state[slot[s].who] # "absent"
  /\ InvitationSpent

LEMMA GateInitially == Init => GateInv
<1> SUFFICES ASSUME Init PROVE GateInv
  OBVIOUS
<1>1. \A s \in Slots : ~Running(s, "register") /\ ~Running(s, "sweep")
  BY DEF Init, Running, Free, Request
<1>2. InvitationSpent
  BY DEF Init, InvitationSpent, ByInvitation, Emails
<1> QED
  BY <1>1, <1>2 DEF GateInv

\* Nobody becomes absent, who appears was invited, and nothing is spent.
Gated == /\ \A a \in Accounts : state[a] # "absent" => state'[a] # "absent"
         /\ \A a \in Accounts : state'[a] # "absent" => state[a] # "absent" \/ a \in invited'
         /\ invited \subseteq invited' /\ bootstrap' = bootstrap /\ access' = access

LEMMA GatedKeeps ==
  ASSUME InvitationSpent, Gated PROVE InvitationSpent'
<1>1. \A a \in Accounts : ByInvitation(a)' => ByInvitation(a)
  BY DEF Gated, ByInvitation
<1>2. \A a \in Local : state[a] # "absent" => state'[a] # "absent"
  BY AccountsAssumption DEF Gated
<1> QED
  BY <1>1, <1>2 DEF InvitationSpent, Gated

LEMMA GateRequest ==
  ASSUME SessionInv, GateInv, Gated, NEW s \in Slots, NEW r, slot' = [slot EXCEPT ![s] = r],
         r.op = "register" =>
           /\ \A q \in Slots \ {s} : ~Running(q, "register")
           /\ r.word = "editor" /\ r.who \in Local => access[EmailOf[r.who]] = "approved",
         r.op = "sweep" /\ r.word \in {"off", "deleted"} =>
           r.who \in Accounts /\ state[r.who] # "absent"
  PROVE  GateInv'
<1>1. slot'[s] = r /\ \A q \in Slots : q # s => slot'[q] = slot[q]
  BY TypeParts DEF SessionInv, SlotsTyped
<1>2. \A p, q \in Slots : Running(p, "register")' /\ Running(q, "register")' => p = q
  BY <1>1 DEF GateInv, Running
<1>3. \A q \in Slots : Running(q, "register")' /\ slot'[q].word = "editor" /\ slot'[q].who \in Local =>
        access'[EmailOf[slot'[q].who]] = "approved"
  BY <1>1 DEF GateInv, Running, Gated
<1>4. \A q \in Slots : Running(q, "sweep") => slot[q].who \in Accounts
  BY RequestTyped, TypeParts DEF SessionInv, Ops
<1>5. \A q \in Slots : Running(q, "sweep")' /\ slot'[q].word \in {"off", "deleted"} =>
        state'[slot'[q].who] # "absent"
  BY <1>1, <1>4 DEF GateInv, Running, Gated
<1> QED
  BY <1>2, <1>3, <1>5, GatedKeeps DEF GateInv

LEMMA GateKept == ASSUME SessionInv, GateInv, [Next]_vars PROVE GateInv'
<1>0. SlotsTyped /\ UsersTyped
  BY TypeParts DEF SessionInv
<1>1. ASSUME Gated, UNCHANGED slot PROVE GateInv'
  <2>1. \A q \in Slots : Running(q, "sweep") => slot[q].who \in Accounts
    BY <1>0, RequestTyped DEF Ops
  <2> QED
    BY <1>1, <2>1, GatedKeeps DEF GateInv, Running, Gated
<1>2. CASE UNCHANGED vars
  BY <1>1, <1>2 DEF vars, requests, users, Gated
<1>3. ASSUME Next PROVE GateInv'
  <2>1. Acting
    BY <1>3, StepKinds DEF SessionInv
  <2>2. CASE Outside
    BY <1>1, <2>2 DEF Outside, requests, users, Gated
  <2>3. CASE EarlyAccess
    <3>1. PICK e \in Emails, w \in {"none", "pending", "approved"} :
            access[e] \in {"none", "pending"} /\ access' = [access EXCEPT ![e] = w]
      BY <2>3 DEF EarlyAccess, requests, SubmitEarlyAccess, ReviewEarlyAccess
    <3>2. UNCHANGED << state, invited, slot, bootstrap >>
      BY <2>3 DEF EarlyAccess, requests, SubmitEarlyAccess, ReviewEarlyAccess, users
    <3>3. \A d \in Emails : \/ access'[d] = access[d]
                            \/ access[d] \in {"none", "pending"} /\ access'[d] # "consumed"
      BY <1>0, <3>1 DEF UsersTyped
    <3>4. \A a \in Accounts : EmailOf[a] \in Emails /\ (ByInvitation(a)' <=> ByInvitation(a))
      BY <3>2 DEF Emails, ByInvitation
    <3>5. InvitationSpent'
      BY <3>2, <3>3, <3>4 DEF GateInv, InvitationSpent
    <3>6. \A q \in Slots : Running(q, "register")' /\ slot'[q].word = "editor" /\ slot'[q].who \in Local =>
            access'[EmailOf[slot'[q].who]] = "approved"
      BY <3>2, <3>3, <3>4, AccountsAssumption DEF GateInv, Running
    <3> QED
      BY <3>2, <3>5, <3>6 DEF GateInv, Running
  <2>4. CASE SweepBegins
    <3>1. PICK s \in Slots, a \in Accounts, why \in Words("sweep") :
            /\ BeginSweep(s, a, why)
            /\ why \in {"off", "deleted"} => state[a] # "absent"
      BY <2>4 DEF SweepBegins
    <3>3. PICK r : r.op = "sweep" /\ r.who = a /\ r.word = why /\ slot' = [slot EXCEPT ![s] = r]
      BY <3>1 DEF BeginSweep, Admit, Request
    <3>2. Gated
      BY <2>4 DEF SweepBegins, BeginSweep, users, Gated
    <3> QED
      BY <3>1, <3>2, <3>3, GateRequest
  <2>5. CASE SignInBegins
    <3>0. PICK s \in Slots : \E r : r.op = "signin" /\ slot' = [slot EXCEPT ![s] = r]
      BY <2>5, StartFills DEF SignInBegins
    <3>1. PICK r : r.op = "signin" /\ slot' = [slot EXCEPT ![s] = r]
      BY <3>0
    <3>2. Gated
      BY <2>5 DEF SignInBegins, users, Gated
    <3> QED
      BY <3>1, <3>2, GateRequest
  <2>6. ASSUME NEW s \in Slots, CommitRegister(s) PROVE GateInv'
    <3>1. PICK a \in Accounts, given \in {"admin", "editor"} : a = slot[s].who /\ given = slot[s].word
      BY <1>0, <2>6, RequestTyped DEF CommitRegister, Ops, Words
    <3>2. /\ state[a] = "absent" /\ state' = [state EXCEPT ![a] = "active"]
          /\ access' = IF a \in Local /\ given = "editor" /\ access[EmailOf[a]] = "approved"
                       THEN [access EXCEPT ![EmailOf[a]] = "consumed"] ELSE access
          /\ bootstrap' = IF given = "admin" THEN bootstrap \cup {a} ELSE bootstrap
          /\ UNCHANGED invited
      BY <2>6, <3>1 DEF CommitRegister, CanAppear
    <3>3. a \in Local /\ given = "editor" => access[EmailOf[a]] = "approved"
      BY <2>6, <3>1 DEF GateInv, CommitRegister
    <3>4. InvitationSpent'
      <4>1. state'[a] = "active" /\ \A b \in Accounts \ {a} : state'[b] = state[b]
        BY <1>0, <3>2 DEF UsersTyped
      <4>2. \A b \in Accounts : ByInvitation(b)' =>
              ByInvitation(b) \/ (b = a /\ a \in Local /\ given = "editor")
        BY <3>2, <4>1 DEF ByInvitation
      <4>3. \A b \in Accounts : EmailOf[b] \in Emails
        BY DEF Emails
      <4>4. CASE a \in Local /\ given = "editor"
        <5>1. access[EmailOf[a]] = "approved" /\ access' = [access EXCEPT ![EmailOf[a]] = "consumed"]
          BY <3>2, <3>3, <4>4
        <5>2. \A e \in Emails : access'[e] = IF e = EmailOf[a] THEN "consumed" ELSE access[e]
          BY <1>0, <5>1 DEF UsersTyped
        <5>3. \A b \in Accounts : ByInvitation(b) => access[EmailOf[b]] = "consumed" /\ EmailOf[b] # EmailOf[a]
          BY <5>1 DEF GateInv, InvitationSpent
        <5>4. \A b, c \in Accounts :
                ByInvitation(b)' => /\ access'[EmailOf[b]] = "consumed"
                                    /\ ByInvitation(c)' /\ EmailOf[c] = EmailOf[b] => b = c
          BY <4>2, <4>3, <5>2, <5>3 DEF GateInv, InvitationSpent
        <5>5. \A e \in Emails : access'[e] = "consumed" =>
                \E b \in Local : EmailOf[b] = e /\ state'[b] # "absent"
          BY <4>1, <4>4, <5>2, AccountsAssumption DEF GateInv, InvitationSpent
        <5> QED
          BY <5>4, <5>5 DEF InvitationSpent
      <4>5. CASE ~(a \in Local /\ given = "editor")
        <5>1. access' = access /\ \A b \in Accounts : ByInvitation(b)' => ByInvitation(b)
          BY <3>2, <4>2, <4>5
        <5> QED
          BY <4>1, <5>1, AccountsAssumption DEF GateInv, InvitationSpent
      <4> QED
        BY <4>4, <4>5
    <3>6. \A q \in Slots : Running(q, "sweep") => slot[q].who \in Accounts
      BY <1>0, RequestTyped DEF Ops
    <3>7. \A q \in Slots : Running(q, "sweep")' =>
            Running(q, "sweep") /\ slot'[q] = slot[q] /\ state'[slot[q].who] \in {state[slot[q].who], "active"}
      <4>1. \A q \in Slots : q # s => slot'[q] = slot[q]
        BY <1>0, <2>6 DEF CommitRegister, SignInNext, Finish, SlotsTyped
      <4>2. slot'[s].op # "sweep"
        <5>1. Free.op = "free"
          BY DEF Free, Request
        <5>2. CASE SignInNext(s)
          BY <1>0, <5>2 DEF SignInNext, Request, SlotsTyped
        <5>3. CASE Finish(s)
          BY <1>0, <5>1, <5>3 DEF Finish, SlotsTyped
        <5> QED
          BY <2>6, <5>2, <5>3 DEF CommitRegister
      <4> QED
        BY <1>0, <3>2, <3>6, <4>1, <4>2 DEF Running, UsersTyped
    <3>5. \A q \in Slots : ~Running(q, "register")'
      <4>1. \A q \in Slots : q # s => ~Running(q, "register") /\ slot'[q] = slot[q]
        BY <1>0, <2>6 DEF CommitRegister, GateInv, SignInNext, Finish, SlotsTyped
      <4>2. slot'[s].op # "register"
        <5>1. Free.op = "free"
          BY DEF Free, Request
        <5>2. CASE SignInNext(s)
          BY <1>0, <5>2 DEF SignInNext, Request, SlotsTyped
        <5>3. CASE Finish(s)
          BY <1>0, <5>1, <5>3 DEF Finish, SlotsTyped
        <5> QED
          BY <2>6, <5>2, <5>3 DEF CommitRegister
      <4> QED
        BY <4>1, <4>2 DEF Running
    <3> QED
      BY <3>4, <3>5, <3>7 DEF GateInv
  <2>7. ASSUME NEW s \in Slots, \/ RegisterConflict(s) \/ CreateTokenPair(s)
                                \/ CommitRotate(s) \/ CommitSetRole(s)
        PROVE  GateInv'
    <3>1. slot' = [slot EXCEPT ![s] = Free] /\ Free.op = "free"
      BY <2>7 DEF RegisterConflict, CreateTokenPair, CommitRotate, CommitSetRole, Finish, Free, Request
    <3>2. Gated
      BY <2>7 DEF RegisterConflict, CreateTokenPair, CommitRotate, CommitSetRole, users, Gated
    <3> QED
      BY <3>1, <3>2, GateRequest
  <2>8. ASSUME NEW s \in Slots, CommitSweep(s) PROVE GateInv'
    <3>1. PICK r : r.op \in {"free", "signin"} /\ slot' = [slot EXCEPT ![s] = r]
      <4>1. Free.op = "free" /\ Request("signin", slot[s].who, 0, "other", {}).op = "signin"
        BY DEF Free, Request
      <4>2. SignInNext(s) \/ Finish(s)
        BY <2>8 DEF CommitSweep
      <4> QED
        BY <4>1, <4>2 DEF SignInNext, Finish
    <3>2. PICK a \in Accounts : a = slot[s].who
      BY <1>0, <2>8, RequestTyped DEF CommitSweep, Ops
    <3>3. state' = state \/ \E w \in {"off", "deleted"} : state' = [state EXCEPT ![a] = w]
      BY <2>8, <3>2 DEF CommitSweep, AfterSweep
    <3>4. slot[s].word \in {"off", "deleted"} => state[a] # "absent"
      BY <2>8, <3>2 DEF GateInv, CommitSweep
    <3>5. state' # state => slot[s].word \in {"off", "deleted"}
      BY <2>8 DEF CommitSweep, AfterSweep
    <3>6. Gated
      BY <1>0, <2>8, <3>3, <3>4, <3>5 DEF CommitSweep, Gated, UsersTyped
    <3> QED
      BY <3>1, <3>6, GateRequest
  <2>9. ASSUME NEW s \in Slots, NEW a \in Accounts, AcceptInvite(s, a) PROVE GateInv'
    <3>1. PICK r : r.op = "signin" /\ slot' = [slot EXCEPT ![s] = r]
      BY <2>9 DEF AcceptInvite, Start, Admit, Request
    <3>2. Gated
      BY <1>0, <2>9 DEF AcceptInvite, InviteOpen, Gated, UsersTyped
    <3> QED
      BY <3>1, <3>2, GateRequest
  <2>10. ASSUME NEW s \in Slots, NEW t \in DOMAIN tokens, BeginRotate(s, t) PROVE GateInv'
    <3>1. PICK r : r.op = "rotate" /\ slot' = [slot EXCEPT ![s] = r]
      BY <2>10 DEF BeginRotate, Start, Admit, Request
    <3>2. Gated
      BY <2>10 DEF BeginRotate, users, Gated
    <3> QED
      BY <3>1, <3>2, GateRequest
  <2>11. ASSUME NEW s \in Slots, NEW a \in Accounts, BeginRegister(s, a) PROVE GateInv'
    <3>1. PICK r : /\ r.op = "register" /\ r.who = a /\ r.word = SafeRole
                   /\ slot' = [slot EXCEPT ![s] = r]
      BY <2>11 DEF BeginRegister, Start, Admit, Request
    <3>2. Gated
      BY <2>11 DEF BeginRegister, users, Gated
    <3>3. (\A q \in Slots \ {s} : ~Running(q, "register"))
            /\ (a \in Local /\ SafeRole = "editor" => access[EmailOf[a]] = "approved")
      BY <2>11 DEF BeginRegister, RoleLock, InvitationUsable
    <3> QED
      BY <3>1, <3>2, <3>3, GateRequest
  <2>12. ASSUME NEW s \in Slots, NEW actor \in Accounts, NEW a \in Accounts,
                NEW given \in {"admin", "editor"}, BeginSetRole(s, actor, a, given)
         PROVE  GateInv'
    <3>1. PICK r : r.op = "role" /\ slot' = [slot EXCEPT ![s] = r]
      BY <2>12 DEF BeginSetRole, Start, Admit, Request
    <3>2. Gated
      BY <2>12 DEF BeginSetRole, users, Gated
    <3> QED
      BY <3>1, <3>2, GateRequest
  <2>13. ASSUME NEW a \in Accounts, InviteMember(a) \/ \E actor \in Accounts : Activate(actor, a)
         PROVE  GateInv'
    <3>1. Gated /\ UNCHANGED slot
      BY <1>0, <2>13 DEF InviteMember, CanAppear, requests, Activate, Manages, ListUsers, Gated, UsersTyped
    <3> QED
      BY <1>1, <3>1
  <2>14. ASSUME NEW t \in DOMAIN tokens, RevokeOne(t) PROVE GateInv'
    BY <1>1, <2>14 DEF RevokeOne, requests, users, Gated
  <2> QED
    BY <2>1, <2>2, <2>3, <2>4, <2>5, <2>6, <2>7, <2>8, <2>9, <2>10, <2>11, <2>12, <2>13, <2>14
       DEF Acting, Proceed
<1> QED
  BY <1>2, <1>3

\* Whoever registered with a password spent the approved invitation of the
\* address, which buys no second account when the first is deleted, and what is
\* spent bought an account.
THEOREM InvitationsBuyAccounts == Spec => []InvitationBuysOneAccount
<1>1. GateInv => InvitationBuysOneAccount
  BY SpentShows DEF GateInv
<1> QED
  BY <1>1, GateInitially, GateKept, SessionInvariance, PTL DEF Spec

-----------------------------------------------------------------------------
(***************************************************************************)
(* The first admin.                                                        *)
(***************************************************************************)
\* Whoever takes an admin away leaves another one; nobody is active before the
\* first admin is, and from then on there is always one.
AdminOrder ==
  /\ \A s, r \in Slots : Takes(slot[s]) /\ Takes(slot[r]) => slot[s].who = slot[r].who
  /\ \A s \in Slots : Takes(slot[s]) => \E b \in Admins : b # slot[s].who
  /\ \A s \in Slots : Running(s, "register") =>
        /\ slot[s].word = "admin" => bootstrap = {}
        /\ slot[s].word = "editor" => bootstrap # {}
  /\ bootstrap # {} => Admins # {}
  /\ (\E a \in Accounts : Active(a)) \/ invited # {} => bootstrap # {}
  /\ \A a, b \in bootstrap : a = b

\* Until two that take an admin away overlap.
AdminInv == ~crossed => AdminOrder

LEMMA FreeTakesNone == ~Takes(Free)
  BY DEF Free, Request, Takes

LEMMA AdminInitially == Init => AdminInv
<1> SUFFICES ASSUME Init PROVE AdminOrder
  BY DEF AdminInv
<1>1. \A s \in Slots : ~Takes(slot[s]) /\ ~Running(s, "register")
  BY FreeTakesNone, FreeIdles DEF Init, Running
<1>2. bootstrap = {} /\ invited = {} /\ \A a \in Accounts : ~Active(a)
  BY DEF Init, Active
<1> QED
  BY <1>1, <1>2 DEF AdminOrder

\* No admin goes, and nobody appears before the first one.
Rising == /\ Admins \subseteq Admins' /\ bootstrap' = bootstrap
          /\ (\E a \in Accounts : Active(a)') \/ invited' # {} => bootstrap # {}

LEMMA RisingKept == ASSUME AdminOrder, Rising, UNCHANGED slot PROVE AdminOrder'
  BY DEF AdminOrder, Rising, Running, Takes

LEMMA AdminRequest ==
  ASSUME SlotsTyped, AdminOrder, Rising, NEW s \in Slots, NEW r, slot' = [slot EXCEPT ![s] = r],
         Takes(r) => /\ \E b \in Admins : b # r.who
                     /\ \A q \in Slots \ {s} : Takes(slot[q]) => slot[q].who = r.who,
         r.op = "register" => /\ r.word = "admin" => bootstrap = {}
                              /\ r.word = "editor" => bootstrap # {}
  PROVE  AdminOrder'
<1>1. slot'[s] = r /\ \A q \in Slots : q # s => slot'[q] = slot[q]
  BY DEF SlotsTyped
<1>2. ASSUME NEW p \in Slots, NEW q \in Slots, Takes(slot'[p]), Takes(slot'[q])
      PROVE  slot'[p].who = slot'[q].who
  <2>1. CASE p = s /\ q = s
    BY <2>1
  <2>2. CASE p = s /\ q # s
    BY <1>1, <1>2, <2>2
  <2>3. CASE p # s /\ q = s
    BY <1>1, <1>2, <2>3
  <2>4. CASE p # s /\ q # s
    BY <1>1, <1>2, <2>4 DEF AdminOrder
  <2> QED
    BY <2>1, <2>2, <2>3, <2>4
<1>3. \A q \in Slots : Takes(slot'[q]) => \E b \in Admins' : b # slot'[q].who
  BY <1>1 DEF AdminOrder, Rising
<1>4. \A q \in Slots : Running(q, "register")' =>
        /\ slot'[q].word = "admin" => bootstrap' = {}
        /\ slot'[q].word = "editor" => bootstrap' # {}
  BY <1>1 DEF AdminOrder, Rising, Running
<1> QED
  BY <1>2, <1>3, <1>4 DEF AdminOrder, Rising, Takes

\* A request that starts without crossing another.
LEMMA AdminAdmit ==
  ASSUME SlotsTyped, AdminOrder, Rising, ~crossed', NEW s \in Slots, NEW r, Admit(s, r),
         Takes(r) => \E b \in Admins : b # r.who,
         r.op = "register" => /\ r.word = "admin" => bootstrap = {}
                              /\ r.word = "editor" => bootstrap # {}
  PROVE  AdminOrder'
<1>1. slot' = [slot EXCEPT ![s] = r]
  BY DEF Admit
<1>2. Takes(r) => \A q \in Slots : Takes(slot[q]) => slot[q].who = r.who
  BY DEF Admit
<1> QED
  BY <1>1, <1>2, AdminRequest

LEMMA AdminStart ==
  ASSUME SlotsTyped, AdminOrder, Rising, ~crossed', NEW s \in Slots, NEW op, NEW a, NEW row, NEW word,
         Start(s, op, a, row, word), op # "sweep",
         op = "role" => \E b \in Admins : b # a,
         op = "register" => /\ word = "admin" => bootstrap = {}
                            /\ word = "editor" => bootstrap # {}
  PROVE  AdminOrder'
<1>1. PICK r : r.op = op /\ r.who = a /\ r.word = word /\ Admit(s, r)
  BY StartFills
<1>2. Takes(r) => \E b \in Admins : b # r.who
  BY <1>1 DEF Takes
<1> QED
  BY <1>1, <1>2, AdminAdmit

\* The commit of a sweep or of a new role leaves the admin it may take away
\* out, and nobody else.
LEMMA AdminCommit ==
  ASSUME SessionInv, AdminOrder, NEW s \in Slots, CommitSweep(s) \/ CommitSetRole(s)
  PROVE  AdminOrder'
<1>0. SlotsTyped /\ UsersTyped
  BY TypeParts DEF SessionInv
<1>1. PICK a \in Accounts : a = slot[s].who
  BY <1>0, RequestTyped DEF CommitSweep, CommitSetRole, Ops
<1>2. UNCHANGED << invited, bootstrap >>
  BY DEF CommitSweep, CommitSetRole
<1>3. \A q \in Slots : q # s => slot'[q] = slot[q]
  BY <1>0 DEF CommitSweep, CommitSetRole, SignInNext, Finish, SlotsTyped
<1>4. slot'[s].op \in {"free", "signin"} /\ ~Takes(slot'[s])
  <2>1. slot'[s] = Free \/ slot'[s] = Request("signin", slot[s].who, 0, "other", {})
    BY <1>0 DEF CommitSweep, CommitSetRole, SignInNext, Finish, SlotsTyped
  <2>2. Free.op = "free" /\ Request("signin", slot[s].who, 0, "other", {}).op = "signin"
    BY DEF Free, Request
  <2> QED
    BY <2>1, <2>2 DEF Takes
<1>5. \A b \in Admins : b # a => b \in Admins'
  BY <1>0, <1>1 DEF CommitSweep, CommitSetRole, AfterSweep, UsersTyped, Admins, Active
<1>6. ~Takes(slot[s]) => Admins \subseteq Admins'
  <2>1. CASE CommitSweep(s)
    BY <1>0, <1>1, <2>1 DEF CommitSweep, AfterSweep, UsersTyped, Admins, Active, Takes, Running
  <2>2. CASE CommitSetRole(s)
    BY <1>0, <1>1, <2>2 DEF CommitSetRole, UsersTyped, Admins, Active, Takes, Running
  <2> QED
    BY <2>1, <2>2
<1>7. \A q \in Slots : Takes(slot'[q]) => \E b \in Admins' : b # slot'[q].who
  <2>1. ASSUME NEW q \in Slots, Takes(slot'[q]) PROVE \E b \in Admins' : b # slot'[q].who
    <3>1. q # s /\ slot'[q] = slot[q]
      BY <1>3, <1>4, <2>1
    <3>2. PICK b \in Admins : b # slot[q].who
      BY <2>1, <3>1 DEF AdminOrder
    <3>3. b # a \/ ~Takes(slot[s])
      BY <1>1, <2>1, <3>1, <3>2 DEF AdminOrder
    <3> QED
      BY <1>5, <1>6, <3>1, <3>2, <3>3
  <2> QED
    BY <2>1
<1>8. bootstrap # {} => Admins' # {}
  BY <1>1, <1>5, <1>6 DEF AdminOrder
<1>9. \A b \in Accounts : Active(b)' => Active(b)
  BY <1>0, <1>1 DEF CommitSweep, CommitSetRole, AfterSweep, UsersTyped, Active
<1>10. \A p, q \in Slots : Takes(slot'[p]) /\ Takes(slot'[q]) => slot'[p].who = slot'[q].who
  BY <1>3, <1>4 DEF AdminOrder
<1>11. \A q \in Slots : Running(q, "register")' =>
         /\ slot'[q].word = "admin" => bootstrap' = {}
         /\ slot'[q].word = "editor" => bootstrap' # {}
  BY <1>2, <1>3, <1>4 DEF AdminOrder, Running
<1> QED
  BY <1>2, <1>7, <1>8, <1>9, <1>10, <1>11 DEF AdminOrder, Takes

\* The registrations, that make the first admin.
LEMMA AdminRegister ==
  ASSUME SessionInv, GateInv, AdminOrder, NEW s \in Slots, CommitRegister(s) PROVE AdminOrder'
<1>0. SlotsTyped /\ UsersTyped
  BY TypeParts DEF SessionInv
<1>1. PICK a \in Accounts, given \in {"admin", "editor"} : a = slot[s].who /\ given = slot[s].word
  BY <1>0, RequestTyped DEF CommitRegister, Ops, Words
<1>2. /\ state[a] = "absent" /\ state' = [state EXCEPT ![a] = "active"]
      /\ role' = [role EXCEPT ![a] = given]
      /\ bootstrap' = IF given = "admin" THEN bootstrap \cup {a} ELSE bootstrap
  BY <1>1 DEF CommitRegister, CanAppear
<1>3. (given = "admin" => bootstrap = {}) /\ (given = "editor" => bootstrap # {})
  BY <1>1 DEF CommitRegister, AdminOrder
<1>4. \A q \in Slots : q # s => slot'[q] = slot[q]
  BY <1>0 DEF CommitRegister, SignInNext, Finish, SlotsTyped
<1>5. slot'[s].op \in {"free", "signin"} /\ ~Takes(slot'[s])
  <2>1. slot'[s] = Free \/ slot'[s] = Request("signin", slot[s].who, 0, "other", {})
    BY <1>0 DEF CommitRegister, SignInNext, Finish, SlotsTyped
  <2>2. Free.op = "free" /\ Request("signin", slot[s].who, 0, "other", {}).op = "signin"
    BY DEF Free, Request
  <2> QED
    BY <2>1, <2>2 DEF Takes
<1>6. Admins \subseteq Admins' /\ (given = "admin" => a \in Admins')
  BY <1>0, <1>2 DEF Admins, Active, UsersTyped
<1>7. bootstrap' # {} /\ Admins' # {}
  BY <1>2, <1>3, <1>6 DEF AdminOrder
<1>8. \A b, c \in bootstrap' : b = c
  BY <1>2, <1>3 DEF AdminOrder
<1>9. \A q \in Slots : Takes(slot'[q]) => Takes(slot[q]) /\ slot'[q] = slot[q]
  BY <1>4, <1>5
<1>10. \A q \in Slots : Takes(slot'[q]) => \E b \in Admins' : b # slot'[q].who
  BY <1>6, <1>9 DEF AdminOrder
<1>11. \A p, q \in Slots : Takes(slot'[p]) /\ Takes(slot'[q]) => slot'[p].who = slot'[q].who
  BY <1>9 DEF AdminOrder
<1>12. \A q \in Slots : ~Running(q, "register")'
  BY <1>4, <1>5 DEF GateInv, CommitRegister, Running
<1> QED
  BY <1>7, <1>8, <1>10, <1>11, <1>12 DEF AdminOrder, Takes

LEMMA AdminKept ==
  ASSUME SessionInv, GateInv, AdminInv, [Next]_vars PROVE AdminInv'
<1>0. SlotsTyped /\ UsersTyped
  BY TypeParts DEF SessionInv
<1> SUFFICES ASSUME ~crossed' PROVE AdminOrder'
  BY DEF AdminInv
<1>1. CASE UNCHANGED vars
  <2>1. AdminOrder
    BY <1>1 DEF AdminInv, vars, requests
  <2> QED
    BY <1>1, <2>1 DEF vars, users, requests, AdminOrder, Admins, Active, Running, Takes
<1>2. ASSUME Next PROVE AdminOrder'
  <2>1. Acting
    BY <1>2, StepKinds DEF SessionInv
  <2>2. crossed => crossed'
    <3>1. \A s \in Slots : \A r : Admit(s, r) => (crossed => crossed')
      BY DEF Admit
    <3>2. CASE SweepBegins \/ SignInBegins
      BY <3>1, <3>2 DEF SweepBegins, BeginSweep, SignInBegins, Start
    <3>3. CASE \E s \in Slots : Proceed(s)
      BY <3>3 DEF Proceed, CommitRegister, RegisterConflict, CreateTokenPair, CommitRotate,
         CommitSweep, CommitSetRole, SignInNext, Finish
    <3>4. CASE \/ \E s \in Slots, a \in Accounts : BeginRegister(s, a) \/ AcceptInvite(s, a)
               \/ \E s \in Slots, actor, a \in Accounts, given \in {"admin", "editor"} :
                     BeginSetRole(s, actor, a, given)
               \/ \E s \in Slots : \E t \in DOMAIN tokens : BeginRotate(s, t)
      BY <3>1, <3>4 DEF BeginRegister, AcceptInvite, BeginSetRole, BeginRotate, Start
    <3>5. CASE \/ Outside \/ EarlyAccess
               \/ \E actor, a \in Accounts : Activate(actor, a)
               \/ \E a \in Accounts : InviteMember(a)
               \/ \E t \in DOMAIN tokens : RevokeOne(t)
      BY <3>5 DEF Outside, EarlyAccess, SubmitEarlyAccess, ReviewEarlyAccess, Activate,
         InviteMember, RevokeOne, requests
    <3> QED
      BY <2>1, <3>2, <3>3, <3>4, <3>5 DEF Acting
  <2>3. AdminOrder
    BY <2>2 DEF AdminInv
  <2>4. ASSUME UNCHANGED << users, bootstrap >> PROVE Rising
    BY <2>3, <2>4 DEF users, Rising, Admins, Active, AdminOrder
  <2>5. CASE Outside \/ EarlyAccess \/ \E t \in DOMAIN tokens : RevokeOne(t)
    BY <2>3, <2>4, <2>5, RisingKept
       DEF Outside, EarlyAccess, SubmitEarlyAccess, ReviewEarlyAccess, RevokeOne, requests
  <2>6. CASE SweepBegins
    <3>1. PICK s \in Slots, a \in Accounts, why \in Words("sweep") :
            /\ BeginSweep(s, a, why)
            /\ why \in {"off", "deleted"} => \E b \in Admins : b # a
      BY <2>6 DEF SweepBegins
    <3>2. PICK r : r.op = "sweep" /\ r.who = a /\ r.word = why /\ Admit(s, r)
      BY <3>1 DEF BeginSweep, Request
    <3>3. Rising
      BY <2>4, <3>1 DEF BeginSweep
    <3>4. Takes(r) => \E b \in Admins : b # r.who
      BY <3>1, <3>2 DEF Takes
    <3> QED
      BY <1>0, <2>3, <3>2, <3>3, <3>4, AdminAdmit
  <2>7. CASE SignInBegins
    <3>1. PICK s \in Slots, a \in Accounts, row \in Nat, word \in Words("signin") :
            Start(s, "signin", a, row, word) /\ UNCHANGED << users, bootstrap >>
      BY <2>7 DEF SignInBegins
    <3> QED
      BY <1>0, <2>3, <2>4, <3>1, AdminStart
  <2>8. ASSUME NEW s \in Slots, NEW a \in Accounts, AcceptInvite(s, a) PROVE AdminOrder'
    <3>1. a \in invited /\ state' = [state EXCEPT ![a] = "active"] /\ UNCHANGED << role, invited, bootstrap >>
      BY <2>8 DEF AcceptInvite, InviteOpen
    <3>2. Rising
      BY <1>0, <2>3, <3>1 DEF AdminOrder, Rising, Admins, Active, UsersTyped
    <3> QED
      BY <1>0, <2>3, <2>8, <3>2, AdminStart DEF AcceptInvite
  <2>9. ASSUME NEW s \in Slots, NEW a \in Accounts, BeginRegister(s, a) PROVE AdminOrder'
    <3>1. Start(s, "register", a, 0, SafeRole) /\ Rising
      BY <2>4, <2>9 DEF BeginRegister
    <3>2. /\ SafeRole = "admin" => bootstrap = {}
          /\ SafeRole = "editor" => bootstrap # {}
      BY <2>3 DEF SafeRole, AdminOrder, Admins
    <3> QED
      BY <1>0, <2>3, <3>1, <3>2, AdminStart
  <2>10. ASSUME NEW s \in Slots, NEW actor \in Accounts, NEW a \in Accounts,
                NEW given \in {"admin", "editor"}, BeginSetRole(s, actor, a, given)
         PROVE  AdminOrder'
    <3>1. Start(s, "role", a, 0, given) /\ Rising /\ actor \in Admins /\ actor # a
      BY <2>4, <2>10 DEF BeginSetRole, Manages
    <3> QED
      BY <1>0, <2>3, <3>1, AdminStart
  <2>11. ASSUME NEW s \in Slots, NEW t \in DOMAIN tokens, BeginRotate(s, t) PROVE AdminOrder'
    <3>1. Start(s, "rotate", tokens[t].owner, t, "") /\ Rising
      BY <2>4, <2>11 DEF BeginRotate
    <3> QED
      BY <1>0, <2>3, <3>1, AdminStart
  <2>12. ASSUME NEW s \in Slots, RegisterConflict(s) \/ CreateTokenPair(s) \/ CommitRotate(s)
         PROVE  AdminOrder'
    <3>1. slot' = [slot EXCEPT ![s] = Free]
      BY <2>12 DEF RegisterConflict, CreateTokenPair, CommitRotate, Finish
    <3>2. Rising
      BY <2>4, <2>12 DEF RegisterConflict, CreateTokenPair, CommitRotate
    <3> QED
      BY <1>0, <2>3, <3>1, <3>2, AdminRequest, FreeIdles, FreeTakesNone
  <2>13. ASSUME NEW a \in Accounts, InviteMember(a) \/ \E actor \in Accounts : Activate(actor, a)
         PROVE  AdminOrder'
    <3>1. bootstrap # {}
      BY <2>3, <2>13 DEF InviteMember, Activate, Manages, SignedIn, AdminOrder, Admins
    <3>2. Rising /\ UNCHANGED slot
      BY <1>0, <2>13, <3>1 DEF InviteMember, CanAppear, Activate, requests, Rising, Admins, Active, UsersTyped
    <3> QED
      BY <2>3, <3>2, RisingKept
  <2> QED
    BY <2>1, <2>3, <2>5, <2>6, <2>7, <2>8, <2>9, <2>10, <2>11, <2>12, <2>13, AdminCommit, AdminRegister
       DEF Acting, Proceed
<1> QED
  BY <1>1, <1>2

\* Nobody else becomes admin because nobody was active, unless two that take an
\* admin away have overlapped.
THEOREM BootstrapHappensOnce == Spec => []BootstrapOnce
<1>1. AdminInv => BootstrapOnce
  <2> SUFFICES ASSUME AdminOrder PROVE Cardinality(bootstrap) <= 1
    BY DEF AdminInv, BootstrapOnce
  <2>1. CASE bootstrap = {}
    BY <2>1, FS_EmptySet
  <2>2. CASE bootstrap # {}
    <3>1. PICK a \in bootstrap : TRUE
      BY <2>2
    <3>2. bootstrap = {a}
      BY <3>1 DEF AdminOrder
    <3>3. Cardinality(bootstrap) = 1
      BY <3>2, FS_Singleton
    <3> QED
      BY <3>3
  <2> QED
    BY <2>1, <2>2
<1>2. SessionInv /\ GateInv /\ AdminInv /\ [Next]_vars => AdminInv'
  BY AdminKept
<1> QED
  BY <1>1, <1>2, AdminInitially, GateInitially, GateKept, SessionInvariance, PTL DEF Spec
=============================================================================
