---------------------------- MODULE TenancyProofs ----------------------------
(***************************************************************************)
(* What holds of every run of Tenancy: for any users, clients, memberships,*)
(* workers and pools, whatever fails and however often.                    *)
(***************************************************************************)
EXTENDS Tenancy, FiniteSetTheorems, TLAPS

ConnRow == [by : Workers \cup {NoWorker}, guc : Contexts, base : Contexts,
            cache : Contexts, dirty : BOOLEAN]
ChangeRow == [op : {"none", "add", "remove", "update", "onboard"}, user : Users \cup {NoUser},
              client : Clients \cup {NoClient}, grant : Memberships]
Stages == {"idle", "handle", "commit", "reread", "audit", "document", "scoped"}
DoingRow == [at : Stages, ctx : Contexts, left : Contexts, role : Roles \cup {"none"},
             home : Clients \cup {NoClient}, todo : ChangeRow]

-----------------------------------------------------------------------------
(***************************************************************************)
(* The pool.                                                               *)
(***************************************************************************)
Clean(c) == c.guc = Blank /\ c.base = Blank /\ c.cache = Blank

\* A connection in a transaction under ctx: what the listener believes to be set
\* is set; without a context, or as long as it is not dirty, nothing is.
Settled(c, ctx) ==
  /\ c \in ConnRow
  /\ c.dirty \/ Clean(c)
  /\ c.cache = Blank \/ c.guc = c.cache
  /\ ctx = Blank => Clean(c)

PoolInv ==
  /\ conns \in [Conns -> ConnRow]
  /\ work \in [Workers -> DoingRow]
  /\ \A w \in Workers : work[w].at = "idle" => Holding(w) = {}
  /\ \A k, l \in Conns : conns[k].by = conns[l].by /\ conns[k].by # NoWorker => k = l
  /\ PooledIsBlank
  /\ \A k \in Conns, w \in Workers : conns[k].by = w => Settled(conns[k], work[w].ctx)
  /\ \A k \in Conns, w \in Workers :
       conns[k].by = w /\ work[w].at = "commit" => conns[k].guc = work[w].ctx

LEMMA BlankTyped == Blank \in Contexts /\ NoChange \in ChangeRow /\ Nobody \in Memberships
  BY DEF Blank, Context, Contexts, NoChange, Change, ChangeRow, Memberships

LEMMA RowsTyped == Fresh \in ConnRow /\ Idle \in DoingRow /\ Fresh.by = NoWorker
  BY BlankTyped DEF Fresh, Conn, ConnRow, Idle, Doing, DoingRow, Stages

LEMMA PoolInitially == Init => PoolInv
<1> SUFFICES ASSUME Init PROVE PoolInv
  OBVIOUS
<1>1. conns = [k \in Conns |-> Fresh] /\ work = [w \in Workers |-> Idle]
  BY DEF Init
<1> QED
  BY <1>1, RowsTyped, TenancyAssumption DEF PoolInv, PooledIsBlank, Holding

\* One worker and the one connection it may hold change: it goes on with the
\* connection, or gives it back.
LEMMA PoolStep ==
  ASSUME PoolInv, NEW w \in Workers, NEW k \in Conns, NEW c, NEW d \in DoingRow,
         conns' = [conns EXCEPT ![k] = c], work' = [work EXCEPT ![w] = d],
         conns[k].by \in {w, NoWorker}, Holding(w) \subseteq {k},
         \/ c = Fresh
         \/ /\ c.by = w /\ Settled(c, d.ctx) /\ d.at # "idle"
            /\ d.at = "commit" => c.guc = d.ctx
  PROVE  PoolInv'
<1>0. Fresh \in ConnRow /\ Fresh.by = NoWorker /\ NoWorker \notin Workers
  BY RowsTyped, TenancyAssumption
<1>1. c \in ConnRow /\ c.by \in {w, NoWorker}
  BY <1>0 DEF Settled
<1>2. conns'[k] = c /\ \A l \in Conns : l # k => conns'[l] = conns[l]
  BY DEF PoolInv
<1>3. work'[w] = d /\ \A v \in Workers : v # w => work'[v] = work[v]
  BY DEF PoolInv
<1>4. conns' \in [Conns -> ConnRow] /\ work' \in [Workers -> DoingRow]
  BY <1>1 DEF PoolInv
<1>5. \A l \in Conns : l # k => conns[l].by # w
  BY DEF Holding
<1>6. \A v \in Workers : work'[v].at = "idle" => Holding(v)' = {}
  <2>1. ASSUME NEW v \in Workers, v # w, work'[v].at = "idle" PROVE Holding(v)' = {}
    <3>1. Holding(v) = {}
      BY <1>3, <2>1 DEF PoolInv
    <3> QED
      BY <1>0, <1>1, <1>2, <2>1, <3>1 DEF Holding
  <2>2. ASSUME work'[w].at = "idle" PROVE Holding(w)' = {}
    BY <1>0, <1>2, <1>3, <1>5, <2>2 DEF Holding
  <2> QED
    BY <2>1, <2>2
<1>7. \A l, m \in Conns : conns'[l].by = conns'[m].by /\ conns'[l].by # NoWorker => l = m
  BY <1>0, <1>1, <1>2, <1>5 DEF PoolInv
<1>8. PooledIsBlank'
  BY <1>0, <1>2 DEF PoolInv, PooledIsBlank
<1>9. \A l \in Conns, v \in Workers : conns'[l].by = v => Settled(conns'[l], work'[v].ctx)
  BY <1>0, <1>2, <1>3, <1>5 DEF PoolInv
<1>10. \A l \in Conns, v \in Workers :
         conns'[l].by = v /\ work'[v].at = "commit" => conns'[l].guc = work'[v].ctx
  BY <1>0, <1>2, <1>3, <1>5 DEF PoolInv
<1>11. \A l \in Conns, v \in Workers : Settled(conns'[l], work'[v].ctx) => Settled(conns[l], work[v].ctx)'
  BY DEF Settled, Clean
<1> QED
  BY <1>4, <1>6, <1>7, <1>8, <1>9, <1>10, <1>11 DEF PoolInv

\* A worker that gives back what it holds, if it holds anything.
LEMMA PoolReleases ==
  ASSUME PoolInv, NEW w \in Workers, NEW d \in DoingRow, work' = [work EXCEPT ![w] = d],
         conns' = [k \in Conns |-> IF conns[k].by = w THEN Fresh ELSE conns[k]]
  PROVE  PoolInv'
<1>0. Fresh \in ConnRow /\ Fresh.by = NoWorker /\ NoWorker \notin Workers
  BY RowsTyped, TenancyAssumption
<1>1. \A k \in Conns : /\ conns[k].by = w => conns'[k] = Fresh
                       /\ conns[k].by # w => conns'[k] = conns[k]
  OBVIOUS
<1>2. \A v \in Workers : v # w => work'[v] = work[v]
  BY DEF PoolInv
<1>3. conns' \in [Conns -> ConnRow] /\ work' \in [Workers -> DoingRow]
  BY <1>0 DEF PoolInv
<1>4. \A k \in Conns : conns'[k].by # w
  BY <1>0, <1>1
<1>5. \A v \in Workers : work'[v].at = "idle" => Holding(v)' = {}
  BY <1>0, <1>1, <1>2, <1>4 DEF PoolInv, Holding
<1>6. \A l, m \in Conns : conns'[l].by = conns'[m].by /\ conns'[l].by # NoWorker => l = m
  BY <1>0, <1>1 DEF PoolInv
<1>7. PooledIsBlank'
  BY <1>0, <1>1 DEF PoolInv, PooledIsBlank
<1>8. \A l \in Conns, v \in Workers : conns'[l].by = v => Settled(conns'[l], work'[v].ctx)
  BY <1>0, <1>1, <1>2, <1>4 DEF PoolInv
<1>9. \A l \in Conns, v \in Workers :
         conns'[l].by = v /\ work'[v].at = "commit" => conns'[l].guc = work'[v].ctx
  BY <1>0, <1>1, <1>2, <1>4 DEF PoolInv
<1>10. \A l \in Conns, v \in Workers : Settled(conns'[l], work'[v].ctx) => Settled(conns[l], work[v].ctx)'
  BY DEF Settled, Clean
<1> QED
  BY <1>3, <1>5, <1>6, <1>7, <1>8, <1>9, <1>10 DEF PoolInv

LEMMA PoolSame ==
  ASSUME PoolInv, UNCHANGED << conns, work >>
  PROVE  PoolInv'
  BY DEF PoolInv, PooledIsBlank, Clean, Settled, Holding

\* The end of a transaction leaves nothing on the connection.
LEMMA EndsBlank ==
  ASSUME NEW c, NEW ctx, Settled(c, ctx)
  PROVE  AfterCommit(c) = Fresh /\ AfterRollback(c) = Fresh
<1>1. CASE c.dirty
  BY <1>1 DEF AfterCommit, AfterRollback, Checkin, Committed, RolledBack, Conn
<1>2. CASE ~c.dirty
  <2>1. Clean(c) /\ c.dirty = FALSE
    BY <1>2 DEF Settled, ConnRow
  <2> QED
    BY <2>1 DEF AfterCommit, AfterRollback, Checkin, Committed, RolledBack, Conn, Clean, Fresh
<1> QED
  BY <1>1, <1>2

LEMMA ClosedReleases ==
  ASSUME PoolInv, NEW w \in Workers
  PROVE  Closed(w) = [k \in Conns |-> IF conns[k].by = w THEN Fresh ELSE conns[k]]
<1>1. \A k \in Conns : conns[k].by = w => AfterRollback(conns[k]) = Fresh
  BY EndsBlank DEF PoolInv
<1> QED
  BY <1>1 DEF Closed

\* The connection of w's next statement, before the listener sees it.
LEMMA UsableSettled ==
  ASSUME PoolInv, NEW w \in Workers, NEW k \in Usable(w)
  PROVE  /\ k \in Conns /\ conns[k].by \in {w, NoWorker} /\ Holding(w) \subseteq {k}
         /\ TakenBy(k, w).by = w /\ Settled(TakenBy(k, w), work[w].ctx)
<1>0. NoWorker \notin Workers
  BY TenancyAssumption
<1>1. k \in Conns /\ conns[k] \in ConnRow
  BY DEF Usable, Holding, FreeIn, Conns, PoolInv
<1>2. CASE Holding(w) # {}
  <2>1. conns[k].by = w
    BY <1>2 DEF Usable, Holding
  <2>2. Holding(w) \subseteq {k}
    BY <1>0, <1>1, <2>1 DEF PoolInv, Holding
  <2>3. TakenBy(k, w) = conns[k]
    BY <1>1, <2>1 DEF TakenBy, Conn, ConnRow
  <2> QED
    BY <1>1, <2>1, <2>2, <2>3 DEF PoolInv
<1>3. CASE Holding(w) = {}
  <2>1. conns[k].by = NoWorker
    BY <1>3 DEF Usable, FreeIn
  <2>2. conns[k] = Fresh
    BY <1>1, <2>1 DEF PoolInv, PooledIsBlank
  <2>3. TakenBy(k, w) = Conn(w, Blank, Blank, Blank, FALSE)
    BY <2>2 DEF TakenBy, Fresh, Conn
  <2>4. TakenBy(k, w).by = w /\ Settled(TakenBy(k, w), work[w].ctx)
    BY <2>3, BlankTyped DEF Conn, ConnRow, Settled, Clean
  <2> QED
    BY <1>1, <1>3, <2>1, <2>4
<1> QED
  BY <1>2, <1>3

LEMMA HoldingUsable ==
  ASSUME NEW w, NEW k \in Holding(w)
  PROVE  k \in Usable(w) /\ k \in Conns /\ conns[k].by = w
  BY DEF Holding, Usable

LEMMA FreeUsable ==
  ASSUME PoolInv, NEW w \in Workers, work[w].at = "idle",
         NEW k \in FreeIn(IF w \in Tasks THEN SyncPool ELSE AsyncPool)
  PROVE  k \in Usable(w)
  BY DEF PoolInv, Usable

\* The listener: from a settled connection to one that carries ctx.
LEMMA SetTenantSettles ==
  ASSUME NEW c, NEW old, Settled(c, old), NEW ctx \in Contexts, ctx = Blank => Clean(c)
  PROVE  /\ Settled(SetTenant(c, ctx), ctx)
         /\ SetTenant(c, ctx).guc = ctx /\ SetTenant(c, ctx).by = c.by
<1>1. CASE ctx = Blank
  BY <1>1 DEF SetTenant, Settled, Clean
<1>2. CASE ctx # Blank /\ c.cache = ctx
  BY <1>2 DEF SetTenant, Settled
<1>3. CASE ctx # Blank /\ c.cache # ctx
  <2>1. SetTenant(c, ctx) = Conn(c.by, ctx, c.base, ctx, TRUE)
    BY <1>3 DEF SetTenant
  <2>2. Conn(c.by, ctx, c.base, ctx, TRUE) \in ConnRow
    BY DEF Settled, Conn, ConnRow
  <2> QED
    BY <1>3, <2>1, <2>2 DEF Settled, Conn
<1> QED
  BY <1>1, <1>2, <1>3

LEMMA WorkTyped ==
  ASSUME PoolInv, NEW w \in Workers
  PROVE  /\ work[w].ctx \in Contexts /\ work[w].left \in Contexts /\ work[w].at \in Stages
         /\ work[w].todo \in ChangeRow
  BY DEF PoolInv, DoingRow

\* A statement runs under the context of its worker.
LEMMA StatementSettled ==
  ASSUME PoolInv, NEW w \in Workers, NEW k \in Usable(w)
  PROVE  /\ k \in Conns /\ conns[k].by \in {w, NoWorker} /\ Holding(w) \subseteq {k}
         /\ Settled(Statement(k, w), work[w].ctx)
         /\ Statement(k, w).by = w
         /\ Statement(k, w).guc = work[w].ctx
         /\ Strayed(Statement(k, w), work[w].ctx) = {}
<1>1. Settled(TakenBy(k, w), work[w].ctx) /\ TakenBy(k, w).by = w
  BY UsableSettled
<1>2. work[w].ctx = Blank => Clean(TakenBy(k, w))
  BY <1>1 DEF Settled
<1>3. /\ Settled(Statement(k, w), work[w].ctx) /\ Statement(k, w).guc = work[w].ctx
      /\ Statement(k, w).by = w
  BY <1>1, <1>2, WorkTyped, SetTenantSettles DEF Statement
<1> QED
  BY <1>3, UsableSettled DEF Strayed

LEMMA DoingTyped ==
  ASSUME NEW at \in Stages, NEW ctx \in Contexts, NEW left \in Contexts,
         NEW role \in Roles \cup {"none"},
         NEW home \in Clients \cup {NoClient}, NEW todo \in ChangeRow
  PROVE  /\ Doing(at, ctx, left, role, home, todo) \in DoingRow
         /\ Doing(at, ctx, left, role, home, todo).at = at
         /\ Doing(at, ctx, left, role, home, todo).ctx = ctx
         /\ Doing(at, ctx, left, role, home, todo).todo = todo
  BY DEF Doing, DoingRow

LEMMA PlainTyped ==
  ASSUME NEW at \in Stages, NEW ctx \in Contexts, NEW left \in Contexts, NEW todo \in ChangeRow
  PROVE  /\ Doing(at, ctx, left, "none", NoClient, todo) \in DoingRow
         /\ Doing(at, ctx, left, "none", NoClient, todo).at = at
         /\ Doing(at, ctx, left, "none", NoClient, todo).ctx = ctx
         /\ Doing(at, ctx, left, "none", NoClient, todo).todo = todo
  BY DEF Doing, DoingRow

LEMMA ContextTyped ==
  ASSUME NEW client \in Clients \cup {NoClient}, NEW cross \in BOOLEAN,
         NEW user \in Users \cup {NoUser}
  PROVE  Context(client, cross, user) \in Contexts
  BY DEF Context, Contexts

LEMMA DispatchedTyped ==
  ASSUME NEW u \in Users, NEW h \in Clients \cup {"all", NoClient}
  PROVE  Dispatched(u, h) \in Contexts /\ Dispatched(u, h).user = u /\ Dispatched(u, h) # Blank
<1>1. Dispatched(u, h) \in Contexts /\ Dispatched(u, h).user = u
  <2>1. CASE h = "all"
    BY <2>1, ContextTyped DEF Dispatched, Context
  <2>2. CASE h # "all"
    BY <2>2, ContextTyped DEF Dispatched, Context
  <2> QED
    BY <2>1, <2>2
<1>2. Blank.user = NoUser
  BY DEF Blank, Context
<1> QED
  BY <1>1, <1>2, TenancyAssumption

-----------------------------------------------------------------------------
(***************************************************************************)
(* How a worker moves.                                                     *)
(***************************************************************************)
LEMMA GoesOnTyped ==
  ASSUME PoolInv, NEW w \in Workers, NEW at \in Stages, NEW todo \in ChangeRow,
         GoesOn(w, at, todo)
  PROVE  \E d \in DoingRow : /\ work' = [work EXCEPT ![w] = d]
                             /\ d.at = at /\ d.ctx = work[w].ctx /\ d.todo = todo
<1>1. PICK d : d = Doing(at, work[w].ctx, work[w].left, "none", NoClient, todo)
  OBVIOUS
<1>2. work[w].ctx \in Contexts /\ work[w].left \in Contexts
  BY WorkTyped
<1>3. d \in DoingRow /\ d.at = at /\ d.ctx = work[w].ctx /\ d.todo = todo
  BY <1>1, <1>2, PlainTyped
<1> QED
  BY <1>1, <1>3 DEF GoesOn

LEMMA RestsTyped ==
  ASSUME PoolInv, NEW w \in Workers, NEW ctx \in Contexts, Rests(w, ctx)
  PROVE  \E d \in DoingRow : work' = [work EXCEPT ![w] = d] /\ d.at = "idle"
<1>1. PICK d : d = Doing("idle", ctx, ctx, "none", NoClient, NoChange)
  OBVIOUS
<1>2. d \in DoingRow /\ d.at = "idle"
  BY <1>1, BlankTyped, PlainTyped DEF Stages
<1> QED
  BY <1>1, <1>2 DEF Rests

\* A worker goes on with its connection, settled.
LEMMA StaysInPool ==
  ASSUME PoolInv, NEW w \in Workers, NEW k \in Usable(w), NEW at \in Stages \ {"idle"},
         NEW todo \in ChangeRow, GoesOn(w, at, todo), NEW c, c.by = w,
         Settled(c, work[w].ctx), c.guc = work[w].ctx,
         conns' = [conns EXCEPT ![k] = c]
  PROVE  PoolInv'
<1>1. PICK d \in DoingRow : /\ work' = [work EXCEPT ![w] = d]
                            /\ d.at = at /\ d.ctx = work[w].ctx
  BY GoesOnTyped
<1>2. k \in Conns /\ conns[k].by \in {w, NoWorker} /\ Holding(w) \subseteq {k}
  BY UsableSettled
<1>3. Settled(c, d.ctx) /\ d.at # "idle" /\ c.guc = d.ctx
  BY <1>1
<1> QED
  BY <1>1, <1>2, <1>3, PoolStep

\* A worker gives its connection back and goes on, or rests.
LEMMA GivesBackAndGoesOn ==
  ASSUME PoolInv, NEW w \in Workers, NEW k \in Usable(w), NEW at \in Stages,
         NEW todo \in ChangeRow, GoesOn(w, at, todo), conns' = [conns EXCEPT ![k] = Fresh]
  PROVE  PoolInv'
<1>1. PICK d \in DoingRow : work' = [work EXCEPT ![w] = d]
  BY GoesOnTyped
<1> QED
  BY <1>1, UsableSettled, PoolStep

LEMMA GivesBackAndRests ==
  ASSUME PoolInv, NEW w \in Workers, NEW k \in Usable(w), NEW ctx \in Contexts,
         Rests(w, ctx), conns' = [conns EXCEPT ![k] = Fresh]
  PROVE  PoolInv'
<1>1. PICK d \in DoingRow : work' = [work EXCEPT ![w] = d]
  BY RestsTyped
<1> QED
  BY <1>1, UsableSettled, PoolStep

TeamsTyped ==
  /\ members \in [Users -> [Clients -> Memberships]]
  /\ clients \subseteq Clients
  /\ sockets \in [Users -> SUBSET Clients]
  /\ faults \in 0..MaxFaults

LEMMA CheckKeepsPool ==
  ASSUME PoolInv, TeamsTyped, NEW w \in Workers, NEW u \in Users,
         NEW h \in Clients \cup {"all"}, Check(w, u, h)
  PROVE  PoolInv'
<1>1. PICK ctx : ctx = Dispatched(u, h)
  OBVIOUS
<1>2. ctx \in Contexts /\ ctx.user = u /\ ctx # Blank
  BY <1>1, DispatchedTyped
<1>3. PICK k \in FreeIn(AsyncPool) :
        \E home \in ActiveMemberships(ctx, SetTenant(TakenBy(k, w), ctx).guc) :
          /\ conns' = [conns EXCEPT ![k] = SetTenant(TakenBy(k, w), ctx)]
          /\ work' = [work EXCEPT ![w] =
                        Doing("handle", ctx, Blank, members[u][home].role, home, NoChange)]
  BY <1>1 DEF Check
<1>4. PICK c : c = SetTenant(TakenBy(k, w), ctx)
  OBVIOUS
<1>5. PICK home \in ActiveMemberships(ctx, c.guc) :
          /\ conns' = [conns EXCEPT ![k] = c]
          /\ work' = [work EXCEPT ![w] =
                        Doing("handle", ctx, Blank, members[u][home].role, home, NoChange)]
  BY <1>3, <1>4
<1>6. home \in Clients /\ members[u][home] # Nobody
  BY <1>2, <1>5 DEF ActiveMemberships, IsMembershipActive
<1>7. members[u][home].role \in Roles
  BY <1>6 DEF TeamsTyped, Memberships
<1>8. work[w].at = "idle" /\ w \notin Tasks
  BY DEF Check, Idle, Doing
<1>9. k \in Usable(w)
  BY <1>3, <1>8, FreeUsable
<1>10. Settled(c, ctx) /\ c.by = w
  BY <1>2, <1>4, <1>9, UsableSettled, SetTenantSettles
<1>11. PICK d : d = Doing("handle", ctx, Blank, members[u][home].role, home, NoChange)
  OBVIOUS
<1>12. d \in DoingRow /\ d.at = "handle" /\ d.ctx = ctx
  BY <1>2, <1>6, <1>7, <1>11, DoingTyped, BlankTyped DEF Stages
<1>13. k \in Conns /\ conns[k].by \in {w, NoWorker} /\ Holding(w) \subseteq {k}
  BY <1>9, UsableSettled
<1>14. work' = [work EXCEPT ![w] = d] /\ Settled(c, d.ctx) /\ d.at # "idle" /\ d.at # "commit"
  BY <1>5, <1>10, <1>11, <1>12
<1> QED
  BY <1>5, <1>10, <1>12, <1>13, <1>14, PoolStep

LEMMA ChangeTyped ==
  ASSUME NEW op \in {"add", "remove", "update", "onboard"}, NEW u \in Users, NEW c \in Clients,
         NEW g \in Grants \cup {Nobody}
  PROVE  Change(op, u, c, g) \in ChangeRow /\ Change(op, u, c, g).client = c
  BY TenancyAssumption, BlankTyped DEF Change, ChangeRow, Memberships

\* What Write begins.
LEMMA WriteBegins ==
  ASSUME NEW w \in Workers, Write(w)
  PROVE  \E k \in Holding(w), todo \in ChangeRow : Begin(w, k, todo) /\ todo.client \in Clients
<1>1. PICK k \in Holding(w), c \in Clients, u \in Users :
        \/ \E g \in Grants : Begin(w, k, Change("add", u, c, g))
        \/ Begin(w, k, Change("remove", u, c, Nobody))
        \/ Begin(w, k, Change("update", u, c, Nobody))
  BY DEF Write
<1> QED
  BY <1>1, ChangeTyped

LEMMA RequestKeepsPool ==
  ASSUME PoolInv, NEW w \in Workers,
         Read(w) \/ Write(w) \/ Commit(w) \/ Refuse(w) \/ Reread(w)
  PROVE  PoolInv'
<1>0. Blank \in Contexts /\ NoChange \in ChangeRow /\ conns \in [Conns -> ConnRow]
  BY BlankTyped DEF PoolInv
<1>1. CASE Read(w)
  <2>1. PICK k \in Holding(w) : conns' = [conns EXCEPT ![k] = AfterRollback(Statement(k, w))]
    BY <1>1 DEF Read
  <2>2. AfterRollback(Statement(k, w)) = Fresh
    BY <2>1, HoldingUsable, StatementSettled, EndsBlank
  <2>3. Rests(w, Blank)
    BY <1>1 DEF Read
  <2> QED
    BY <1>0, <2>1, <2>2, <2>3, HoldingUsable, GivesBackAndRests
<1>2. CASE Write(w)
  <2>1. PICK k \in Holding(w), todo \in ChangeRow : Begin(w, k, todo)
    BY <1>2, WriteBegins
  <2>2. GoesOn(w, "commit", todo) /\ conns' = [conns EXCEPT ![k] = Statement(k, w)]
    BY <2>1 DEF Begin
  <2>3. k \in Usable(w) /\ "commit" \in Stages \ {"idle"}
    BY HoldingUsable DEF Stages
  <2>4. /\ Statement(k, w).by = w /\ Settled(Statement(k, w), work[w].ctx)
        /\ Statement(k, w).guc = work[w].ctx
    BY <2>3, StatementSettled
  <2> QED
    BY <2>2, <2>3, <2>4, StaysInPool
<1>3. CASE Commit(w)
  <2>1. PICK k \in Holding(w) :
          /\ conns' = [conns EXCEPT ![k] = AfterCommit(conns[k])]
          /\ IF work[w].todo.op = "remove" THEN GoesOn(w, "audit", NoChange)
             ELSE GoesOn(w, "reread", work[w].todo)
    BY <1>3 DEF Commit
  <2>2. AfterCommit(conns[k]) = Fresh
    BY <2>1, HoldingUsable, EndsBlank DEF PoolInv
  <2>3. \E at \in Stages, todo \in ChangeRow : GoesOn(w, at, todo)
    BY <1>0, <2>1, WorkTyped DEF Stages
  <2> QED
    BY <2>1, <2>2, <2>3, HoldingUsable, GivesBackAndGoesOn
<1>4. CASE Refuse(w)
  <2>1. PICK k \in Holding(w) : conns' = [conns EXCEPT ![k] = AfterRollback(conns[k])]
    BY <1>4 DEF Refuse
  <2>2. AfterRollback(conns[k]) = Fresh
    BY <2>1, HoldingUsable, EndsBlank DEF PoolInv
  <2>3. Rests(w, Blank)
    BY <1>4 DEF Refuse
  <2> QED
    BY <1>0, <2>1, <2>2, <2>3, HoldingUsable, GivesBackAndRests
<1>5. CASE Reread(w)
  <2>1. PICK k \in Usable(w) : conns' = [conns EXCEPT ![k] = Statement(k, w)]
    BY <1>5 DEF Reread
  <2>2. GoesOn(w, "audit", NoChange)
    BY <1>5 DEF Reread
  <2>3. "audit" \in Stages \ {"idle"}
    BY DEF Stages
  <2>4. /\ Statement(k, w).by = w /\ Settled(Statement(k, w), work[w].ctx)
        /\ Statement(k, w).guc = work[w].ctx
    BY StatementSettled
  <2> QED
    BY <1>0, <2>1, <2>2, <2>3, <2>4, StaysInPool
<1> QED
  BY <1>1, <1>2, <1>3, <1>4, <1>5

LEMMA EndsKeepPool ==
  ASSUME PoolInv, NEW w \in Workers, RereadFails(w) \/ LogAuditEvent(w) \/ Crash(w)
  PROVE  PoolInv'
<1>1. conns' = [k \in Conns |-> IF conns[k].by = w THEN Fresh ELSE conns[k]]
  BY ClosedReleases DEF RereadFails, LogAuditEvent, Crash
<1>2. Rests(w, Blank)
  BY DEF RereadFails, LogAuditEvent, Crash
<1>3. PICK d \in DoingRow : work' = [work EXCEPT ![w] = d]
  BY <1>2, BlankTyped, RestsTyped
<1> QED
  BY <1>1, <1>3, PoolReleases

LEMMA OnboardKeepsPool ==
  ASSUME PoolInv, NEW w \in Workers, NEW u \in Users, NEW client \in Clients,
         OnboardClient(w, u, client)
  PROVE  PoolInv'
<1>1. PICK ctx : ctx = Dispatched(u, NoClient)
  OBVIOUS
<1>2. ctx \in Contexts /\ ctx # Blank
  BY <1>1, DispatchedTyped
<1>3. PICK k \in FreeIn(AsyncPool) : conns' = [conns EXCEPT ![k] = SetTenant(TakenBy(k, w), ctx)]
  BY <1>1 DEF OnboardClient
<1>4. PICK d : d = Doing("reread", ctx, Blank, "none", NoClient, Change("onboard", u, client, Nobody))
  OBVIOUS
<1>5. work' = [work EXCEPT ![w] = d] /\ work[w].at = "idle" /\ w \notin Tasks
  BY <1>1, <1>4 DEF OnboardClient, Idle, Doing
<1>6. d \in DoingRow /\ d.at = "reread" /\ d.ctx = ctx
  <2>1. Change("onboard", u, client, Nobody) \in ChangeRow
    BY ChangeTyped
  <2> QED
    BY <1>2, <1>4, <2>1, BlankTyped, PlainTyped DEF Stages
<1>7. k \in Usable(w)
  BY <1>3, <1>5, FreeUsable
<1>8. Settled(SetTenant(TakenBy(k, w), ctx), ctx) /\ SetTenant(TakenBy(k, w), ctx).by = w
  BY <1>2, <1>7, UsableSettled, SetTenantSettles
<1> QED
  BY <1>3, <1>5, <1>6, <1>7, <1>8, UsableSettled, PoolStep

\* The lookup of a task narrows the context, or ends the task.
LEMMA LookupKeepsPool ==
  ASSUME PoolInv, NEW w \in Workers, NEW k \in Usable(w), NEW u \in Users \cup {NoUser},
         NEW c \in Clients, NEW copied \in BOOLEAN, Lookup(w, k, u, c, copied)
  PROVE  PoolInv' /\ strays' = strays
<1>1. PICK all : all = Context(NoClient, TRUE, u)
  OBVIOUS
<1>2. PICK own : own = Context(c, FALSE, u)
  OBVIOUS
<1>3. all \in Contexts /\ own \in Contexts /\ all # Blank /\ own # Blank
  BY <1>1, <1>2, TenancyAssumption DEF Context, Contexts, Blank
<1>4. PICK s : s = SetTenant(TakenBy(k, w), all)
  OBVIOUS
<1>5. Settled(s, all) /\ s.by = w /\ s.guc = all
  BY <1>3, <1>4, UsableSettled, SetTenantSettles
<1>6. Settled(s, own) /\ AfterRollback(s) = Fresh
  BY <1>3, <1>5, EndsBlank DEF Settled
<1>7. strays' = strays
  BY <1>1, <1>4, <1>5 DEF Lookup, Strayed
<1>8. \/ \E left \in Contexts, ctx \in {own, all} :
           /\ conns' = [conns EXCEPT ![k] = s]
           /\ work' = [work EXCEPT ![w] = Doing("scoped", ctx, left, "none", NoClient, NoChange)]
      \/ \E left \in Contexts :
           conns' = [conns EXCEPT ![k] = AfterRollback(s)] /\ Rests(w, left)
  BY <1>1, <1>2, <1>3, <1>4, WorkTyped DEF Lookup
<1>9. ASSUME NEW left \in Contexts, NEW ctx \in {own, all}, conns' = [conns EXCEPT ![k] = s],
             work' = [work EXCEPT ![w] = Doing("scoped", ctx, left, "none", NoClient, NoChange)]
      PROVE  PoolInv'
  <2>1. PICK d : d = Doing("scoped", ctx, left, "none", NoClient, NoChange)
    OBVIOUS
  <2>2. NoChange \in ChangeRow /\ "scoped" \in Stages
    BY BlankTyped DEF Stages
  <2>3. d \in DoingRow /\ d.at = "scoped" /\ d.ctx = ctx
    BY <1>3, <2>1, <2>2, PlainTyped
  <2>4. k \in Conns /\ conns[k].by \in {w, NoWorker} /\ Holding(w) \subseteq {k}
    BY UsableSettled
  <2>5. work' = [work EXCEPT ![w] = d] /\ Settled(s, d.ctx) /\ d.at # "idle" /\ d.at # "commit"
    BY <1>5, <1>6, <1>9, <2>1, <2>3
  <2> QED
    BY <1>5, <1>9, <2>3, <2>4, <2>5, PoolStep
<1>10. ASSUME NEW left \in Contexts, conns' = [conns EXCEPT ![k] = AfterRollback(s)],
              Rests(w, left)
       PROVE  PoolInv'
  BY <1>6, <1>10, GivesBackAndRests
<1> QED
  BY <1>7, <1>8, <1>9, <1>10

LEMMA LooksUp ==
  ASSUME PoolInv, NEW w \in Workers, NEW u \in Behalf, NEW c \in Clients,
         StartTask(w, u, c) \/ ExtractFields(w, u, c)
  PROVE  \E k \in Usable(w), copied \in BOOLEAN : Lookup(w, k, u, c, copied)
<1>1. CASE StartTask(w, u, c)
  BY <1>1, FreeUsable DEF StartTask
<1>2. CASE ExtractFields(w, u, c)
  BY <1>2 DEF ExtractFields
<1> QED
  BY <1>1, <1>2

LEMMA TasksKeepPool ==
  ASSUME PoolInv, NEW w \in Workers,
         StartDocumentTask(w) \/ TaskStep(w) \/ ListenerFails(w)
  PROVE  PoolInv'
<1>0. NoChange \in ChangeRow /\ work[w].left \in Contexts /\ work[w].at \in Stages
  BY BlankTyped, WorkTyped
<1>1. CASE StartDocumentTask(w)
  <2>1. PICK d \in DoingRow : work' = [work EXCEPT ![w] = d]
    BY <1>0, <1>1, GoesOnTyped DEF StartDocumentTask, Stages
  <2>2. \A k \in Conns : conns[k].by # w
    BY <1>1 DEF StartDocumentTask, PoolInv, Holding
  <2>3. conns' = [k \in Conns |-> IF conns[k].by = w THEN Fresh ELSE conns[k]]
    BY <1>1, <2>2 DEF StartDocumentTask, PoolInv
  <2> QED
    BY <2>1, <2>3, PoolReleases
<1>2. CASE TaskStep(w)
  <2>0. PICK k \in Usable(w) : \E c : c = Statement(k, w) /\
          \/ conns' = [conns EXCEPT ![k] = c] /\ GoesOn(w, work[w].at, NoChange)
          \/ /\ \E d \in {AfterCommit(c), AfterRollback(c)} : conns' = [conns EXCEPT ![k] = d]
             /\ GoesOn(w, work[w].at, NoChange) \/ Rests(w, work[w].left)
    BY <1>2 DEF TaskStep
  <2>1. PICK c : c = Statement(k, w) /\
          \/ conns' = [conns EXCEPT ![k] = c] /\ GoesOn(w, work[w].at, NoChange)
          \/ /\ \E d \in {AfterCommit(c), AfterRollback(c)} : conns' = [conns EXCEPT ![k] = d]
             /\ GoesOn(w, work[w].at, NoChange) \/ Rests(w, work[w].left)
    BY <2>0
  <2>2. /\ Settled(c, work[w].ctx) /\ c.by = w /\ c.guc = work[w].ctx
        /\ AfterCommit(c) = Fresh /\ AfterRollback(c) = Fresh
    BY <2>1, StatementSettled, EndsBlank
  <2>3. work[w].at \in Stages \ {"idle"}
    BY <1>0, <1>2 DEF TaskStep
  <2>4. CASE conns' = [conns EXCEPT ![k] = c] /\ GoesOn(w, work[w].at, NoChange)
    BY <1>0, <2>2, <2>3, <2>4, StaysInPool
  <2>5. CASE conns' = [conns EXCEPT ![k] = Fresh] /\ GoesOn(w, work[w].at, NoChange)
    BY <1>0, <2>5, GivesBackAndGoesOn
  <2>6. CASE conns' = [conns EXCEPT ![k] = Fresh] /\ Rests(w, work[w].left)
    BY <1>0, <2>6, GivesBackAndRests
  <2> QED
    BY <2>1, <2>2, <2>4, <2>5, <2>6
<1>3. CASE ListenerFails(w)
  <2>1. PICK k \in Usable(w) :
          conns' = [conns EXCEPT ![k] =
                      AfterRollback(Conn(w, conns[k].guc, conns[k].base, Blank, TRUE))]
    BY <1>3 DEF ListenerFails
  <2>2. AfterRollback(Conn(w, conns[k].guc, conns[k].base, Blank, TRUE)) = Fresh
    BY DEF AfterRollback, RolledBack, Checkin, Conn
  <2>3. Rests(w, work[w].left) \/ GoesOn(w, work[w].at, NoChange)
    BY <1>3 DEF ListenerFails
  <2> QED
    BY <1>0, <2>1, <2>2, <2>3, GivesBackAndGoesOn, GivesBackAndRests
<1> QED
  BY <1>1, <1>2, <1>3

LEMMA PoolKept ==
  ASSUME PoolInv, TeamsTyped, [Next]_vars
  PROVE  PoolInv'
<1>1. CASE UNCHANGED vars
  BY <1>1, PoolSame DEF vars
<1>2. ASSUME NEW w \in Workers, NEW u \in Users, NEW h \in Clients \cup {"all"}, Check(w, u, h)
      PROVE  PoolInv'
  BY <1>2, CheckKeepsPool
<1>3. ASSUME NEW w \in Workers, Read(w) \/ Write(w) \/ Commit(w) \/ Refuse(w) \/ Reread(w)
      PROVE  PoolInv'
  BY <1>3, RequestKeepsPool
<1>4. ASSUME NEW w \in Workers, RereadFails(w) \/ LogAuditEvent(w) \/ Crash(w) PROVE PoolInv'
  BY <1>4, EndsKeepPool
<1>5. ASSUME NEW w \in Workers, NEW u \in Users, NEW c \in Clients, OnboardClient(w, u, c)
      PROVE  PoolInv'
  BY <1>5, OnboardKeepsPool
<1>6. ASSUME NEW w \in Workers, NEW u \in Behalf, NEW c \in Clients,
             StartTask(w, u, c) \/ ExtractFields(w, u, c)
      PROVE  PoolInv'
  <2>1. u \in Users \cup {NoUser}
    BY TenancyAssumption
  <2> QED
    BY <1>6, <2>1, LooksUp, LookupKeepsPool
<1>7. ASSUME NEW w \in Workers, StartDocumentTask(w) \/ TaskStep(w) \/ ListenerFails(w)
      PROVE  PoolInv'
  BY <1>7, TasksKeepPool
<1>8. ASSUME NEW u \in Users, NEW c \in Clients,
             AccessStarts(u, c) \/ AccessEnds(u, c) \/ Connect(u, c) \/ Recheck(u, c)
      PROVE  PoolInv'
  BY <1>8, PoolSame DEF AccessStarts, AccessEnds, Connect, Recheck
<1> QED
  BY <1>1, <1>2, <1>3, <1>4, <1>5, <1>6, <1>7, <1>8 DEF Next

-----------------------------------------------------------------------------
(***************************************************************************)
(* Teams, and what a worker is about to commit.                            *)
(***************************************************************************)
TodoInv == \A w \in Workers : work[w].at = "commit" => work[w].todo.client \in Clients

LEMMA TeamsInitially == Init => TeamsTyped /\ TodoInv
<1> SUFFICES ASSUME Init PROVE TeamsTyped /\ TodoInv
  OBVIOUS
<1>1. TeamsTyped
  BY TenancyAssumption DEF Init, TeamsTyped
<1>2. \A w \in Workers : work[w].at = "idle"
  BY DEF Init, Idle, Doing
<1> QED
  BY <1>1, <1>2 DEF TodoInv

LEMMA MembersChange ==
  ASSUME TeamsTyped, NEW u, NEW c, NEW m \in Memberships,
         members' = [members EXCEPT ![u][c] = m]
  PROVE  members' \in [Users -> [Clients -> Memberships]]
  BY DEF TeamsTyped

\* The steps of a worker that leave the teams alone.
Serves(w) ==
  \/ \E u \in Users, h \in Clients \cup {"all"} : Check(w, u, h)
  \/ Read(w)
  \/ Write(w)
  \/ Refuse(w)
  \/ Reread(w)
  \/ RereadFails(w)
  \/ LogAuditEvent(w)
  \/ \E u \in Behalf, c \in Clients : StartTask(w, u, c) \/ ExtractFields(w, u, c)
  \/ StartDocumentTask(w)
  \/ TaskStep(w)
  \/ ListenerFails(w)
  \/ Crash(w)

LEMMA ServesFrame ==
  ASSUME NEW w \in Workers, Serves(w)
  PROVE  UNCHANGED << members, clients, sockets >> /\ (Fault \/ UNCHANGED faults)
<1>1. ASSUME NEW u \in Users, NEW h \in Clients \cup {"all"}, Check(w, u, h)
      PROVE  UNCHANGED << members, clients, sockets, faults >>
  BY <1>1 DEF Check
<1>2. CASE Read(w)
  BY <1>2 DEF Read
<1>3. CASE Write(w)
  BY <1>3 DEF Write, Begin
<1>4. CASE Refuse(w)
  BY <1>4 DEF Refuse
<1>5. CASE Reread(w) \/ RereadFails(w)
  BY <1>5 DEF Reread, RereadFails
<1>6. CASE LogAuditEvent(w)
  BY <1>6 DEF LogAuditEvent
<1>7. ASSUME NEW u \in Behalf, NEW c \in Clients, StartTask(w, u, c) \/ ExtractFields(w, u, c)
      PROVE  UNCHANGED << members, clients, sockets, faults >>
  BY <1>7 DEF StartTask, ExtractFields, Lookup
<1>8. CASE StartDocumentTask(w) \/ TaskStep(w)
  BY <1>8 DEF StartDocumentTask, TaskStep
<1>9. CASE ListenerFails(w) \/ Crash(w)
  BY <1>9 DEF ListenerFails, Crash
<1> QED
  BY <1>1, <1>2, <1>3, <1>4, <1>5, <1>6, <1>7, <1>8, <1>9 DEF Serves

\* Steps that are no worker's.
Around ==
  \E u \in Users, c \in Clients :
    AccessStarts(u, c) \/ AccessEnds(u, c) \/ Connect(u, c) \/ Recheck(u, c)

LEMMA StepKinds ==
  ASSUME [Next]_vars
  PROVE  \/ UNCHANGED vars
         \/ \E w \in Workers : Serves(w)
         \/ \E w \in Workers : Commit(w)
         \/ \E w \in Workers, u \in Users, c \in Clients : OnboardClient(w, u, c)
         \/ Around
  BY DEF Next, Serves, Around

LEMMA TeamsKept ==
  ASSUME PoolInv, TeamsTyped, [Next]_vars
  PROVE  TeamsTyped'
<1>1. CASE UNCHANGED vars
  BY <1>1 DEF vars, TeamsTyped
<1>2. ASSUME NEW w \in Workers, Serves(w) PROVE TeamsTyped'
  <2>1. UNCHANGED << members, clients, sockets >> /\ (Fault \/ UNCHANGED faults)
    BY <1>2, ServesFrame
  <2>2. faults' \in 0..MaxFaults
    BY <2>1, TenancyAssumption DEF Fault, TeamsTyped
  <2> QED
    BY <2>1, <2>2 DEF TeamsTyped
<1>3. ASSUME NEW w \in Workers, Commit(w) PROVE TeamsTyped'
  <2>1. work[w].todo.grant \in Memberships
    BY WorkTyped DEF ChangeRow
  <2>2. members' \in [Users -> [Clients -> Memberships]]
    BY <1>3, <2>1, MembersChange DEF Commit, TeamsTyped
  <2>3. UNCHANGED << clients, sockets, faults >>
    BY <1>3 DEF Commit
  <2> QED
    BY <2>2, <2>3 DEF TeamsTyped
<1>4. ASSUME NEW w \in Workers, NEW u \in Users, NEW c \in Clients, OnboardClient(w, u, c)
      PROVE  TeamsTyped'
  <2>1. [role |-> "compliance_head", window |-> "open"] \in Memberships
    BY DEF Memberships, Roles, Windows
  <2>2. members' \in [Users -> [Clients -> Memberships]]
    BY <1>4, <2>1, MembersChange DEF OnboardClient
  <2>3. clients' = clients \cup {c} /\ UNCHANGED << sockets, faults >>
    BY <1>4 DEF OnboardClient
  <2> QED
    BY <2>2, <2>3 DEF TeamsTyped
<1>5. ASSUME NEW u \in Users, NEW c \in Clients, AccessStarts(u, c) PROVE TeamsTyped'
  <2>1. members[u][c] \in Memberships /\ members[u][c] # Nobody
    BY <1>5 DEF TeamsTyped, AccessStarts, Nobody
  <2>2. [role |-> members[u][c].role, window |-> "open"] \in Memberships
    BY <2>1 DEF Memberships, Windows
  <2>3. members' \in [Users -> [Clients -> Memberships]]
    BY <1>5, <2>2, MembersChange DEF AccessStarts
  <2> QED
    BY <1>5, <2>3 DEF TeamsTyped, AccessStarts
<1>6. ASSUME NEW u \in Users, NEW c \in Clients, AccessEnds(u, c) PROVE TeamsTyped'
  <2>1. [role |-> "auditor", window |-> "ended"] \in Memberships
    BY DEF Memberships, Windows, Roles
  <2>2. members' \in [Users -> [Clients -> Memberships]]
    BY <1>6, <2>1, MembersChange DEF AccessEnds
  <2> QED
    BY <1>6, <2>2 DEF TeamsTyped, AccessEnds
<1>7. ASSUME NEW u \in Users, NEW c \in Clients, Connect(u, c) \/ Recheck(u, c) PROVE TeamsTyped'
  <2>1. sockets' \in [Users -> SUBSET Clients]
    BY <1>7 DEF TeamsTyped, Connect, Recheck
  <2>2. UNCHANGED << members, clients, faults >>
    BY <1>7 DEF Connect, Recheck
  <2> QED
    BY <2>1, <2>2 DEF TeamsTyped
<1> QED
  BY <1>1, <1>2, <1>3, <1>4, <1>5, <1>6, <1>7, StepKinds DEF Around

-----------------------------------------------------------------------------
(***************************************************************************)
(* How a worker's step moves it: to a change it is about to commit, to or  *)
(* from the audit row of one it has committed.                             *)
(***************************************************************************)
Committing(d)   == d.at = "commit" => d.todo.client \in Clients
AfterChange(d)  == d.at \in {"reread", "audit"}

ToItsAudit(w) ==
  \E d \in DoingRow : work' = [work EXCEPT ![w] = d] /\ Committing(d) /\ AfterChange(d)
Elsewhere(w) ==
  \E d \in DoingRow : work' = [work EXCEPT ![w] = d] /\ Committing(d) /\ ~AfterChange(d)

Quiet(w) ==
  /\ \/ w \in Auditing /\ ToItsAudit(w)
     \/ w \notin Auditing /\ Elsewhere(w)
  /\ UNCHANGED << unaudited, unread >> /\ (Fault \/ UNCHANGED faults)

Opens(w) ==
  /\ w \notin Auditing
  /\ ToItsAudit(w)
  /\ unaudited' = unaudited + 1 /\ UNCHANGED << unread, faults >>

Closes(w) ==
  /\ w \in Auditing
  /\ Elsewhere(w)
  /\ \/ unaudited' = unaudited - 1 /\ UNCHANGED << unread, faults >>
     \/ unread < MaxUnread /\ unread' = unread + 1 /\ UNCHANGED << unaudited, faults >>
     \/ Fault /\ UNCHANGED << unaudited, unread >>

LEMMA RestsMoves ==
  ASSUME PoolInv, NEW w \in Workers, NEW ctx \in Contexts, Rests(w, ctx)
  PROVE  Elsewhere(w)
<1>1. PICK d \in DoingRow : work' = [work EXCEPT ![w] = d] /\ d.at = "idle"
  BY RestsTyped
<1> QED
  BY <1>1 DEF ToItsAudit, Elsewhere, Committing, AfterChange

LEMMA GoesOnMoves ==
  ASSUME PoolInv, NEW w \in Workers, NEW at \in Stages \ {"commit"}, NEW todo \in ChangeRow,
         GoesOn(w, at, todo)
  PROVE  /\ at \in {"reread", "audit"} => ToItsAudit(w)
         /\ at \notin {"reread", "audit"} => Elsewhere(w)
<1>1. PICK d \in DoingRow : work' = [work EXCEPT ![w] = d] /\ d.at = at
  BY GoesOnTyped
<1> QED
  BY <1>1 DEF ToItsAudit, Elsewhere, Committing, AfterChange

LEMMA RequestMoves ==
  ASSUME PoolInv, TeamsTyped, NEW w \in Workers
  PROVE  /\ \A u \in Users, h \in Clients \cup {"all"} : Check(w, u, h) => Quiet(w)
         /\ Read(w) \/ Write(w) \/ Refuse(w) \/ Reread(w) => Quiet(w)
         /\ RereadFails(w) \/ LogAuditEvent(w) => Closes(w)
         /\ Crash(w) => Quiet(w) \/ Closes(w)
<1>0. Blank \in Contexts /\ NoChange \in ChangeRow
  BY BlankTyped
<1>1. ASSUME NEW u \in Users, NEW h \in Clients \cup {"all"}, Check(w, u, h) PROVE Quiet(w)
  <2>1. PICK d, ctx, home, guc :
          /\ ctx = Dispatched(u, h) /\ home \in ActiveMemberships(ctx, guc)
          /\ d = Doing("handle", ctx, Blank, members[u][home].role, home, NoChange)
          /\ work' = [work EXCEPT ![w] = d]
    BY <1>1 DEF Check
  <2>2. ctx \in Contexts /\ ctx.user = u
    BY <2>1, DispatchedTyped
  <2>3. home \in Clients /\ members[u][home] # Nobody
    BY <2>1, <2>2 DEF ActiveMemberships, IsMembershipActive
  <2>4. members[u][home].role \in Roles
    BY <2>3 DEF TeamsTyped, Memberships
  <2>5. d \in DoingRow /\ d.at = "handle"
    BY <1>0, <2>1, <2>2, <2>3, <2>4, DoingTyped DEF Stages
  <2>6. w \notin Auditing
    BY <1>1 DEF Check, Idle, Doing, Auditing
  <2>7. UNCHANGED << unaudited, unread, faults >>
    BY <1>1 DEF Check
  <2> QED
    BY <2>1, <2>5, <2>6, <2>7 DEF Quiet, ToItsAudit, Elsewhere, Committing, AfterChange
<1>2. ASSUME Read(w) PROVE Quiet(w)
  <2>1. Rests(w, Blank) /\ w \notin Auditing /\ UNCHANGED << unaudited, unread, faults >>
    BY <1>2 DEF Read, Auditing
  <2> QED
    BY <1>0, <2>1, RestsMoves DEF Quiet
<1>3. ASSUME Write(w) PROVE Quiet(w)
  <2>1. PICK k \in Holding(w), todo \in ChangeRow : Begin(w, k, todo) /\ todo.client \in Clients
    BY <1>3, WriteBegins
  <2>2. GoesOn(w, "commit", todo) /\ UNCHANGED << unaudited, unread, faults >>
    BY <2>1 DEF Begin
  <2>3. PICK d \in DoingRow : work' = [work EXCEPT ![w] = d] /\ d.at = "commit" /\ d.todo = todo
    BY <2>2, GoesOnTyped DEF Stages
  <2>4. w \notin Auditing
    BY <1>3 DEF Write, Auditing
  <2> QED
    BY <2>1, <2>2, <2>3, <2>4 DEF Quiet, ToItsAudit, Elsewhere, Committing, AfterChange
<1>4. ASSUME Refuse(w) PROVE Quiet(w)
  <2>1. /\ Rests(w, Blank) /\ w \notin Auditing
        /\ UNCHANGED << unaudited, unread >> /\ (Fault \/ UNCHANGED faults)
    BY <1>4 DEF Refuse, Auditing
  <2> QED
    BY <1>0, <2>1, RestsMoves DEF Quiet
<1>5. ASSUME Reread(w) PROVE Quiet(w)
  <2>1. /\ GoesOn(w, "audit", NoChange) /\ w \in Auditing
        /\ UNCHANGED << unaudited, unread, faults >>
    BY <1>5 DEF Reread, Auditing
  <2>2. ToItsAudit(w)
    BY <1>0, <2>1, GoesOnMoves DEF Stages
  <2> QED
    BY <2>1, <2>2 DEF Quiet
<1>6. ASSUME RereadFails(w) PROVE Closes(w)
  <2>1. /\ Rests(w, Blank) /\ w \in Auditing
        /\ \/ unread < MaxUnread /\ unread' = unread + 1 /\ UNCHANGED << unaudited, faults >>
           \/ Fault /\ UNCHANGED << unaudited, unread >>
    BY <1>6 DEF RereadFails, Auditing
  <2> QED
    BY <1>0, <2>1, RestsMoves DEF Closes
<1>7. ASSUME LogAuditEvent(w) PROVE Closes(w)
  <2>1. /\ Rests(w, Blank) /\ w \in Auditing
        /\ \/ unaudited' = unaudited - 1 /\ UNCHANGED << unread, faults >>
           \/ Fault /\ UNCHANGED << unaudited, unread >>
    BY <1>7 DEF LogAuditEvent, Recorded, Auditing
  <2> QED
    BY <1>0, <2>1, RestsMoves DEF Closes
<1>8. ASSUME Crash(w) PROVE Quiet(w) \/ Closes(w)
  <2>1. Rests(w, Blank) /\ Fault /\ UNCHANGED << unaudited, unread >>
    BY <1>8 DEF Crash
  <2>2. Elsewhere(w)
    BY <1>0, <2>1, RestsMoves
  <2> QED
    BY <2>1, <2>2 DEF Quiet, Closes
<1> QED
  BY <1>1, <1>2, <1>3, <1>4, <1>5, <1>6, <1>7, <1>8

LEMMA TaskMoves ==
  ASSUME PoolInv, NEW w \in Workers
  PROVE  /\ \A u \in Behalf, c \in Clients :
              StartTask(w, u, c) \/ ExtractFields(w, u, c) => Quiet(w)
         /\ StartDocumentTask(w) \/ TaskStep(w) \/ ListenerFails(w) => Quiet(w)
<1>0. NoChange \in ChangeRow /\ work[w].left \in Contexts /\ work[w].at \in Stages
  BY BlankTyped, WorkTyped
<1>1. ASSUME NEW u \in Behalf, NEW c \in Clients, StartTask(w, u, c) \/ ExtractFields(w, u, c)
      PROVE  Quiet(w)
  <2>1. u \in Users \cup {NoUser}
    BY TenancyAssumption
  <2>2. PICK k \in Usable(w), copied \in BOOLEAN : Lookup(w, k, u, c, copied)
    BY <1>1, LooksUp
  <2>3. PICK all, own : all = Context(NoClient, TRUE, u) /\ own = Context(c, FALSE, u)
    OBVIOUS
  <2>4. all \in Contexts /\ own \in Contexts
    BY <2>1, <2>3, ContextTyped
  <2>5. \/ \E left \in Contexts, ctx \in {own, all} :
             work' = [work EXCEPT ![w] = Doing("scoped", ctx, left, "none", NoClient, NoChange)]
        \/ \E left \in Contexts : Rests(w, left)
    BY <1>0, <2>2, <2>3, <2>4 DEF Lookup
  <2>6. ASSUME NEW left \in Contexts, NEW ctx \in {own, all}
        PROVE  /\ Doing("scoped", ctx, left, "none", NoClient, NoChange) \in DoingRow
               /\ Doing("scoped", ctx, left, "none", NoClient, NoChange).at = "scoped"
    <3>1. "scoped" \in Stages
      BY DEF Stages
    <3> QED
      BY <1>0, <2>4, <3>1, PlainTyped
  <2>7. Elsewhere(w)
    BY <2>5, <2>6, RestsMoves DEF ToItsAudit, Elsewhere, Committing, AfterChange
  <2>8. w \notin Auditing
    BY <1>1 DEF StartTask, ExtractFields, Auditing
  <2>9. UNCHANGED << unaudited, unread, faults >>
    BY <2>2 DEF Lookup
  <2> QED
    BY <2>7, <2>8, <2>9 DEF Quiet
<1>2. ASSUME StartDocumentTask(w) PROVE Quiet(w)
  <2>1. /\ GoesOn(w, "document", NoChange) /\ w \notin Auditing
        /\ UNCHANGED << unaudited, unread, faults >>
    BY <1>2 DEF StartDocumentTask, Auditing
  <2>2. Elsewhere(w)
    BY <1>0, <2>1, GoesOnMoves DEF Stages
  <2> QED
    BY <2>1, <2>2 DEF Quiet
<1>3. ASSUME TaskStep(w) \/ ListenerFails(w) PROVE Quiet(w)
  <2>1. /\ work[w].at \in {"handle", "document", "scoped"} /\ w \notin Auditing
        /\ UNCHANGED << unaudited, unread >> /\ (Fault \/ UNCHANGED faults)
    BY <1>3 DEF TaskStep, ListenerFails, Auditing
  <2>2. GoesOn(w, work[w].at, NoChange) \/ Rests(w, work[w].left)
    BY <1>3 DEF TaskStep, ListenerFails
  <2>3. Elsewhere(w)
    BY <1>0, <2>1, <2>2, GoesOnMoves, RestsMoves DEF Stages
  <2> QED
    BY <2>1, <2>3 DEF Quiet
<1> QED
  BY <1>1, <1>2, <1>3

\* The commit of a change, and that of the onboarding.
LEMMA ChangeMoves ==
  ASSUME PoolInv, NEW w \in Workers
  PROVE  /\ Commit(w) => Opens(w)
         /\ \A u \in Users, c \in Clients : OnboardClient(w, u, c) => Opens(w)
<1>1. ASSUME Commit(w) PROVE Opens(w)
  <2>1. /\ w \notin Auditing /\ unaudited' = unaudited + 1 /\ UNCHANGED << unread, faults >>
        /\ GoesOn(w, "audit", NoChange) \/ GoesOn(w, "reread", work[w].todo)
    BY <1>1 DEF Commit, Auditing
  <2>2. ToItsAudit(w)
    BY <2>1, BlankTyped, WorkTyped, GoesOnMoves DEF Stages
  <2> QED
    BY <2>1, <2>2 DEF Opens
<1>2. ASSUME NEW u \in Users, NEW c \in Clients, OnboardClient(w, u, c) PROVE Opens(w)
  <2>1. PICK d : d = Doing("reread", Dispatched(u, NoClient), Blank, "none", NoClient,
                           Change("onboard", u, c, Nobody))
    OBVIOUS
  <2>2. d \in DoingRow /\ d.at = "reread"
    <3>1. Change("onboard", u, c, Nobody) \in ChangeRow /\ Dispatched(u, NoClient) \in Contexts
      BY ChangeTyped, DispatchedTyped
    <3> QED
      BY <2>1, <3>1, BlankTyped, PlainTyped DEF Stages
  <2>3. /\ work' = [work EXCEPT ![w] = d] /\ w \notin Auditing
        /\ unaudited' = unaudited + 1 /\ UNCHANGED << unread, faults >>
    BY <1>2, <2>1 DEF OnboardClient, Idle, Doing, Auditing
  <2> QED
    BY <2>2, <2>3 DEF Opens, ToItsAudit, Elsewhere, Committing, AfterChange
<1> QED
  BY <1>1, <1>2

LEMMA WorkersMove ==
  ASSUME PoolInv, TeamsTyped, [Next]_vars
  PROVE  \/ UNCHANGED << work, unaudited, unread, faults >>
         \/ \E w \in Workers : Quiet(w) \/ Opens(w) \/ Closes(w)
<1>1. CASE UNCHANGED vars
  BY <1>1 DEF vars
<1>2. ASSUME NEW w \in Workers, Serves(w) PROVE Quiet(w) \/ Closes(w)
  BY <1>2, RequestMoves, TaskMoves DEF Serves
<1>3. ASSUME NEW w \in Workers, Commit(w) PROVE Opens(w)
  BY <1>3, ChangeMoves
<1>4. ASSUME NEW w \in Workers, NEW u \in Users, NEW c \in Clients, OnboardClient(w, u, c)
      PROVE  Opens(w)
  BY <1>4, ChangeMoves
<1>5. CASE Around
  BY <1>5 DEF Around, AccessStarts, AccessEnds, Connect, Recheck
<1> QED
  BY <1>1, <1>2, <1>3, <1>4, <1>5, StepKinds

\* The change a worker is about to commit names a client: only the handlers
\* of Write get there.
LEMMA TodoKept ==
  ASSUME PoolInv, TeamsTyped, TodoInv, [Next]_vars
  PROVE  TodoInv'
<1>1. CASE UNCHANGED work
  BY <1>1 DEF TodoInv
<1>2. ASSUME NEW w \in Workers, Quiet(w) \/ Opens(w) \/ Closes(w) PROVE TodoInv'
  <2>1. PICK d \in DoingRow : work' = [work EXCEPT ![w] = d] /\ Committing(d)
    BY <1>2 DEF Quiet, Opens, Closes, ToItsAudit, Elsewhere
  <2> QED
    BY <2>1 DEF PoolInv, TodoInv, Committing
<1> QED
  BY <1>1, <1>2, WorkersMove

-----------------------------------------------------------------------------
(***************************************************************************)
(* What the statements see and write.                                      *)
(***************************************************************************)
LEMMA VisibleInScope ==
  ASSUME clients \subseteq Clients, NEW r, NEW guc, guc = r.ctx
  PROVE  VisibleNotices(guc) \subseteq Scope(r) /\ VisibleClients(guc) \subseteq OwnClients(r)
<1>1. ASSUME NEW c \in VisibleNotices(guc) PROVE c \in Scope(r)
  <2>1. c \in Clients
    BY DEF VisibleNotices
  <2>2. CASE CrossClientView(guc)
    BY <2>1, <2>2 DEF CrossClientView, Scope
  <2>3. CASE TenantIsolation(guc, c)
    BY <2>1, <2>3 DEF TenantIsolation, Scope
  <2> QED
    BY <2>2, <2>3 DEF VisibleNotices
<1>2. ASSUME NEW c \in VisibleClients(guc) PROVE c \in OwnClients(r)
  <2>1. c \in Clients
    BY DEF VisibleClients
  <2>2. CASE CrossClientView(guc)
    BY <2>1, <2>2 DEF CrossClientView, Scope, OwnClients
  <2>3. CASE ClientIsolation(guc, c)
    BY <2>1, <2>3 DEF ClientIsolation, UserHasClientMembership, OwnClients
  <2> QED
    BY <2>2, <2>3 DEF VisibleClients
<1> QED
  BY <1>1, <1>2

LEMMA NothingStrays ==
  ASSUME clients \subseteq Clients, NEW r, NEW guc, guc = r.ctx
  PROVE  Straying(r, guc) = {}
<1>1. VisibleNotices(guc) \subseteq Scope(r) /\ VisibleClients(guc) \subseteq OwnClients(r)
  BY VisibleInScope
<1>2. ASSUME NEW path \in Clients
      PROVE  /\ Reports(r, guc, path) \subseteq Scope(r)
             /\ HealthSummary(r, guc, path) \subseteq Scope(r)
             /\ ComplianceScore(r, guc, path) \subseteq Scope(r)
             /\ PendingAlerts(r, guc, path) \subseteq Scope(r)
             /\ AlertRules(r, guc, path) \subseteq Scope(r)
             /\ UnifiedSearch(r, guc, path) \subseteq Scope(r)
             /\ ListCredentials(r, guc, path) \subseteq Scope(r)
             /\ ClientDashboard(r, guc, path) \subseteq Scope(r)
             /\ GetClient(r, guc, path) \subseteq OwnClients(r)
  <2>1. Reports(r, guc, path) \subseteq Scope(r)
    BY <1>1 DEF Reports
  <2>2. HealthSummary(r, guc, path) \subseteq Scope(r)
    BY <1>1 DEF HealthSummary
  <2>3. ComplianceScore(r, guc, path) \subseteq Scope(r)
    BY <1>1 DEF ComplianceScore
  <2>4. PendingAlerts(r, guc, path) \subseteq Scope(r)
    BY <1>1 DEF PendingAlerts
  <2>5. AlertRules(r, guc, path) \subseteq Scope(r) /\ ClientDashboard(r, guc, path) \subseteq Scope(r)
    BY <1>1 DEF AlertRules, ClientDashboard
  <2>6. UnifiedSearch(r, guc, path) \subseteq Scope(r) /\ ListCredentials(r, guc, path) \subseteq Scope(r)
    BY <1>1 DEF UnifiedSearch, ListCredentials
  <2>7. GetClient(r, guc, path) \subseteq OwnClients(r)
    BY <1>1 DEF GetClient
  <2> QED
    BY <2>1, <2>2, <2>3, <2>4, <2>5, <2>6, <2>7
<1> QED
  BY <1>2 DEF Straying

LEMMA StraysKept ==
  ASSUME PoolInv, TeamsTyped, TodoInv, strays = {}, [Next]_vars
  PROVE  strays' = {}
<1>1. CASE UNCHANGED vars
  BY <1>1 DEF vars
<1>2. ASSUME NEW w \in Workers, Read(w) PROVE strays' = {}
  <2>1. PICK k \in Holding(w) :
          strays' = strays \cup Strayed(Statement(k, w), work[w].ctx)
                           \cup Straying(work[w], Statement(k, w).guc)
    BY <1>2 DEF Read
  <2>2. Strayed(Statement(k, w), work[w].ctx) = {} /\ Statement(k, w).guc = work[w].ctx
    BY <2>1, HoldingUsable, StatementSettled
  <2>3. Straying(work[w], Statement(k, w).guc) = {}
    BY <2>2, WorkTyped, NothingStrays DEF TeamsTyped
  <2> QED
    BY <2>1, <2>2, <2>3
<1>3. ASSUME NEW w \in Workers, Write(w) \/ Reread(w) \/ TaskStep(w) PROVE strays' = {}
  <2>1. PICK k \in Usable(w) : strays' = strays \cup Strayed(Statement(k, w), work[w].ctx)
    BY <1>3, WriteBegins, HoldingUsable DEF Begin, Reread, TaskStep
  <2> QED
    BY <2>1, StatementSettled
<1>4. ASSUME NEW w \in Workers, Commit(w) PROVE strays' = {}
  <2>1. work[w].at = "commit"
    BY <1>4 DEF Commit
  <2>2. PICK k \in Holding(w) :
          strays' = strays \cup
            (IF /\ Effective(work[w].todo, conns[k].guc)
                /\ work[w].todo.client \notin Scope(work[w]) THEN {"change"} ELSE {})
    BY <1>4 DEF Commit
  <2>3. conns[k].guc = work[w].ctx
    BY <2>1, <2>2, HoldingUsable DEF PoolInv
  <2>4. work[w].todo.client \in Clients
    BY <2>1 DEF TodoInv
  <2>5. Effective(work[w].todo, conns[k].guc) => work[w].todo.client \in Scope(work[w])
    BY <2>3, <2>4 DEF Effective, TenantIsolation, Scope
  <2> QED
    BY <2>2, <2>5
<1>5. ASSUME NEW w \in Workers, NEW u \in Behalf, NEW c \in Clients,
             StartTask(w, u, c) \/ ExtractFields(w, u, c)
      PROVE  strays' = {}
  <2>1. u \in Users \cup {NoUser}
    BY TenancyAssumption
  <2> QED
    BY <1>5, <2>1, LooksUp, LookupKeepsPool
<1>6. ASSUME NEW w \in Workers, NEW u \in Users, NEW h \in Clients \cup {"all"}, Check(w, u, h)
      PROVE  strays' = {}
  BY <1>6 DEF Check
<1>7. ASSUME NEW w \in Workers,
             \/ Refuse(w) \/ RereadFails(w) \/ LogAuditEvent(w) \/ StartDocumentTask(w)
             \/ ListenerFails(w) \/ Crash(w)
      PROVE  strays' = {}
  BY <1>7 DEF Refuse, RereadFails, LogAuditEvent, StartDocumentTask, ListenerFails, Crash
<1>8. ASSUME NEW w \in Workers, NEW u \in Users, NEW c \in Clients, OnboardClient(w, u, c)
      PROVE  strays' = {}
  BY <1>8 DEF OnboardClient
<1>9. CASE Around
  BY <1>9 DEF Around, AccessStarts, AccessEnds, Connect, Recheck
<1>10. ASSUME NEW w \in Workers, Serves(w) PROVE strays' = {}
  BY <1>2, <1>3, <1>5, <1>6, <1>7, <1>10 DEF Serves
<1> QED
  BY <1>1, <1>4, <1>8, <1>9, <1>10, StepKinds

-----------------------------------------------------------------------------
(***************************************************************************)
(* The audit trail.                                                        *)
(***************************************************************************)
\* The changes without a row are those whose worker is on the way to write one,
\* and at most as many more as failures and fruitless re-reads.
AuditInv ==
  /\ unaudited \in Nat /\ unread \in 0..MaxUnread
  /\ Cardinality(Auditing) <= unaudited
  /\ unaudited <= Cardinality(Auditing) + unread + faults

LEMMA AuditingFinite == IsFiniteSet(Auditing) /\ Cardinality(Auditing) \in Nat
<1>1. Auditing \subseteq Workers
  BY DEF Auditing
<1> QED
  BY <1>1, TenancyAssumption, FS_Subset, FS_CardinalityType

LEMMA AuditInitially == Init => AuditInv
<1> SUFFICES ASSUME Init PROVE AuditInv
  OBVIOUS
<1>1. \A w \in Workers : work[w].at = "idle"
  BY DEF Init, Idle, Doing
<1>2. Auditing = {}
  BY <1>1 DEF Auditing
<1>3. unaudited = 0 /\ unread = 0 /\ faults = 0
  BY DEF Init
<1> QED
  BY <1>2, <1>3, FS_EmptySet, TenancyAssumption DEF AuditInv

\* One worker moves: how the set of those on the way to their audit row changes.
LEMMA AuditingStep ==
  ASSUME PoolInv, NEW w \in Workers
  PROVE  /\ ToItsAudit(w) => Auditing' = Auditing \cup {w}
         /\ Elsewhere(w)  => Auditing' = Auditing \ {w}
  BY DEF PoolInv, Auditing, AfterChange, ToItsAudit, Elsewhere

LEMMA AuditingChanges ==
  ASSUME NEW w
  PROVE  /\ Cardinality(Auditing \cup {w}) =
              IF w \in Auditing THEN Cardinality(Auditing) ELSE Cardinality(Auditing) + 1
         /\ Cardinality(Auditing \ {w}) =
              IF w \in Auditing THEN Cardinality(Auditing) - 1 ELSE Cardinality(Auditing)
  BY AuditingFinite, FS_AddElement, FS_RemoveElement

LEMMA AuditKept ==
  ASSUME PoolInv, TeamsTyped, AuditInv, [Next]_vars
  PROVE  AuditInv'
<1>1. PICK n : n = Cardinality(Auditing)
  OBVIOUS
<1>2. /\ n \in Nat /\ faults \in Nat /\ unaudited \in Nat /\ unread \in Nat /\ MaxUnread \in Nat
      /\ n <= unaudited /\ unaudited <= n + unread + faults /\ unread <= MaxUnread
  BY <1>1, AuditingFinite, TenancyAssumption DEF TeamsTyped, AuditInv
<1>3. CASE UNCHANGED << work, unaudited, unread, faults >>
  <2>1. Auditing' = Auditing
    BY <1>3 DEF Auditing
  <2>2. Cardinality(Auditing)' = n
    BY <1>1, <2>1
  <2> QED
    BY <1>2, <1>3, <2>2 DEF AuditInv
<1>4. ASSUME NEW w \in Workers, Quiet(w) PROVE AuditInv'
  <2>1. Auditing' = Auditing
    BY <1>4, AuditingStep DEF Quiet
  <2>2. Cardinality(Auditing)' = n
    BY <1>1, <2>1
  <2>3. UNCHANGED << unaudited, unread >> /\ (faults' = faults + 1 \/ faults' = faults)
    BY <1>4 DEF Quiet, Fault
  <2> QED
    BY <1>2, <2>2, <2>3 DEF AuditInv
<1>5. ASSUME NEW w \in Workers, Opens(w) PROVE AuditInv'
  <2>1. Auditing' = Auditing \cup {w} /\ w \notin Auditing
    BY <1>5, AuditingStep DEF Opens
  <2>2. Cardinality(Auditing)' = n + 1
    BY <1>1, <2>1, AuditingChanges
  <2> QED
    BY <1>2, <1>5, <2>2 DEF AuditInv, Opens
<1>6. ASSUME NEW w \in Workers, Closes(w) PROVE AuditInv'
  <2>1. Auditing' = Auditing \ {w} /\ w \in Auditing
    BY <1>6, AuditingStep DEF Closes
  <2>2. Cardinality(Auditing)' = n - 1
    BY <1>1, <2>1, AuditingChanges
  <2>3. n # 0
    BY <1>1, <2>1, AuditingFinite, FS_EmptySet
  <2>4. \/ unaudited' = unaudited - 1 /\ unread' = unread /\ faults' = faults
        \/ unaudited' = unaudited /\ unread' = unread + 1 /\ unread < MaxUnread /\ faults' = faults
        \/ unaudited' = unaudited /\ unread' = unread /\ faults' = faults + 1
    BY <1>6 DEF Closes, Fault
  <2> QED
    BY <1>2, <2>2, <2>3, <2>4 DEF AuditInv
<1> QED
  BY <1>3, <1>4, <1>5, <1>6, WorkersMove

-----------------------------------------------------------------------------
(***************************************************************************)
(* The theorems.                                                           *)
(***************************************************************************)
IsolationInv == PoolInv /\ TeamsTyped /\ TodoInv /\ strays = {} /\ AuditInv

\* The pool, the teams, the changes under way and the audit trail fit together in
\* every reachable state.
THEOREM IsolationInvariance == Spec => []IsolationInv
<1>1. Init => IsolationInv
  <2>1. Init => strays = {}
    BY DEF Init
  <2> QED
    BY <2>1, PoolInitially, TeamsInitially, AuditInitially DEF IsolationInv
<1>2. IsolationInv /\ [Next]_vars => IsolationInv'
  <2> SUFFICES ASSUME IsolationInv, [Next]_vars PROVE IsolationInv'
    OBVIOUS
  <2>1. PoolInv' /\ TeamsTyped' /\ TodoInv'
    BY PoolKept, TeamsKept, TodoKept DEF IsolationInv
  <2>2. (strays = {})' /\ AuditInv'
    BY StraysKept, AuditKept DEF IsolationInv
  <2> QED
    BY <2>1, <2>2 DEF IsolationInv
<1> QED
  BY <1>1, <1>2, PTL DEF Spec

\* Types; a worker holds one connection at most, and none when it is idle.
THEOREM TenancyTypesCorrect == Spec => []TenancyTypeOK
<1>1. IsolationInv => TenancyTypeOK
  BY DEF IsolationInv, PoolInv, TeamsTyped, AuditInv, ConnRow, ChangeRow, DoingRow, Stages,
     TenancyTypeOK
<1> QED
  BY <1>1, IsolationInvariance, PTL

\* No connection waits in the pool with someone's settings on it, whatever the
\* transactions before did and however they ended.
THEOREM PoolIsBlank == Spec => []PooledIsBlank
<1>1. IsolationInv => PooledIsBlank
  BY DEF IsolationInv, PoolInv
<1> QED
  BY <1>1, IsolationInvariance, PTL

\* Every statement runs under the very context its request or task has set, in
\* each of the transactions a session goes through, and after a document task has
\* changed its context within one.
THEOREM StatementsStayOwn == Spec => []StatementsInOwnContext
<1>1. IsolationInv => StatementsInOwnContext
  BY DEF IsolationInv, StatementsInOwnContext
<1> QED
  BY <1>1, IsolationInvariance, PTL

\* No answer shows rows, and no change reaches the team, of another client than
\* the request's.
THEOREM TenantsStayApart == Spec => []RequestsStayInTenant
<1>1. IsolationInv => RequestsStayInTenant
  BY DEF IsolationInv, RequestsStayInTenant
<1> QED
  BY <1>1, IsolationInvariance, PTL

\* A committed change is without its audit row for one of three reasons: its
\* request is on the way to write it, a failure took it, or the re-read after the
\* commit raised - the one way to lose it where nothing has failed.
THEOREM ChangesLeaveARow == Spec => []ChangesAreAudited
<1>1. IsolationInv => ChangesAreAudited
  BY DEF IsolationInv, AuditInv, ChangesAreAudited
<1> QED
  BY <1>1, IsolationInvariance, PTL
=============================================================================
