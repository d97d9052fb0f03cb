---------------------------- MODULE DigestProofs ----------------------------
(***************************************************************************)
(* Proofs about Digest, for any clans, tokens, settings, rollovers and     *)
(* failures: the types, that the next digest is always scheduled, that a   *)
(* digest waits for its scan, and that none goes out twice without an      *)
(* excuse.                                                                 *)
(***************************************************************************)
EXTENDS Digest, TLAPS

-----------------------------------------------------------------------------
(* Types of what the operators return.                                     *)

Thens == {"none", "schedule", "catchUp", "ready", "start"}

\* An activation that sends has a clan, a rollover and each kind once; the others that
\* work for one clan have it.
Formed(t) ==
  /\ t.pc \in {"post", "record"} =>
       t.clan \in Clans /\ t.of \in Days /\ t.kind \notin t.rest
  /\ t.pc \in {"login", "destroy"} => t.clan \in Clans /\ t.token \in Tokens
  /\ t.pc = "register" /\ t.then # "ready" => t.clan \in Clans

\* Everything but what is counted in posts and kept in excused.
DigestTyped ==
  /\ TypeOK
  /\ \A i \in Slots : Formed(task[i])
  /\ \A c \in Clans : ctx[c] = NoCtx \/ ctx[c].token \in Tokens

LEMMA NoneTyped ==
  /\ NoCtx \in Context /\ NoCtx.kinds = {} /\ NoCtx.timer = 0 /\ NoCtx.due = 0
  /\ NoClient \in SharedClient
  /\ NoTask \in Activation /\ NoTask.pc = "idle" /\ Formed(NoTask)
BY DigestAssumption DEF NoCtx, NoClient, NoTask, Context, SharedClient, Activation, Kinds,
                        Formed

LEMMA ScheduleTyped ==
  ASSUME TypeOK, NEW x \in Context
  PROVE  /\ ScheduleNextDigest(x) \in Context
         /\ ScheduleNextDigest(x).timer = IF x.kinds = {} THEN 0 ELSE day + 1
         /\ ScheduleNextDigest(x).kinds = x.kinds /\ ScheduleNextDigest(x).dark = FALSE
         /\ ScheduleNextDigest(x).due = x.due /\ ScheduleNextDigest(x).owes = x.owes
         /\ ScheduleNextDigest(x).token = x.token
<1> DEFINE at == IF x.kinds = {} THEN 0 ELSE day + 1
<1>1. at \in 0..(MaxDay + 1)
  BY DigestAssumption DEF TypeOK
<1> HIDE DEF at
<1>2. ScheduleNextDigest(x) = [x EXCEPT !.timer = at, !.dark = FALSE]
  BY DEF ScheduleNextDigest, at
<1> QED
  BY <1>1, <1>2 DEF Context, at

LEMMA RescheduledTyped ==
  ASSUME TypeOK, NEW c \in Clans, ctx' = Rescheduled(c)
  PROVE  ctx' \in [Clans -> Context]
BY ScheduleTyped DEF TypeOK, Rescheduled

LEMMA ArmedTyped ==
  ASSUME TypeOK, NEW c \in Clans, NEW x \in Context, NEW r \in 0..MaxDay,
         NEW kinds \in SUBSET Kinds
  PROVE  /\ Armed(c, x, r, kinds) \in Context
         /\ Armed(c, x, r, kinds).kinds = x.kinds
         /\ Armed(c, x, r, kinds).timer = x.timer
         /\ Armed(c, x, r, kinds).dark = x.dark
         /\ Armed(c, x, r, kinds).token = x.token
<1>1. Armed(c, x, r, kinds) \in
        {[x EXCEPT !.due = 0, !.owes = {}], [x EXCEPT !.due = r, !.owes = kinds]}
  BY DEF Armed
<1>2. 0 \in 0..MaxDay /\ {} \in SUBSET Kinds
  BY DigestAssumption
<1> QED
  BY <1>1, <1>2 DEF Context

LEMMA AfterTyped ==
  ASSUME TypeOK, NEW c, NEW x \in Context, NEW then
  PROVE  CtxAfter(then, c, x) \in Context
BY ScheduleTyped DEF CtxAfter

\* The activation u has begun to send some of the kinds for the rollover r.
Sends(u, c, r, kinds, then) ==
  /\ u.pc = "post" /\ u.clan = c /\ u.of = r /\ u.then = then
  /\ u.rest \cup {u.kind} \subseteq kinds

LEMMA SendTyped ==
  ASSUME TypeOK, NEW i, NEW c \in Clans, NEW r \in Days, NEW kinds \in SUBSET Kinds,
         NEW waived \in BOOLEAN, NEW then \in Thens, NEW left \in SUBSET Clans,
         Sendable(c, kinds) # {}, NEW t, t = Send(i, c, r, kinds, waived, then, left)
  PROVE  t \in Activation /\ Formed(t) /\ t.waived = waived /\ Sends(t, c, r, kinds, then)
<1> DEFINE k == IF "daily" \in Sendable(c, kinds) THEN "daily" ELSE "weekly"
           rest == IF k = "daily" THEN kinds \ {k} ELSE {}
<1>1. /\ k \in Kinds /\ rest \in SUBSET Kinds /\ rest \subseteq kinds /\ k \notin rest
      /\ k \in kinds
  BY DEF Kinds, Sendable
<1>2. ctx[c].token \in Tokens \cup {None} /\ r \in 0..MaxDay /\ day \in 0..MaxDay
  BY DigestAssumption DEF TypeOK, Context, Days
<1>3. t =
        [NoTask EXCEPT !.pc = "post", !.clan = c, !.token = ctx[c].token, !.of = r,
                       !.kind = k, !.rest = rest, !.at = day, !.waived = waived,
                       !.then = then, !.left = left]
  BY DEF Send
<1> HIDE DEF k, rest
<1>4. ASSUME NEW token \in Tokens \cup {None},
             t =
               [NoTask EXCEPT !.pc = "post", !.clan = c, !.token = token, !.of = r,
                       !.kind = k, !.rest = rest, !.at = day, !.waived = waived,
                       !.then = then, !.left = left]
      PROVE  /\ t \in Activation
             /\ t.pc = "post" /\ t.clan = c /\ t.of = r /\ t.waived = waived
             /\ t.then = then /\ t.rest = rest /\ t.kind = k
  BY <1>1, <1>2, <1>4, NoneTyped DEF Activation, Thens
<1> QED
  BY <1>1, <1>2, <1>3, <1>4 DEF Formed, Sends

LEMMA ResumedTyped ==
  ASSUME NEW then, NEW c, NEW left \in SUBSET Clans
  PROVE  LET t == Resumed(then, c, left)
         IN  t \in Activation /\ Formed(t) /\ t.pc \in {"idle", "ready"}
BY NoneTyped DEF Resumed, NoTask, Activation, Formed

-----------------------------------------------------------------------------
(* Turns: almost every step moves one activation and one context.          *)

Turn(i, c, z, u) ==
  /\ ctx' = [ctx EXCEPT ![c] = z] /\ task' = [task EXCEPT ![i] = u]
  /\ z \in Context /\ u \in Activation /\ Formed(u)
  /\ z = NoCtx \/ z.token \in Tokens

Flying(t) == t.pc \in {"post", "record"}

\* What arming leaves: a digest that is being sent, or a context that waits for a scan.
LEMMA ArmShape ==
  ASSUME TypeOK, NEW i \in Slots, NEW c \in Clans, NEW x \in Context, NEW r \in Days,
         x.token \in Tokens, NEW kinds \in SUBSET Kinds, NEW then \in Thens,
         NEW left \in SUBSET Clans,
         ArmDigest(i, c, x, r, kinds, then, left)
  PROVE  \E z \in Context, u \in Activation :
           /\ Turn(i, c, z, u) /\ z.kinds = x.kinds
           /\ \/ /\ Sends(u, c, r, kinds, then) /\ ~u.waived
                 /\ HasCompletedScanStartedSince(c, r)
                 /\ z.due = 0 /\ z.timer = x.timer /\ z.dark = x.dark
              \/ /\ u.pc \in {"idle", "ready"}
                 /\ z.due = 0 \/ (z.due = r /\ z.owes = kinds)
                 /\ IF then = "schedule"
                      THEN z.timer = IF x.kinds = {} THEN 0 ELSE day + 1
                      ELSE z.timer = x.timer /\ z.dark = x.dark
<1> DEFINE y == Armed(c, x, r, kinds)
<1>1. /\ y \in Context /\ y.kinds = x.kinds /\ y.timer = x.timer /\ y.dark = x.dark
      /\ r \in 0..MaxDay /\ y.token = x.token
  BY ArmedTyped, DigestAssumption DEF Days
<1>2. /\ HasCompletedScanStartedSince(c, r) => y.due = 0
      /\ y.due = 0 \/ (y.due = r /\ y.owes = kinds)
  BY DEF Armed, Context
<1>3. CASE HasCompletedScanStartedSince(c, r) /\ Sendable(c, kinds) # {}
  <2> DEFINE u == Send(i, c, r, kinds, FALSE, then, left)
  <2>1. /\ ctx' = [ctx EXCEPT ![c] = y] /\ task' = [task EXCEPT ![i] = u]
    BY <1>3 DEF ArmDigest
  <2>2. u \in Activation /\ Formed(u) /\ Sends(u, c, r, kinds, then) /\ ~u.waived
    BY <1>3, SendTyped, FALSE \in BOOLEAN
  <2> HIDE DEF u, y
  <2> QED
    BY <1>1, <1>2, <1>3, <2>1, <2>2 DEF Turn
<1>4. CASE ~(HasCompletedScanStartedSince(c, r) /\ Sendable(c, kinds) # {})
  <2> DEFINE u == Resumed(then, c, left)
             z == CtxAfter(then, c, y)
  <2>1. /\ ctx' = [ctx EXCEPT ![c] = z] /\ task' = [task EXCEPT ![i] = u]
    BY <1>4 DEF ArmDigest
  <2>2. u \in Activation /\ Formed(u) /\ u.pc \in {"idle", "ready"}
    BY ResumedTyped
  <2> HIDE DEF y
  <2>3. /\ z \in Context /\ z.kinds = x.kinds
        /\ z.due = y.due /\ z.owes = y.owes /\ z.token = x.token
        /\ IF then = "schedule"
             THEN z.timer = IF x.kinds = {} THEN 0 ELSE day + 1
             ELSE z.timer = x.timer /\ z.dark = x.dark
    BY <1>1, ScheduleTyped DEF CtxAfter
  <2> HIDE DEF u, z
  <2>4. Turn(i, c, z, u)
    BY <2>1, <2>2, <2>3 DEF Turn
  <2>5. z.due = 0 \/ (z.due = r /\ z.owes = kinds)
    BY <1>2, <2>3
  <2> QED
    BY <2>2, <2>3, <2>4, <2>5
<1> QED
  BY <1>3, <1>4

\* A bot that is started has no digest pending, and its timer set or a login or a
\* registration under way that sets it.
LEMMA StartShape ==
  ASSUME TypeOK, NEW i \in Slots, NEW c \in Clans, ctx[c] = NoCtx,
         NEW w \in Settings[c], NEW clients \in [Tokens -> SharedClient],
         StartBot(i, c, w, clients)
  PROVE  /\ client' \in [Tokens -> SharedClient]
         /\ \E z \in Context, u \in Activation :
              /\ Turn(i, c, z, u) /\ ~Flying(u)
              /\ z.due = 0 /\ z.timer \in {0, day + 1}
              /\ z.kinds # {} =>
                   \/ z.timer # 0
                   \/ u.clan = c /\ u.pc = "login"
                   \/ u.clan = c /\ u.pc = "register" /\ u.then = "catchUp"
<1> DEFINE x == [NoCtx EXCEPT !.token = w.token, !.kinds = w.kinds]
<1>1. w.token \in Tokens \cup {None} /\ w.kinds \in SUBSET Kinds
  BY DigestAssumption
<1>2. x \in Context /\ x.due = 0 /\ x.timer = 0 /\ x.kinds = w.kinds
      /\ x.token = w.token
  BY <1>1, NoneTyped DEF Context
<1>3. /\ ScheduleNextDigest(x) \in Context /\ ScheduleNextDigest(x).due = 0
      /\ ScheduleNextDigest(x).timer = IF x.kinds = {} THEN 0 ELSE day + 1
      /\ ScheduleNextDigest(x).kinds = x.kinds /\ ScheduleNextDigest(x).token = x.token
  BY <1>2, ScheduleTyped
<1>4. day \in Nat
  BY DEF TypeOK
<1> HIDE DEF x
<1>5. CASE w.token = None
  <2>1. Turn(i, c, NoCtx, NoTask) /\ client' = clients
    BY <1>5, NoneTyped DEF StartBot, Turn
  <2> QED
    BY <2>1, NoneTyped DEF Flying
<1>6. CASE w.token # None /\ clients[w.token].state = "none"
  <2> DEFINE u == [NoTask EXCEPT !.pc = "login", !.clan = c, !.token = w.token]
  <2>1. /\ u \in Activation /\ Formed(u) /\ u.pc = "login" /\ u.clan = c
    BY <1>1, <1>6, NoneTyped DEF Activation, Formed
  <2>2. /\ ctx' = [ctx EXCEPT ![c] = x] /\ task' = [task EXCEPT ![i] = u]
        /\ client' = [clients EXCEPT ![w.token] =
                        [state |-> "login", users |-> {}, by |-> i]]
    BY <1>6 DEF StartBot, x
  <2>3. client' \in [Tokens -> SharedClient]
    BY <2>2 DEF SharedClient
  <2> HIDE DEF u
  <2> QED
    BY <1>1, <1>2, <1>6, <2>1, <2>2, <2>3 DEF Turn, Flying
<1>7. CASE w.token # None /\ clients[w.token].state = "ready"
  <2> DEFINE u == [NoTask EXCEPT !.pc = "register", !.clan = c, !.then = "catchUp"]
  <2>1. /\ u \in Activation /\ Formed(u) /\ u.pc = "register" /\ u.clan = c
        /\ u.then = "catchUp"
    BY NoneTyped DEF Activation, Formed
  <2>2. /\ ctx' = [ctx EXCEPT ![c] = x] /\ task' = [task EXCEPT ![i] = u]
        /\ client' = [clients EXCEPT ![w.token].users = @ \cup {c}]
    BY <1>7 DEF StartBot, x
  <2>3. client' \in [Tokens -> SharedClient]
    BY <2>2 DEF SharedClient
  <2> HIDE DEF u
  <2> QED
    BY <1>1, <1>2, <1>7, <2>1, <2>2, <2>3 DEF Turn, Flying
<1>8. CASE w.token # None /\ clients[w.token].state \notin {"none", "ready"}
  <2>1. /\ ctx' = [ctx EXCEPT ![c] = ScheduleNextDigest(x)]
        /\ task' = [task EXCEPT ![i] = NoTask]
        /\ client' = [clients EXCEPT ![w.token].users = @ \cup {c}]
    BY <1>8 DEF StartBot, x
  <2>2. client' \in [Tokens -> SharedClient]
    BY <2>1 DEF SharedClient
  <2> DEFINE z == ScheduleNextDigest(x)
  <2>3. /\ z \in Context /\ z.due = 0 /\ z.timer \in {0, day + 1}
        /\ z.kinds # {} => z.timer # 0
        /\ z.token \in Tokens
    BY <1>1, <1>2, <1>3, <1>4, <1>8
  <2> HIDE DEF z
  <2>4. Turn(i, c, z, NoTask) /\ ~Flying(NoTask)
    BY <2>1, <2>3, NoneTyped DEF Turn, Flying, z
  <2> QED
    BY <2>2, <2>3, <2>4, NoneTyped
<1> QED
  BY <1>5, <1>6, <1>7, <1>8

-----------------------------------------------------------------------------
(* The invariant.                                                          *)

\* The activation t sends, or will send, the kind k of the clan c.
Carries(t, c, k) == Flying(t) /\ t.clan = c /\ k \in t.rest \cup {t.kind}

\* It has posted that kind, and not yet recorded it.
Posted(t, c, k) == t.pc = "record" /\ t.clan = c /\ t.kind = k

Owes(x, k) == x.due # 0 /\ k \in x.owes

\* Nothing of the digest of the last rollover is out or under way.
Unsent(c, k) ==
  /\ \A i \in Slots : ~Carries(task[i], c, k)
  /\ posts[c][k][day] = 0

\* The digest of the last rollover is pending, under way or out, one at a time.
Sole(c, k) ==
  /\ \A i, j \in Slots : Carries(task[i], c, k) /\ Carries(task[j], c, k) => i = j
  /\ Owes(ctx[c], k) \/ Overdue(c) => Unsent(c, k)
  /\ \A i \in Slots :
       Carries(task[i], c, k) /\ ~Posted(task[i], c, k) => posts[c][k][day] = 0
  /\ posts[c][k][day] \in {0, 1}
  /\ posts[c][k][day] = 1 =>
       reported[c][k].of = day \/ \E i \in Slots : Posted(task[i], c, k)

SoleInv ==
  \A c \in Clans, k \in Kinds :
    day \in Days /\ <<c, k, day>> \notin excused => Sole(c, k)

\* What is pending or under way is of the last rollover, and a timer that is late keeps
\* every scan from completing.
ClanDay(c) ==
  /\ ctx[c].due \in {0, day} /\ ctx[c].timer \in {0, day, day + 1}
  /\ Overdue(c) => completed[c] < day
  /\ completed[c] <= day
  /\ scan[c].pc = "scanning" => completed[c] <= scan[c].began /\ scan[c].began <= day

SendOfDay(t) ==
  Flying(t) => t.of = day /\ (t.waived \/ completed[t.clan] >= day)

DayInv ==
  /\ \A c \in Clans : ClanDay(c)
  /\ \A i \in Slots : SendOfDay(task[i])
  /\ \A c \in Clans, k \in Kinds, r \in Days : r > day => posts[c][k][r] = 0

DigestInv == DigestTyped /\ DayInv /\ SoleInv /\ NextIsComing /\ RepeatsAreExcused

-----------------------------------------------------------------------------
(* What a turn may do.                                                     *)

\* The digest of the last rollover may be sent: nothing of it is, or it is excused.
May(c, k) == <<c, k, day>> \in excused' \/ Unsent(c, k)

\* A context that waits for no more than before, or for what may be sent.
Waits(c, z) ==
  \/ z.due = 0
  \/ z.due = ctx[c].due /\ z.owes = ctx[c].owes
  \/ z.due = day /\ \A k \in Kinds : k \in z.owes => May(c, k)

\* A turn of an activation that sends nothing.
Rests(i, c, z, u) ==
  /\ ~Flying(u) /\ ~Flying(task[i])
  /\ Waits(c, z) /\ z.timer \in {0, day + 1, ctx[c].timer}

\* A turn that begins to send.
Launches(i, c, z, u) ==
  /\ u.pc = "post" /\ u.clan = c /\ ~Flying(task[i]) /\ SendOfDay(u) /\ day \in Days
  /\ z.due = 0 /\ z.timer \in {0, day + 1}
  /\ \A k \in Kinds : Carries(u, c, k) => May(c, k)

\* The activation t will arm the timer of the clan c.
Rearms(t, c) ==
  /\ t.clan = c
  /\ \/ t.pc = "login"
     \/ t.pc = "register" /\ t.then \in {"catchUp", "schedule"}
     \/ t.pc \in {"post", "record"} /\ t.then = "schedule"

\* A bot with digests keeps its timer, or one that arms it.
Comes(i, c, z, u) ==
  /\ \A d \in Clans \ {c} : ~Rearms(task[i], d)
  /\ z # NoCtx /\ z.kinds # {} /\ ~z.dark =>
       \/ z.timer # 0 \/ Rearms(u, c)
       \/ \E j \in Slots \ {i} : Rearms(task[j], c)

Step(i, c, z, u) ==
  Turn(i, c, z, u) /\ Comes(i, c, z, u) /\ (Rests(i, c, z, u) \/ Launches(i, c, z, u))

\* A turn of an activation that has no clan.
Shifts(i, u) ==
  /\ UNCHANGED ctx /\ task' = [task EXCEPT ![i] = u]
  /\ u \in Activation /\ Formed(u) /\ ~Flying(u) /\ ~Flying(task[i])
  /\ \A d \in Clans : ~Rearms(task[i], d)

Moves ==
  \/ UNCHANGED <<ctx, task>>
  \/ \E i \in Slots, u \in Activation : Shifts(i, u)
  \/ \E i \in Slots, c \in Clans, z \in Context, u \in Activation : Step(i, c, z, u)

Kept == UNCHANGED <<day, posts, reported, completed>> /\ excused \subseteq excused'

LEMMA SchedulesRearms ==
  \A i \in Slots, c \in Clans : Schedules(i, c) <=> Rearms(task[i], c)
BY DEF Schedules, Rearms

\* What a catch-up finds owed has not been sent, unless a send is under way, which
\* excuses it.
LEMMA OwedMay ==
  ASSUME DigestInv, NEW c \in Clans, NEW k \in Owed(c, ctx[c]), UNCHANGED <<day>>,
         excused' = excused \cup (Sending(c) \cap {<<c, q, day>> : q \in Owed(c, ctx[c])})
  PROVE  k \in Kinds /\ day \in Days /\ May(c, k)
<1>1. /\ k \in Kinds /\ reported[c][k].of # day
      /\ reported[c][k].at # Never /\ reported[c][k].at < day
      /\ reported[c][k].at \in Nat /\ day \in 0..MaxDay
  BY DigestAssumption
     DEF Owed, DigestKindsFor, DigestInv, DigestTyped, TypeOK, Context
<1>2. day \in Days
  BY <1>1, DigestAssumption DEF Days
<1>3. ASSUME <<c, k, day>> \notin excused', NEW i \in Slots, Carries(task[i], c, k)
      PROVE  FALSE
  <2>1. task[i].of = day /\ task[i].clan = c /\ task[i].pc \in {"post", "record"}
    BY <1>3 DEF DigestInv, DayInv, SendOfDay, Carries, Flying
  <2>2. <<c, k, day>> \in Sending(c)
    BY <1>3, <2>1 DEF Sending, Carries
  <2> QED
    BY <1>3, <2>2
<1>4. ASSUME <<c, k, day>> \notin excused'
      PROVE  Unsent(c, k)
  <2>1. Sole(c, k)
    BY <1>1, <1>2, <1>4 DEF DigestInv, SoleInv
  <2>2. \A i \in Slots : ~Posted(task[i], c, k)
    BY <1>3, <1>4 DEF Posted, Carries, Flying
  <2> QED
    BY <1>1, <1>3, <1>4, <2>1, <2>2 DEF Sole, Unsent
<1> QED
  BY <1>1, <1>2, <1>4 DEF May

-----------------------------------------------------------------------------
(* The activations, one by one.                                            *)

\* The timer of a bot after a step of the activation i, which arms no other bot's.
LEMMA StillComes ==
  ASSUME DigestInv, NEW i \in Slots, NEW c \in Clans, NEW z, NEW u,
         \A d \in Clans \ {c} : ~Rearms(task[i], d),
         \/ z.kinds = {} \/ z.dark \/ z.timer # 0 \/ Rearms(u, c)
         \/ /\ z.kinds = ctx[c].kinds /\ z.dark = ctx[c].dark /\ z.timer = ctx[c].timer
            /\ ~Rearms(task[i], c)
  PROVE  Comes(i, c, z, u)
<1>1. CASE z.kinds = {} \/ z.dark \/ z.timer # 0 \/ Rearms(u, c)
  BY <1>1 DEF Comes
<1>2. CASE /\ z.kinds = ctx[c].kinds /\ z.dark = ctx[c].dark /\ z.timer = ctx[c].timer
           /\ ~Rearms(task[i], c)
  <2>1. ASSUME z.kinds # {}, ~z.dark, z.timer = 0
        PROVE  \E j \in Slots \ {i} : Rearms(task[j], c)
    <3>1. ctx[c] # NoCtx
      BY <1>2, <2>1, NoneTyped
    <3>2. \E j \in Slots : Rearms(task[j], c)
      BY <1>2, <2>1, <3>1, SchedulesRearms DEF DigestInv, NextIsComing, Runs
    <3> QED
      BY <1>2, <3>2
  <2> QED
    BY <2>1 DEF Comes
<1> QED
  BY <1>1, <1>2

\* A catch-up for the clan c.
LEMMA CatchUpStep ==
  ASSUME DigestInv, NEW i \in Slots, NEW c \in Clans, NEW then \in {"ready", "schedule"},
         NEW left \in SUBSET Clans, CatchUp(i, c, then, left), ~Flying(task[i]),
         \A d \in Clans \ {c} : ~Rearms(task[i], d),
         then = "ready" => ~Rearms(task[i], c),
         UNCHANGED <<day, posts, reported, completed>>
  PROVE  Kept /\ \E z \in Context, u \in Activation : Step(i, c, z, u)
<1> DEFINE x == ctx[c]
           kinds == Owed(c, x)
<1>1. /\ x \in Context /\ ctx \in [Clans -> Context] /\ task \in [Slots -> Activation]
      /\ TypeOK /\ day \in Nat
      /\ x = NoCtx \/ x.token \in Tokens
  BY DEF DigestInv, DigestTyped, TypeOK
<1>2. then \in Thens
  BY DEF Thens
<1>3. /\ Resumed(then, c, left) \in Activation /\ Formed(Resumed(then, c, left))
      /\ ~Flying(Resumed(then, c, left))
  BY ResumedTyped DEF Flying
<1>4. CASE ~Runs(c)
  <2> DEFINE u == Resumed(then, c, left)
  <2>1. Kept /\ task' = [task EXCEPT ![i] = u] /\ ctx' = [ctx EXCEPT ![c] = x]
    BY <1>1, <1>4 DEF CatchUp, Kept
  <2> HIDE DEF u
  <2>2. x = NoCtx
    BY <1>4 DEF Runs
  <2>3. Comes(i, c, x, u)
    BY <2>2, StillComes, NoneTyped
  <2>4. Rests(i, c, x, u)
    BY <1>3 DEF Rests, Waits, u
  <2>5. Turn(i, c, x, u)
    BY <1>1, <1>3, <2>1 DEF Turn, u
  <2> QED
    BY <1>1, <1>3, <2>1, <2>3, <2>4, <2>5 DEF Step, u
<1>5. CASE Runs(c) /\ Owed(c, ctx[c]) = {}
  <2> DEFINE u == Resumed(then, c, left)
             z == CtxAfter(then, c, x)
  <2>1. Kept /\ task' = [task EXCEPT ![i] = u] /\ ctx' = [ctx EXCEPT ![c] = z]
    BY <1>5 DEF CatchUp, Kept
  <2>2. /\ z \in Context /\ z.kinds = x.kinds /\ z.due = x.due /\ z.owes = x.owes
        /\ z.token = x.token
        /\ IF then = "schedule"
             THEN z.timer = IF x.kinds = {} THEN 0 ELSE day + 1
             ELSE z.timer = x.timer /\ z.dark = x.dark
    BY <1>1, ScheduleTyped DEF CtxAfter
  <2> HIDE DEF u, z
  <2>3. Comes(i, c, z, u)
    <3>1. \/ z.kinds = {} \/ z.timer # 0
          \/ /\ z.kinds = ctx[c].kinds /\ z.dark = ctx[c].dark /\ z.timer = ctx[c].timer
             /\ ~Rearms(task[i], c)
      BY <1>1, <2>2
    <3> QED
      BY <3>1, StillComes
  <2>4. Rests(i, c, z, u)
    BY <1>3, <2>2 DEF Rests, Waits, u
  <2>5. Turn(i, c, z, u)
    BY <1>1, <1>3, <1>5, <2>1, <2>2 DEF Turn, Runs, u
  <2> QED
    BY <1>3, <2>1, <2>2, <2>3, <2>4, <2>5 DEF Step, u
<1>6. CASE Runs(c) /\ Owed(c, ctx[c]) # {}
  <2>1. /\ ArmDigest(i, c, x, day, kinds, then, left)
        /\ excused' = excused \cup (Sending(c) \cap {<<c, q, day>> : q \in Owed(c, ctx[c])})
    BY <1>6 DEF CatchUp
  <2>2. \A k \in kinds : k \in Kinds /\ day \in Days /\ May(c, k)
    BY <2>1, OwedMay
  <2>3. day \in Days /\ kinds \in SUBSET Kinds /\ x.token \in Tokens
    BY <1>1, <1>6, <2>2 DEF Runs
  <2> HIDE DEF kinds
  <2>4. PICK z \in Context, u \in Activation :
           /\ Turn(i, c, z, u) /\ z.kinds = x.kinds
           /\ \/ /\ Sends(u, c, day, kinds, then) /\ ~u.waived
                 /\ HasCompletedScanStartedSince(c, day)
                 /\ z.due = 0 /\ z.timer = x.timer /\ z.dark = x.dark
              \/ /\ u.pc \in {"idle", "ready"}
                 /\ z.due = 0 \/ (z.due = day /\ z.owes = kinds)
                 /\ IF then = "schedule"
                      THEN z.timer = IF x.kinds = {} THEN 0 ELSE day + 1
                      ELSE z.timer = x.timer /\ z.dark = x.dark
    BY <1>1, <1>2, <2>1, <2>3, ArmShape
  <2>5. Comes(i, c, z, u)
    <3>1. \/ z.kinds = {} \/ z.timer # 0 \/ Rearms(u, c)
          \/ /\ z.kinds = ctx[c].kinds /\ z.dark = ctx[c].dark /\ z.timer = ctx[c].timer
             /\ ~Rearms(task[i], c)
      BY <1>1, <2>4 DEF Sends, Rearms
    <3> QED
      BY <3>1, StillComes
  <2>6. Rests(i, c, z, u) \/ Launches(i, c, z, u)
    <3>1. CASE /\ Sends(u, c, day, kinds, then) /\ ~u.waived
               /\ HasCompletedScanStartedSince(c, day)
               /\ z.due = 0 /\ z.timer = x.timer
      <4>1. completed[c] >= day
        BY <3>1 DEF HasCompletedScanStartedSince
      <4>2. x.timer \in {0, day, day + 1} /\ completed[c] \in Nat
            /\ (x.timer \in 1..day => completed[c] < day)
        BY DEF DigestInv, DayInv, ClanDay, Overdue, DigestTyped, TypeOK
      <4>3. z.timer \in {0, day + 1}
        BY <1>1, <2>3, <3>1, <4>1, <4>2 DEF Days
      <4>4. SendOfDay(u) /\ u.pc = "post" /\ u.clan = c
        BY <3>1, <4>1 DEF SendOfDay, Sends
      <4>5. \A k \in Kinds : Carries(u, c, k) => May(c, k)
        BY <2>2, <3>1 DEF Carries, Sends
      <4> QED
        BY <2>3, <3>1, <4>3, <4>4, <4>5 DEF Launches
    <3>2. CASE /\ u.pc \in {"idle", "ready"}
               /\ z.due = 0 \/ (z.due = day /\ z.owes = kinds)
               /\ IF then = "schedule"
                    THEN z.timer = IF x.kinds = {} THEN 0 ELSE day + 1
                    ELSE z.timer = x.timer /\ z.dark = x.dark
      <4>1. z.timer \in {0, day + 1, ctx[c].timer}
        BY <3>2
      <4>2. Waits(c, z)
        BY <2>2, <3>2 DEF Waits
      <4> QED
        BY <3>2, <4>1, <4>2 DEF Rests, Flying
    <3> QED
      BY <2>4, <3>1, <3>2
  <2>7. Kept
    BY <2>1 DEF Kept
  <2> QED
    BY <2>4, <2>5, <2>6, <2>7 DEF Step
<1> QED
  BY <1>4, <1>5, <1>6

\* A step that posts and records nothing, and leaves the day and the scans.
Onward == Moves /\ Kept /\ client' \in [Tokens -> SharedClient]

\* A bot that is started over the clients that are there.
LEMMA StartOnward ==
  ASSUME DigestInv, NEW i \in Slots, NEW c \in Clans, ctx[c] = NoCtx,
         NEW w \in Settings[c], NEW clients \in [Tokens -> SharedClient],
         StartBot(i, c, w, clients), ~Flying(task[i]),
         \A d \in Clans \ {c} : ~Rearms(task[i], d), Kept
  PROVE  Onward
<1>1. TypeOK
  BY DEF DigestInv, DigestTyped
<1>2. client' \in [Tokens -> SharedClient]
  BY <1>1, StartShape
<1>3. PICK z \in Context, u \in Activation :
         /\ Turn(i, c, z, u) /\ ~Flying(u)
         /\ z.due = 0 /\ z.timer \in {0, day + 1}
         /\ z.kinds # {} =>
              \/ z.timer # 0
              \/ u.clan = c /\ u.pc = "login"
              \/ u.clan = c /\ u.pc = "register" /\ u.then = "catchUp"
  BY <1>1, StartShape
<1>4. z.kinds = {} \/ z.timer # 0 \/ Rearms(u, c)
  BY <1>3 DEF Rearms
<1>5. Comes(i, c, z, u)
  BY <1>4, StillComes
<1>6. Rests(i, c, z, u)
  BY <1>3 DEF Rests, Waits
<1>7. Step(i, c, z, u)
  BY <1>3, <1>5, <1>6 DEF Step
<1> QED
  BY <1>2, <1>7 DEF Onward, Moves

\* The activation i turns to u, and no bot loses an activation that arms its timer.
LEMMA ShiftOnward ==
  ASSUME DigestInv, NEW i \in Slots, NEW u \in Activation, Formed(u), ~Flying(u),
         ~Flying(task[i]), \A d \in Clans : ~Rearms(task[i], d),
         UNCHANGED ctx, task' = [task EXCEPT ![i] = u], Kept,
         client' \in [Tokens -> SharedClient]
  PROVE  Onward
<1>1. Shifts(i, u)
  BY DEF Shifts
<1> QED
  BY <1>1 DEF Moves, Onward

LEMMA BootNextOnward ==
  ASSUME DigestInv, NEW i \in Slots, BootNext(i)
  PROVE  Onward
<1>1. Kept /\ ~Flying(task[i]) /\ \A d \in Clans : ~Rearms(task[i], d)
  BY DEF BootNext, Kept, Free, Flying, Rearms
<1>2. PICK c \in booting :
         IF Runs(c) THEN UNCHANGED <<ctx, client, task>> ELSE StartBot(i, c, wants[c], client)
  BY DEF BootNext
<1>3. /\ c \in Clans /\ wants[c] \in Settings[c] /\ client \in [Tokens -> SharedClient]
  BY DEF DigestInv, DigestTyped, TypeOK
<1>4. CASE Runs(c)
  BY <1>1, <1>2, <1>3, <1>4 DEF Onward, Moves
<1>5. CASE ~Runs(c)
  BY <1>1, <1>2, <1>3, <1>5, StartOnward DEF Runs
<1> QED
  BY <1>4, <1>5

\* The activation i ends with the timer of its clan set.
LEMMA RescheduledOnward ==
  ASSUME DigestInv, NEW i \in Slots, NEW c \in Clans, ctx' = Rescheduled(c),
         task' = [task EXCEPT ![i] = NoTask], ~Flying(task[i]),
         \A d \in Clans \ {c} : ~Rearms(task[i], d), Kept,
         client' \in [Tokens -> SharedClient]
  PROVE  Onward
<1> DEFINE z == IF Runs(c) THEN ScheduleNextDigest(ctx[c]) ELSE ctx[c]
<1>1. TypeOK /\ ctx \in [Clans -> Context] /\ day \in Nat
  BY DEF DigestInv, DigestTyped, TypeOK
<1>4. /\ z \in Context /\ z.due = ctx[c].due /\ z.owes = ctx[c].owes
      /\ z.timer \in {0, day + 1, ctx[c].timer} /\ z.token = ctx[c].token
      /\ z.kinds = {} \/ z.timer # 0
      /\ z = NoCtx \/ z.token \in Tokens
  <2>1. CASE Runs(c)
    <3>1. ctx[c] \in Context
      BY <1>1
    <3> DEFINE x == ctx[c]
               y == ScheduleNextDigest(x)
    <3>2. z = y
      BY <2>1
    <3> HIDE DEF x
    <3>3. /\ y \in Context /\ y.due = x.due /\ y.owes = x.owes /\ y.kinds = x.kinds
          /\ y.token = x.token
          /\ y.timer = IF x.kinds = {} THEN 0 ELSE day + 1
      BY <1>1, <3>1, ScheduleTyped DEF x
    <3> HIDE DEF y
    <3>4. /\ y.timer \in {0, day + 1}
          /\ y.kinds = {} \/ y.timer # 0
      BY <1>1, <3>3
    <3> HIDE DEF z
    <3>5. y.token \in Tokens
      BY <2>1, <3>3 DEF Runs, DigestInv, DigestTyped, x
    <3> QED
      BY <3>2, <3>3, <3>4, <3>5 DEF x
  <2>2. CASE ~Runs(c)
    BY <1>1, <2>2, NoneTyped DEF Runs
  <2> QED
    BY <2>1, <2>2
<1>5. Turn(i, c, z, NoTask)
  BY <1>1, <1>4, NoneTyped DEF Rescheduled, Turn
<1> HIDE DEF z
<1>6. Comes(i, c, z, NoTask)
  BY <1>4, StillComes
<1>7. Rests(i, c, z, NoTask)
  BY <1>4, NoneTyped DEF Rests, Waits, Flying
<1>8. Step(i, c, z, NoTask)
  BY <1>5, <1>6, <1>7 DEF Step
<1> QED
  BY <1>4, <1>8, NoneTyped DEF Onward, Moves

LEMMA LoginResolvesOnward ==
  ASSUME DigestInv, NEW i \in Slots, LoginResolves(i)
  PROVE  Onward
<1> DEFINE c == task[i].clan
<1>1. /\ c \in Clans /\ task[i].token \in Tokens /\ task[i].pc = "login"
      /\ client \in [Tokens -> SharedClient]
  BY DEF LoginResolves, DigestInv, DigestTyped, Formed, TypeOK
<1>2. Kept /\ ~Flying(task[i]) /\ \A d \in Clans \ {c} : ~Rearms(task[i], d)
  BY <1>1 DEF LoginResolves, Kept, Flying, Rearms
<1>3. client' \in [Tokens -> SharedClient]
  BY <1>1 DEF LoginResolves, SharedClient
<1>4. ctx' = Rescheduled(c) /\ task' = [task EXCEPT ![i] = NoTask]
  BY DEF LoginResolves
<1> HIDE DEF c
<1> QED
  BY <1>1, <1>2, <1>3, <1>4, RescheduledOnward

LEMMA LoginFailsOnward ==
  ASSUME DigestInv, NEW i \in Slots, LoginFails(i)
  PROVE  Onward
<1> DEFINE c == task[i].clan
           z == IF Runs(c) THEN [ctx[c] EXCEPT !.dark = TRUE] ELSE ctx[c]
<1>1. /\ TypeOK /\ c \in Clans /\ task[i].token \in Tokens /\ task[i].pc = "login"
      /\ ctx \in [Clans -> Context] /\ client \in [Tokens -> SharedClient] /\ day \in Nat
  BY DEF LoginFails, DigestInv, DigestTyped, Formed, TypeOK
<1>2. Kept /\ ~Flying(task[i]) /\ \A d \in Clans \ {c} : ~Rearms(task[i], d)
  BY <1>1 DEF LoginFails, Kept, Flying, Rearms
<1>3. client' \in [Tokens -> SharedClient]
  BY <1>1 DEF LoginFails, SharedClient
<1>4. /\ z \in Context /\ z.due = ctx[c].due /\ z.owes = ctx[c].owes
      /\ z.timer = ctx[c].timer
      /\ z.kinds = {} \/ z.dark
      /\ z = NoCtx \/ z.token \in Tokens
  BY <1>1, NoneTyped DEF Runs, Context, DigestInv, DigestTyped
<1>5. Turn(i, c, z, NoTask)
  BY <1>1, <1>4, NoneTyped DEF LoginFails, Turn
<1> HIDE DEF z, c
<1>6. Comes(i, c, z, NoTask)
  BY <1>1, <1>2, <1>4, StillComes
<1>7. Rests(i, c, z, NoTask)
  BY <1>2, <1>4, NoneTyped DEF Rests, Waits, Flying
<1>8. Step(i, c, z, NoTask)
  BY <1>5, <1>6, <1>7 DEF Step
<1> QED
  BY <1>1, <1>2, <1>3, <1>4, <1>8, NoneTyped DEF Onward, Moves

LEMMA ClientReadyOnward ==
  ASSUME DigestInv, NEW i \in Slots, NEW token \in Tokens, ClientReady(i, token)
  PROVE  Onward
<1> DEFINE left == {c \in Clans : ctx[c].token = token}
           u == [NoTask EXCEPT !.pc = "register", !.then = "ready", !.left = left]
<1>1. Kept /\ ~Flying(task[i]) /\ \A d \in Clans : ~Rearms(task[i], d)
  BY DEF ClientReady, Kept, Free, Flying, Rearms
<1>2. UNCHANGED ctx /\ task' = [task EXCEPT ![i] = u]
  BY DEF ClientReady
<1>3. client' \in [Tokens -> SharedClient]
  BY DEF ClientReady, SharedClient, DigestInv, DigestTyped, TypeOK
<1>4. left \in SUBSET Clans
  OBVIOUS
<1> HIDE DEF left
<1>5. u \in Activation /\ Formed(u) /\ ~Flying(u)
  BY <1>4, NoneTyped DEF Activation, Formed, Flying
<1> HIDE DEF u
<1> QED
  BY <1>1, <1>2, <1>3, <1>5, ShiftOnward

LEMMA CatchUpNextOnward ==
  ASSUME DigestInv, NEW i \in Slots, NEW left \in SUBSET Clans, CatchUpNext(i, left),
         ~Flying(task[i]), \A d \in Clans : ~Rearms(task[i], d),
         UNCHANGED <<day, posts, reported, completed, client>>
  PROVE  Onward
<1>1. client' \in [Tokens -> SharedClient]
  BY DEF DigestInv, DigestTyped, TypeOK
<1>2. CASE left = {}
  <2>1. Kept
    BY <1>2 DEF CatchUpNext, Kept
  <2>2. task' = [task EXCEPT ![i] = NoTask] /\ UNCHANGED ctx
    BY <1>2 DEF CatchUpNext
  <2>3. ~Flying(NoTask)
    BY NoneTyped DEF Flying
  <2> QED
    BY <1>1, <2>1, <2>2, <2>3, NoneTyped, ShiftOnward
<1>3. CASE left # {}
  <2>1. PICK c \in left : CatchUp(i, c, "ready", left \ {c})
    BY <1>3 DEF CatchUpNext
  <2>2. left \ {c} \in SUBSET Clans /\ c \in Clans
    OBVIOUS
  <2>3. Kept /\ \E z \in Context, u \in Activation : Step(i, c, z, u)
    BY <2>1, <2>2, CatchUpStep
  <2> QED
    BY <1>1, <2>2, <2>3 DEF Onward, Moves
<1> QED
  BY <1>2, <1>3

LEMMA ReadyNextOnward ==
  ASSUME DigestInv, NEW i \in Slots, ReadyNext(i)
  PROVE  Onward
<1>1. /\ task[i].left \in SUBSET Clans /\ CatchUpNext(i, task[i].left)
      /\ UNCHANGED <<day, posts, reported, completed, client>>
  BY DEF ReadyNext, DigestInv, DigestTyped, TypeOK, Activation
<1>2. ~Flying(task[i]) /\ \A d \in Clans : ~Rearms(task[i], d)
  BY DEF ReadyNext, Flying, Rearms
<1> QED
  BY <1>1, <1>2, CatchUpNextOnward

\* A stopped bot is started again, unless somebody did so meanwhile.
LEMMA RestartOnward ==
  ASSUME DigestInv, NEW i \in Slots, NEW c \in Clans,
         NEW clients \in [Tokens -> SharedClient], Restart(i, c, clients),
         ~Flying(task[i]), \A d \in Clans : ~Rearms(task[i], d), Kept
  PROVE  Onward
<1>1. CASE Runs(c)
  <2>1. /\ client' \in [Tokens -> SharedClient] /\ UNCHANGED ctx
        /\ task' = [task EXCEPT ![i] = NoTask]
    BY <1>1 DEF Restart
  <2>2. ~Flying(NoTask)
    BY NoneTyped DEF Flying
  <2> QED
    BY <2>1, <2>2, NoneTyped, ShiftOnward
<1>2. CASE ~Runs(c)
  <2>1. StartBot(i, c, wants[c], clients) /\ ctx[c] = NoCtx /\ wants[c] \in Settings[c]
    BY <1>2 DEF Restart, Runs, DigestInv, DigestTyped, TypeOK
  <2> QED
    BY <2>1, StartOnward
<1> QED
  BY <1>1, <1>2

LEMMA RegisteredOnward ==
  ASSUME DigestInv, NEW i \in Slots, Registered(i)
  PROVE  Onward
<1> DEFINE c == task[i].clan
<1>1. /\ task[i].pc = "register" /\ UNCHANGED <<day, posts, reported, completed>>
      /\ task[i].left \in SUBSET Clans /\ client \in [Tokens -> SharedClient]
      /\ task[i].then # "ready" => c \in Clans
  BY DEF Registered, DigestInv, DigestTyped, TypeOK, Activation, Formed
<1>2. ~Flying(task[i]) /\ \A d \in Clans \ {c} : ~Rearms(task[i], d)
  BY <1>1 DEF Flying, Rearms
<1>3. CASE task[i].then = "ready"
  <2>1. CatchUpNext(i, task[i].left) /\ UNCHANGED client
    BY <1>3 DEF Registered
  <2>2. \A d \in Clans : ~Rearms(task[i], d)
    BY <1>1, <1>3 DEF Rearms
  <2> QED
    BY <1>1, <1>2, <2>1, <2>2, CatchUpNextOnward
<1>4. CASE task[i].then = "catchUp"
  <2>1. CatchUp(i, c, "schedule", {}) /\ UNCHANGED client /\ c \in Clans
    BY <1>1, <1>4 DEF Registered
  <2> HIDE DEF c
  <2>2. Kept /\ \E z \in Context, u \in Activation : Step(i, c, z, u)
    BY <1>1, <1>2, <2>1, CatchUpStep
  <2> QED
    BY <1>1, <2>1, <2>2 DEF Onward, Moves
<1>5. CASE task[i].then = "schedule"
  <2>1. /\ ctx' = Rescheduled(c) /\ task' = [task EXCEPT ![i] = NoTask]
        /\ UNCHANGED <<client, excused>> /\ c \in Clans
    BY <1>1, <1>5 DEF Registered
  <2> HIDE DEF c
  <2>2. Kept /\ client' \in [Tokens -> SharedClient]
    BY <1>1, <2>1 DEF Kept
  <2> QED
    BY <1>2, <2>1, <2>2, RescheduledOnward
<1>6. CASE task[i].then = "start"
  <2>1. Restart(i, c, client) /\ UNCHANGED excused /\ c \in Clans
    BY <1>1, <1>6 DEF Registered
  <2>2. Kept /\ \A d \in Clans : ~Rearms(task[i], d)
    BY <1>1, <1>6, <2>1 DEF Rearms, Kept
  <2> HIDE DEF c
  <2> QED
    BY <1>1, <1>2, <2>1, <2>2, RestartOnward
<1> QED
  BY <1>3, <1>4, <1>5, <1>6 DEF Registered

LEMMA DestroyedOnward ==
  ASSUME DigestInv, NEW i \in Slots, Destroyed(i)
  PROVE  Onward
<1> DEFINE c == task[i].clan
           gone == [client EXCEPT ![task[i].token] = NoClient]
<1>1. /\ task[i].pc = "destroy" /\ c \in Clans /\ gone \in [Tokens -> SharedClient]
  BY NoneTyped DEF Destroyed, DigestInv, DigestTyped, TypeOK, Formed
<1>2. Kept /\ ~Flying(task[i]) /\ \A d \in Clans : ~Rearms(task[i], d)
  BY <1>1 DEF Destroyed, Kept, Flying, Rearms
<1>3. CASE task[i].then = "start"
  <2>1. Restart(i, c, gone)
    BY <1>3 DEF Destroyed
  <2> HIDE DEF c, gone
  <2> QED
    BY <1>1, <1>2, <2>1, RestartOnward
<1>4. CASE task[i].then # "start"
  <2>1. /\ task' = [task EXCEPT ![i] = NoTask] /\ UNCHANGED ctx
        /\ client' \in [Tokens -> SharedClient]
    BY <1>1, <1>4 DEF Destroyed
  <2>2. ~Flying(NoTask)
    BY NoneTyped DEF Flying
  <2> QED
    BY <1>2, <2>1, <2>2, NoneTyped, ShiftOnward
<1> QED
  BY <1>3, <1>4

\* A bot that is stopped.
LEMMA StopOnward ==
  ASSUME DigestInv, NEW i \in Slots, NEW c \in Clans, NEW then \in {"none", "start"},
         Runs(c), StopBot(i, c, then), task[i].pc = "idle",
         UNCHANGED <<day, posts, reported, completed>>
  PROVE  Onward
<1> DEFINE token == ctx[c].token
           left == client[token].users \ {c}
           u == IF left # {} /\ then = "none" THEN task[i]
                ELSE [NoTask EXCEPT !.pc = IF left = {} THEN "destroy" ELSE "register",
                                    !.clan = c, !.token = token, !.then = then]
<1>1. /\ ctx \in [Clans -> Context] /\ task \in [Slots -> Activation]
      /\ client \in [Tokens -> SharedClient] /\ token \in Tokens /\ Formed(task[i])
      /\ left \in SUBSET Clans
  BY DEF Runs, DigestInv, DigestTyped, TypeOK, Context, SharedClient
<1>2. Kept /\ ~Flying(task[i]) /\ \A d \in Clans : ~Rearms(task[i], d)
  BY DEF StopBot, Kept, Flying, Rearms
<1>3. /\ ctx' = [ctx EXCEPT ![c] = NoCtx]
      /\ client' = [client EXCEPT ![token].users = left]
      /\ task' = [task EXCEPT ![i] = u]
  BY <1>1 DEF StopBot
<1>4. client' \in [Tokens -> SharedClient]
  <2> HIDE DEF left, token
  <2> QED
    BY <1>1, <1>3 DEF SharedClient
<1>5. u \in Activation /\ Formed(u) /\ ~Flying(u)
  <2>1. CASE left # {} /\ then = "none"
    BY <1>1, <1>2, <2>1
  <2>2. CASE ~(left # {} /\ then = "none")
    <3> DEFINE pc == IF left = {} THEN "destroy" ELSE "register"
               v == [NoTask EXCEPT !.pc = pc, !.clan = c, !.token = token, !.then = then]
    <3>1. pc \in {"destroy", "register"} /\ u = v
      BY <2>2
    <3> HIDE DEF pc, token, left
    <3>2. v \in Activation /\ Formed(v) /\ ~Flying(v)
      BY <1>1, <3>1, NoneTyped DEF Activation, Formed, Flying
    <3> HIDE DEF v, u
    <3> QED
      BY <3>1, <3>2
  <2> QED
    BY <2>1, <2>2
<1> HIDE DEF u, left, token
<1>6. Turn(i, c, NoCtx, u) /\ NoCtx.timer = 0 /\ NoCtx.kinds = {} /\ NoCtx.due = 0
  BY <1>3, <1>5, NoneTyped DEF Turn
<1>7. Comes(i, c, NoCtx, u)
  BY <1>2, <1>6, StillComes
<1>8. Rests(i, c, NoCtx, u)
  BY <1>2, <1>5, <1>6 DEF Rests, Waits
<1>9. Step(i, c, NoCtx, u)
  BY <1>6, <1>7, <1>8 DEF Step
<1> QED
  BY <1>2, <1>4, <1>5, <1>9, NoneTyped DEF Onward, Moves

LEMMA PutDiscordOnward ==
  ASSUME DigestInv, NEW i \in Slots, NEW c \in Clans, PutDiscord(i, c)
  PROVE  Onward
<1>1. /\ TypeOK /\ ctx \in [Clans -> Context] /\ task \in [Slots -> Activation]
      /\ client \in [Tokens -> SharedClient] /\ day \in Nat /\ Formed(task[i])
  BY DEF DigestInv, DigestTyped, TypeOK
<1>2. /\ task[i].pc = "idle" /\ UNCHANGED <<day, posts, reported, completed>>
      /\ ~Flying(task[i]) /\ \A d \in Clans : ~Rearms(task[i], d)
  BY DEF PutDiscord, Free, Flying, Rearms
<1>3. PICK w \in Settings[c] :
         IF w.token = None
            THEN IF Runs(c)
                   THEN StopBot(i, c, "none")
                   ELSE UNCHANGED <<ctx, client, task, excused>>
            ELSE IF Runs(c) /\ ctx[c].token = w.token
              THEN LET x == [ctx[c] EXCEPT !.kinds = w.kinds]
                   IN  /\ IF client[w.token].state = "ready"
                            THEN /\ ctx' = [ctx EXCEPT ![c] = x]
                                 /\ task' = [task EXCEPT ![i] = [NoTask EXCEPT
                                      !.pc = "register", !.clan = c,
                                      !.then = "schedule"]]
                            ELSE /\ ctx' = [ctx EXCEPT ![c] = ScheduleNextDigest(x)]
                                 /\ UNCHANGED task
                       /\ UNCHANGED <<client, excused>>
              ELSE IF Runs(c)
                THEN StopBot(i, c, "start")
                ELSE StartBot(i, c, w, client) /\ UNCHANGED excused
  BY DEF PutDiscord
<1>4. w.kinds \in SUBSET Kinds
  BY DigestAssumption
<1>5. CASE w.token = None /\ ~Runs(c)
  BY <1>1, <1>2, <1>3, <1>5 DEF Onward, Moves, Kept
<1>6. CASE w.token = None /\ Runs(c)
  BY <1>2, <1>3, <1>6, StopOnward
<1>7. CASE w.token # None /\ Runs(c) /\ ctx[c].token = w.token
  <2> DEFINE x == [ctx[c] EXCEPT !.kinds = w.kinds]
  <2>1. /\ x \in Context /\ x.due = ctx[c].due /\ x.owes = ctx[c].owes
        /\ x.timer = ctx[c].timer /\ x.token \in Tokens
    BY <1>1, <1>4, <1>7 DEF Context, Runs, DigestInv, DigestTyped
  <2>2. Kept /\ client' \in [Tokens -> SharedClient]
    BY <1>1, <1>2, <1>3, <1>7 DEF Kept
  <2>3. CASE client[w.token].state = "ready"
    <3> DEFINE u == [NoTask EXCEPT !.pc = "register", !.clan = c, !.then = "schedule"]
    <3>1. ctx' = [ctx EXCEPT ![c] = x] /\ task' = [task EXCEPT ![i] = u]
      BY <1>3, <1>7, <2>3
    <3>2. u \in Activation /\ Formed(u) /\ ~Flying(u) /\ Rearms(u, c)
      BY NoneTyped DEF Activation, Formed, Flying, Rearms
    <3> HIDE DEF u, x
    <3>3. Turn(i, c, x, u)
      BY <2>1, <3>1, <3>2 DEF Turn
    <3>4. Comes(i, c, x, u)
      BY <1>2, <3>2, StillComes
    <3>5. Rests(i, c, x, u)
      BY <1>2, <2>1, <3>2 DEF Rests, Waits
    <3> QED
      BY <2>1, <2>2, <3>2, <3>3, <3>4, <3>5 DEF Onward, Moves, Step
  <2>4. CASE client[w.token].state # "ready"
    <3> DEFINE z == ScheduleNextDigest(x)
               u == task[i]
    <3>1. ctx' = [ctx EXCEPT ![c] = z] /\ task' = [task EXCEPT ![i] = u]
      BY <1>1, <1>3, <1>7, <2>4
    <3> HIDE DEF x
    <3>2. /\ z \in Context /\ z.due = ctx[c].due /\ z.owes = ctx[c].owes
          /\ z.token \in Tokens
          /\ z.timer = IF z.kinds = {} THEN 0 ELSE day + 1
      BY <1>1, <2>1, ScheduleTyped
    <3> HIDE DEF z
    <3>3. Turn(i, c, z, u)
      BY <1>1, <3>1, <3>2 DEF Turn
    <3>4. z.kinds = {} \/ z.timer # 0
      BY <1>1, <3>2
    <3>5. Comes(i, c, z, u)
      BY <1>2, <3>4, StillComes
    <3>6. Rests(i, c, z, u)
      BY <1>1, <1>2, <3>2 DEF Rests, Waits
    <3> QED
      BY <1>1, <2>2, <3>2, <3>3, <3>5, <3>6 DEF Onward, Moves, Step
  <2> QED
    BY <2>3, <2>4
<1>8. CASE w.token # None /\ Runs(c) /\ ctx[c].token # w.token
  <2>1. StopBot(i, c, "start")
    BY <1>3, <1>8
  <2> QED
    BY <1>2, <1>8, <2>1, StopOnward
<1>9. CASE w.token # None /\ ~Runs(c)
  <2>1. StartBot(i, c, w, client) /\ ctx[c] = NoCtx /\ Kept
    BY <1>2, <1>3, <1>9 DEF Runs, Kept
  <2> QED
    BY <1>1, <1>2, <2>1, StartOnward
<1> QED
  BY <1>5, <1>6, <1>7, <1>8, <1>9

LEMMA DigestTimerOnward ==
  ASSUME DigestInv, NEW i \in Slots, NEW c \in Clans, DigestTimer(i, c)
  PROVE  Onward
<1> DEFINE x == [ctx[c] EXCEPT !.timer = 0]
           r == ctx[c].timer
           kinds == DigestKindsFor(x, r)
<1>1. /\ TypeOK /\ ctx \in [Clans -> Context] /\ task \in [Slots -> Activation]
      /\ client' \in [Tokens -> SharedClient] /\ day \in 0..MaxDay /\ Formed(task[i])
      /\ completed[c] \in Nat
  BY DEF DigestTimer, DigestInv, DigestTyped, TypeOK
<1>2. /\ Kept /\ task[i].pc = "idle" /\ ~Flying(task[i]) /\ UNCHANGED excused
      /\ \A d \in Clans : ~Rearms(task[i], d)
  BY DEF DigestTimer, Kept, Free, Flying, Rearms
<1>3. r = day /\ day \in Days /\ Overdue(c)
  <2>1. r # 0 /\ r <= day /\ r \in {0, day, day + 1} /\ r \in Nat /\ day \in Nat
    BY <1>1 DEF DigestTimer, DigestInv, DayInv, ClanDay, Context
  <2> QED
    BY <1>1, <2>1, DigestAssumption DEF Overdue, Days
<1>4. /\ x \in Context /\ x.due = ctx[c].due /\ x.owes = ctx[c].owes /\ x.token \in Tokens
      /\ kinds \in SUBSET Kinds
  <2>1. ctx[c] # NoCtx
    BY <1>1, <1>3, NoneTyped DEF Days
  <2> QED
    BY <1>1, <2>1, DigestAssumption DEF Context, DigestInv, DigestTyped, DigestKindsFor
<1>5. ~HasCompletedScanStartedSince(c, r)
  BY <1>1, <1>3 DEF DigestInv, DayInv, ClanDay, HasCompletedScanStartedSince
<1>6. \A k \in Kinds : May(c, k)
  BY <1>1, <1>2, <1>3 DEF DigestInv, SoleInv, Sole, May
<1>7. CASE kinds = {}
  <2> DEFINE z == ScheduleNextDigest(x)
             u == task[i]
  <2>1. ctx' = [ctx EXCEPT ![c] = z] /\ task' = [task EXCEPT ![i] = u]
    BY <1>1, <1>7 DEF DigestTimer
  <2> HIDE DEF x
  <2>2. /\ z \in Context /\ z.due = ctx[c].due /\ z.owes = ctx[c].owes
        /\ z.token \in Tokens
        /\ z.timer = IF z.kinds = {} THEN 0 ELSE day + 1
    BY <1>1, <1>4, ScheduleTyped
  <2> HIDE DEF z
  <2>3. Turn(i, c, z, u)
    BY <1>1, <2>1, <2>2 DEF Turn
  <2>4. z.kinds = {} \/ z.timer # 0
    BY <1>1, <2>2
  <2>5. Comes(i, c, z, u)
    BY <1>2, <2>4, StillComes
  <2>6. Rests(i, c, z, u)
    BY <1>1, <1>2, <2>2 DEF Rests, Waits
  <2> QED
    BY <1>1, <1>2, <2>2, <2>3, <2>5, <2>6 DEF Onward, Moves, Step
<1>8. CASE kinds # {}
  <2>1. ArmDigest(i, c, x, r, kinds, "schedule", {})
    BY <1>8 DEF DigestTimer
  <2>2. "schedule" \in Thens /\ {} \in SUBSET Clans /\ r \in Days
    BY <1>3 DEF Thens
  <2> HIDE DEF kinds, x, r
  <2>3. PICK z \in Context, u \in Activation :
           /\ Turn(i, c, z, u)
           /\ \/ HasCompletedScanStartedSince(c, r)
              \/ /\ u.pc \in {"idle", "ready"}
                 /\ z.due = 0 \/ (z.due = r /\ z.owes = kinds)
                 /\ z.kinds = x.kinds
                 /\ z.timer = IF x.kinds = {} THEN 0 ELSE day + 1
    BY <1>1, <1>4, <2>1, <2>2, ArmShape
  <2>4. /\ u.pc \in {"idle", "ready"}
        /\ z.due = 0 \/ (z.due = day /\ z.owes = kinds)
        /\ z.timer = IF z.kinds = {} THEN 0 ELSE day + 1
    BY <1>3, <1>5, <2>3
  <2>5. z.kinds = {} \/ z.timer # 0
    BY <1>1, <2>4
  <2>6. Comes(i, c, z, u)
    BY <1>2, <2>5, StillComes
  <2>7. Rests(i, c, z, u)
    BY <1>2, <1>6, <2>4 DEF Rests, Waits, Flying
  <2> QED
    BY <1>1, <1>2, <2>3, <2>6, <2>7 DEF Onward, Moves, Step
<1> QED
  BY <1>7, <1>8

\* Pending digests are released.
LEMMA ReleaseOnward ==
  ASSUME DigestInv, NEW i \in Slots, NEW c \in Clans, NEW waived \in BOOLEAN,
         ctx[c].due # 0, ~Overdue(c), Release(i, c, waived),
         waived \/ HasCompletedScanStartedSince(c, ctx[c].due), Kept,
         UNCHANGED <<client, excused>>
  PROVE  Onward
<1> DEFINE z == [ctx[c] EXCEPT !.due = 0, !.owes = {}]
           kinds == ctx[c].owes
<1>1. /\ TypeOK /\ ctx \in [Clans -> Context] /\ task \in [Slots -> Activation]
      /\ client' \in [Tokens -> SharedClient] /\ day \in 0..MaxDay /\ Formed(task[i])
      /\ kinds \in SUBSET Kinds
  BY DEF DigestInv, DigestTyped, TypeOK, Context
<1>2. /\ ~Flying(task[i]) /\ \A d \in Clans : ~Rearms(task[i], d)
  BY DEF Release, Free, Flying, Rearms
<1>3. ctx[c].due = day /\ day \in Days /\ ctx[c].timer \in {0, day + 1}
  <2>1. /\ ctx[c].due \in {0, day} /\ ctx[c].timer \in {0, day, day + 1}
        /\ ctx[c].timer \in Nat /\ day \in Nat
    BY <1>1 DEF DigestInv, DayInv, ClanDay, Context
  <2> QED
    BY <1>1, <2>1, DigestAssumption DEF Overdue, Days
<1>4. /\ z \in Context /\ z.due = 0 /\ z.timer = ctx[c].timer /\ z.kinds = ctx[c].kinds
      /\ z.dark = ctx[c].dark /\ z.token = ctx[c].token
  <2>1. ctx[c] \in Context /\ 0 \in 0..MaxDay /\ {} \in SUBSET Kinds
    BY <1>1, DigestAssumption
  <2> HIDE DEF kinds
  <2> QED
    BY <2>1 DEF Context
<1>5. ctx[c] # NoCtx
  BY <1>1, <1>3, NoneTyped DEF Days
<1>6. z.token \in Tokens
  BY <1>4, <1>5 DEF DigestInv, DigestTyped
<1>7. \A k \in kinds : May(c, k)
  BY <1>1, <1>3 DEF DigestInv, SoleInv, Sole, Owes, May, Days
<1>8. ctx' = [ctx EXCEPT ![c] = z]
  BY <1>1 DEF Release
<1> HIDE DEF z
<1>9. CASE Sendable(c, kinds) # {}
  <2> DEFINE u == Send(i, c, day, kinds, waived, "none", {})
  <2>1. task' = [task EXCEPT ![i] = u]
    BY <1>3, <1>9 DEF Release
  <2>2. "none" \in Thens /\ {} \in SUBSET Clans
    BY DEF Thens
  <2> HIDE DEF u, kinds
  <2>3. u \in Activation /\ Formed(u) /\ u.waived = waived
        /\ Sends(u, c, day, kinds, "none")
    BY <1>1, <1>3, <1>9, <2>2, SendTyped DEF u
  <2>4. Turn(i, c, z, u)
    BY <1>4, <1>6, <1>8, <2>1, <2>3 DEF Turn
  <2>5. Comes(i, c, z, u)
    BY <1>2, <1>4, StillComes
  <2>6. SendOfDay(u) /\ u.pc = "post" /\ u.clan = c
    BY <1>3, <2>3 DEF SendOfDay, Sends, HasCompletedScanStartedSince
  <2>7. \A k \in Kinds : Carries(u, c, k) => May(c, k)
    BY <1>7, <2>3 DEF Carries, Sends
  <2>8. Launches(i, c, z, u)
    BY <1>2, <1>3, <1>4, <2>6, <2>7 DEF Launches
  <2> QED
    BY <1>1, <1>4, <2>3, <2>4, <2>5, <2>8 DEF Onward, Moves, Step
<1>10. CASE Sendable(c, kinds) = {}
  <2> DEFINE u == task[i]
  <2>1. task' = [task EXCEPT ![i] = u]
    BY <1>1, <1>10 DEF Release
  <2>2. Turn(i, c, z, u)
    BY <1>1, <1>4, <1>6, <1>8, <2>1 DEF Turn
  <2>3. Comes(i, c, z, u)
    BY <1>2, <1>4, StillComes
  <2>4. Rests(i, c, z, u)
    BY <1>2, <1>4 DEF Rests, Waits
  <2> QED
    BY <1>1, <1>4, <2>2, <2>3, <2>4 DEF Onward, Moves, Step
<1> QED
  BY <1>9, <1>10

LEMMA FallbackOnward ==
  ASSUME DigestInv, NEW i \in Slots, NEW c \in Clans, Fallback(i, c)
  PROVE  Onward
<1>1. Kept /\ UNCHANGED <<client, excused>> /\ Release(i, c, TRUE)
  BY DEF Fallback, Kept
<1>2. ctx[c].due # 0 /\ ~Overdue(c) /\ TRUE \in BOOLEAN
  BY DEF Fallback
<1> QED
  BY <1>1, <1>2, ReleaseOnward

LEMMA OnClanScanCompletedOnward ==
  ASSUME DigestInv, NEW i \in Slots, NEW c \in Clans, OnClanScanCompleted(i, c)
  PROVE  Onward
<1>1. Kept /\ UNCHANGED <<client, excused>>
  BY DEF OnClanScanCompleted, Kept
<1>2. client' \in [Tokens -> SharedClient]
  BY <1>1 DEF DigestInv, DigestTyped, TypeOK
<1>3. CASE ctx[c].due # 0 /\ HasCompletedScanStartedSince(c, ctx[c].due)
  <2>1. Release(i, c, FALSE) /\ FALSE \in BOOLEAN
    BY <1>3 DEF OnClanScanCompleted
  <2>2. ~Overdue(c)
    BY <1>3 DEF DigestInv, DayInv, ClanDay, HasCompletedScanStartedSince, DigestTyped,
                TypeOK
  <2> QED
    BY <1>1, <1>3, <2>1, <2>2, ReleaseOnward
<1>4. CASE ~(ctx[c].due # 0 /\ HasCompletedScanStartedSince(c, ctx[c].due))
  BY <1>1, <1>2, <1>4 DEF OnClanScanCompleted, Onward, Moves
<1> QED
  BY <1>3, <1>4

-----------------------------------------------------------------------------
(* What such steps keep.                                                   *)

\* Contexts and activations keep their shape.
Shaped ==
  /\ ctx \in [Clans -> Context] /\ task \in [Slots -> Activation]
  /\ \A i \in Slots : Formed(task[i])
  /\ \A c \in Clans : ctx[c] = NoCtx \/ ctx[c].token \in Tokens

\* ClanDay without the scan.
CtxDay(c) ==
  /\ ctx[c].due \in {0, day} /\ ctx[c].timer \in {0, day, day + 1}
  /\ Overdue(c) => completed[c] < day

LEMMA MovesShape ==
  ASSUME DigestInv, Moves, Kept
  PROVE  /\ Shaped' /\ (\A c \in Clans : CtxDay(c))'
         /\ (\A i \in Slots : SendOfDay(task[i]))'
<1>1. /\ ctx \in [Clans -> Context] /\ task \in [Slots -> Activation]
      /\ \A i \in Slots : Formed(task[i])
      /\ \A c \in Clans : ctx[c] = NoCtx \/ ctx[c].token \in Tokens
      /\ \A c \in Clans : CtxDay(c)
      /\ \A i \in Slots : SendOfDay(task[i])
      /\ day \in Nat
  BY DEF DigestInv, DigestTyped, TypeOK, DayInv, ClanDay, CtxDay
<1>2. UNCHANGED <<day, completed>>
  BY DEF Kept
<1>3. CASE UNCHANGED <<ctx, task>>
  BY <1>1, <1>2, <1>3 DEF Shaped, CtxDay, Overdue, SendOfDay, Flying
<1>4. CASE \E i \in Slots, u \in Activation : Shifts(i, u)
  <2>1. PICK i \in Slots, u \in Activation : Shifts(i, u)
    BY <1>4
  <2>2. Shaped'
    BY <1>1, <2>1 DEF Shifts, Shaped
  <2>3. (\A c \in Clans : CtxDay(c))'
    BY <1>1, <1>2, <2>1 DEF Shifts, CtxDay, Overdue
  <2>4. ASSUME NEW j \in Slots
        PROVE  SendOfDay(task[j])'
    BY <1>1, <1>2, <2>1 DEF Shifts, SendOfDay, Flying
  <2> QED
    BY <2>2, <2>3, <2>4
<1>5. CASE \E i \in Slots, c \in Clans, z \in Context, u \in Activation : Step(i, c, z, u)
  <2>1. PICK i \in Slots, c \in Clans, z \in Context, u \in Activation : Step(i, c, z, u)
    BY <1>5
  <2>2. /\ ctx' = [ctx EXCEPT ![c] = z] /\ task' = [task EXCEPT ![i] = u]
        /\ Formed(u) /\ (z = NoCtx \/ z.token \in Tokens)
    BY <2>1 DEF Step, Turn
  <2>3. Shaped'
    BY <1>1, <2>2 DEF Shaped
  <2>4. /\ z.due \in {0, day}
        /\ z.timer \in {0, day + 1, ctx[c].timer}
    BY <1>1, <2>1 DEF Step, Rests, Launches, Waits, CtxDay
  <2>5. ASSUME NEW d \in Clans
        PROVE  CtxDay(d)'
    BY <1>1, <1>2, <2>2, <2>4 DEF CtxDay, Overdue
  <2>6. SendOfDay(u)
    BY <2>1 DEF Step, Rests, Launches, SendOfDay
  <2>7. ASSUME NEW j \in Slots
        PROVE  SendOfDay(task[j])'
    BY <1>1, <1>2, <2>2, <2>6 DEF SendOfDay, Flying
  <2> QED
    BY <2>3, <2>5, <2>7
<1> QED
  BY <1>3, <1>4, <1>5 DEF Moves

\* A turn leaves every bot its timer, or an activation that arms it.
LEMMA TurnNext ==
  ASSUME DigestInv, NEW i \in Slots, NEW c \in Clans, NEW z, NEW u, Comes(i, c, z, u),
         ctx' = [ctx EXCEPT ![c] = z], task' = [task EXCEPT ![i] = u]
  PROVE  NextIsComing'
<1>1. /\ ctx \in [Clans -> Context] /\ task \in [Slots -> Activation]
      /\ \A d \in Clans : ctx[d] # NoCtx /\ ctx[d].kinds # {} /\ ~ctx[d].dark =>
           ctx[d].timer # 0 \/ \E j \in Slots : Rearms(task[j], d)
  BY SchedulesRearms DEF DigestInv, DigestTyped, TypeOK, NextIsComing, Runs
<1>2. SUFFICES ASSUME NEW d \in Clans, ctx'[d] # NoCtx, ctx'[d].kinds # {}, ~ctx'[d].dark,
                      ctx'[d].timer = 0
               PROVE  \E j \in Slots : Rearms(task'[j], d)
  BY DEF NextIsComing, Schedules, Rearms, Runs
<1>3. CASE d = c
  <2>1. Rearms(u, c) \/ \E j \in Slots \ {i} : Rearms(task[j], c)
    BY <1>1, <1>2, <1>3 DEF Comes
  <2> QED
    BY <1>1, <1>3, <2>1
<1>4. CASE d # c
  <2>1. PICK j \in Slots : Rearms(task[j], d)
    BY <1>1, <1>2, <1>4
  <2>2. task'[j] = task[j]
    BY <1>1, <1>4, <2>1 DEF Comes
  <2> QED
    BY <2>1, <2>2
<1> QED
  BY <1>3, <1>4

LEMMA MovesNext ==
  ASSUME DigestInv, Moves
  PROVE  NextIsComing'
<1>1. CASE UNCHANGED <<ctx, task>>
  BY <1>1 DEF DigestInv, NextIsComing, Schedules, Runs
<1>2. CASE \E i \in Slots, u \in Activation : Shifts(i, u)
  <2>1. PICK i \in Slots, u \in Activation : Shifts(i, u)
    BY <1>2
  <2>2. SUFFICES ASSUME NEW d \in Clans, Runs(d), ctx[d].kinds # {}, ~ctx[d].dark,
                        ctx[d].timer = 0
                 PROVE  \E j \in Slots : Rearms(task'[j], d)
    BY <2>1 DEF Shifts, NextIsComing, Schedules, Rearms, Runs
  <2>3. PICK j \in Slots : Rearms(task[j], d)
    BY <2>2, SchedulesRearms DEF DigestInv, NextIsComing
  <2>4. task'[j] = task[j]
    BY <2>1, <2>3 DEF Shifts, DigestInv, DigestTyped, TypeOK
  <2> QED
    BY <2>3, <2>4
<1>3. CASE \E i \in Slots, c \in Clans, z \in Context, u \in Activation : Step(i, c, z, u)
  BY <1>3, TurnNext DEF Step, Turn
<1> QED
  BY <1>1, <1>2, <1>3 DEF Moves

LEMMA MovesSole ==
  ASSUME DigestInv, Moves, Kept
  PROVE  SoleInv' /\ RepeatsAreExcused'
<1>1. /\ ctx \in [Clans -> Context] /\ task \in [Slots -> Activation] /\ day \in Nat
  BY DEF DigestInv, DigestTyped, TypeOK
<1>2. UNCHANGED <<day, posts, reported>> /\ excused \subseteq excused'
  BY DEF Kept
<1>3. RepeatsAreExcused'
  BY <1>2 DEF DigestInv, RepeatsAreExcused
<1>4. SUFFICES ASSUME NEW d \in Clans, NEW k \in Kinds, day \in Days,
                      <<d, k, day>> \notin excused'
               PROVE  Sole(d, k)'
  BY <1>2, <1>3 DEF SoleInv
<1>5. Sole(d, k)
  BY <1>2, <1>4 DEF DigestInv, SoleInv
<1>6. CASE UNCHANGED <<ctx, task>>
  BY <1>2, <1>5, <1>6 DEF Sole, Unsent, Owes, Overdue
<1>7. ASSUME NEW i \in Slots, NEW u, task' = [task EXCEPT ![i] = u],
             ~Flying(u), ~Flying(task[i])
      PROVE  \A j \in Slots :
               /\ Carries(task'[j], d, k) <=> Carries(task[j], d, k)
               /\ Posted(task'[j], d, k) <=> Posted(task[j], d, k)
  BY <1>1, <1>7 DEF Carries, Posted, Flying
<1>8. ASSUME \A j \in Slots :
               /\ Carries(task'[j], d, k) <=> Carries(task[j], d, k)
               /\ Posted(task'[j], d, k) <=> Posted(task[j], d, k),
             Owes(ctx'[d], k) \/ Overdue(d)' => Unsent(d, k)
      PROVE  Sole(d, k)'
  <2>1. (\A i, j \in Slots : Carries(task[i], d, k) /\ Carries(task[j], d, k) => i = j)'
    BY <1>5, <1>8 DEF Sole
  <2>2. (Owes(ctx[d], k) \/ Overdue(d) => Unsent(d, k))'
    BY <1>2, <1>8 DEF Unsent
  <2>3. (\A i \in Slots :
           Carries(task[i], d, k) /\ ~Posted(task[i], d, k) => posts[d][k][day] = 0)'
    BY <1>2, <1>5, <1>8 DEF Sole
  <2>4. (/\ posts[d][k][day] \in {0, 1}
         /\ posts[d][k][day] = 1 =>
              reported[d][k].of = day \/ \E i \in Slots : Posted(task[i], d, k))'
    BY <1>2, <1>5, <1>8 DEF Sole
  <2> QED
    BY <2>1, <2>2, <2>3, <2>4 DEF Sole
<1>9. CASE \E i \in Slots, u \in Activation : Shifts(i, u)
  <2>1. PICK i \in Slots, u \in Activation : Shifts(i, u)
    BY <1>9
  <2>2. UNCHANGED ctx /\ task' = [task EXCEPT ![i] = u] /\ ~Flying(u) /\ ~Flying(task[i])
    BY <2>1 DEF Shifts
  <2>3. Owes(ctx'[d], k) \/ Overdue(d)' => Unsent(d, k)
    BY <1>2, <1>5, <2>2 DEF Sole, Overdue
  <2> QED
    BY <1>7, <1>8, <2>2, <2>3
<1>10. CASE \E i \in Slots, c \in Clans, z \in Context, u \in Activation : Step(i, c, z, u)
  <2>1. PICK i \in Slots, c \in Clans, z \in Context, u \in Activation : Step(i, c, z, u)
    BY <1>10
  <2>2. /\ ctx' = [ctx EXCEPT ![c] = z] /\ task' = [task EXCEPT ![i] = u]
        /\ Rests(i, c, z, u) \/ Launches(i, c, z, u)
    BY <2>1 DEF Step, Turn
  <2>3. CASE Rests(i, c, z, u)
    <3>1. Owes(ctx'[d], k) \/ Overdue(d)' => Unsent(d, k)
      <4>1. CASE d # c
        BY <1>1, <1>2, <1>5, <2>2, <4>1 DEF Sole, Overdue
      <4>2. CASE d = c
        <5>1. ctx'[d] = z
          BY <1>1, <2>2, <4>2
        <5>2. ASSUME Owes(z, k)
              PROVE  Unsent(d, k)
          BY <1>4, <1>5, <2>3, <4>2, <5>2 DEF Rests, Waits, May, Owes, Sole
        <5>3. ASSUME z.timer \in 1..day
              PROVE  Unsent(d, k)
          <6>1. z.timer = ctx[c].timer
            BY <1>1, <2>3, <5>3 DEF Rests
          <6> QED
            BY <1>5, <4>2, <5>3, <6>1 DEF Sole, Overdue
        <5> QED
          BY <1>2, <5>1, <5>2, <5>3 DEF Overdue
      <4> QED
        BY <4>1, <4>2
    <3>2. ~Flying(u) /\ ~Flying(task[i])
      BY <2>3 DEF Rests
    <3> QED
      BY <1>7, <1>8, <2>2, <3>1, <3>2
  <2>4. CASE Launches(i, c, z, u)
    <3>1. /\ u.pc = "post" /\ u.clan = c /\ ~Flying(task[i]) /\ z.due = 0
          /\ z.timer \in {0, day + 1}
          /\ Carries(u, c, k) => May(c, k)
      BY <2>4 DEF Launches
    <3>2. \A j \in Slots \ {i} : task'[j] = task[j]
      BY <1>1, <2>2
    <3>3. task'[i] = u /\ ~Carries(task[i], d, k) /\ ~Posted(task[i], d, k)
      BY <1>1, <2>2, <3>1 DEF Carries, Posted, Flying
    <3>4. ~Posted(u, d, k)
      BY <3>1 DEF Posted
    <3>5. Owes(ctx'[d], k) \/ Overdue(d)' => d # c
      <4>1. SUFFICES ASSUME d = c
                     PROVE  ~Owes(ctx'[d], k) /\ ~Overdue(d)'
        OBVIOUS
      <4>2. ctx'[d] = z
        BY <1>1, <2>2, <4>1
      <4> QED
        BY <1>1, <1>2, <3>1, <4>2 DEF Owes, Overdue
    <3>6. CASE ~Carries(u, d, k)
      <4>1. \A j \in Slots :
               /\ Carries(task'[j], d, k) <=> Carries(task[j], d, k)
               /\ Posted(task'[j], d, k) <=> Posted(task[j], d, k)
        BY <3>2, <3>3, <3>4, <3>6
      <4>2. Owes(ctx'[d], k) \/ Overdue(d)' => Unsent(d, k)
        BY <1>1, <1>2, <1>5, <2>2, <3>5 DEF Sole, Overdue
      <4> QED
        BY <1>8, <4>1, <4>2
    <3>7. CASE Carries(u, d, k)
      <4>1. d = c
        BY <3>1, <3>7 DEF Carries
      <4>2. Unsent(d, k)
        BY <1>4, <3>1, <3>7, <4>1 DEF May
      <4>3. \A j \in Slots : Carries(task'[j], d, k) => j = i
        BY <3>2, <4>2 DEF Unsent
      <4>4. posts'[d][k][day'] = 0
        BY <1>2, <4>2 DEF Unsent
      <4> QED
        BY <3>5, <4>1, <4>3, <4>4 DEF Sole, Unsent
    <3> QED
      BY <3>6, <3>7
  <2> QED
    BY <2>2, <2>3, <2>4
<1> QED
  BY <1>6, <1>9, <1>10 DEF Moves

-----------------------------------------------------------------------------
(* Posts, records, rollovers and crashes.                                  *)

LEMMA PostInv ==
  ASSUME DigestInv, NEW i \in Slots, Post(i)
  PROVE  /\ Shaped' /\ (\A c \in Clans : CtxDay(c))'
         /\ (\A j \in Slots : SendOfDay(task[j]))'
         /\ SoleInv' /\ RepeatsAreExcused' /\ NextIsComing'
<1> DEFINE t == task[i]
           u == [t EXCEPT !.pc = "record"]
<1>1. /\ ctx \in [Clans -> Context] /\ task \in [Slots -> Activation] /\ day \in Nat
      /\ posts \in [Clans -> [Kinds -> [Days -> Nat]]]
      /\ t.pc = "post" /\ t.clan \in Clans /\ t.kind \in Kinds /\ t.of = day /\ day \in Days
      /\ \A j \in Slots : Formed(task[j]) /\ SendOfDay(task[j])
  BY DEF Post, DigestInv, DigestTyped, DayInv, SendOfDay, TypeOK, Formed, Flying, Activation
<1>2. /\ UNCHANGED <<day, ctx, completed, reported, excused>>
      /\ task' = [task EXCEPT ![i] = u]
      /\ \/ posts' = [posts EXCEPT ![t.clan][t.kind][t.of] = @ + 1]
         \/ posts' = posts
  BY <1>1 DEF Post
<1>3. /\ u \in Activation /\ u.pc = "record" /\ u.clan = t.clan /\ u.kind = t.kind
      /\ u.rest = t.rest /\ u.of = t.of /\ u.then = t.then /\ u.waived = t.waived
      /\ Formed(u) /\ SendOfDay(u)
  BY <1>1 DEF Activation, Formed, SendOfDay, Flying
<1> HIDE DEF u
<1>4. \A j \in Slots : task'[j] = IF j = i THEN u ELSE task[j]
  BY <1>1, <1>2
<1>5. Shaped' /\ (\A j \in Slots : SendOfDay(task[j]))'
  <2>1. Shaped'
    BY <1>1, <1>2, <1>3, <1>4 DEF Shaped, DigestInv, DigestTyped
  <2>2. ASSUME NEW j \in Slots
        PROVE  SendOfDay(task[j])'
    BY <1>1, <1>2, <1>3, <1>4 DEF SendOfDay, Flying
  <2> QED
    BY <2>1, <2>2
<1>6. (\A c \in Clans : CtxDay(c))'
  BY <1>2 DEF CtxDay, Overdue, DigestInv, DayInv, ClanDay
<1>7. \A j \in Slots, c \in Clans, k \in Kinds :
        /\ Carries(task'[j], c, k) <=> Carries(task[j], c, k)
        /\ Posted(task[j], c, k) => Posted(task'[j], c, k)
  BY <1>1, <1>3, <1>4 DEF Carries, Posted, Flying
<1>8. \A c \in Clans, k \in Kinds, r \in Days :
        <<c, k, r>> # <<t.clan, t.kind, day>> => posts'[c][k][r] = posts[c][k][r]
  <2>1. SUFFICES ASSUME NEW c \in Clans, NEW k \in Kinds, NEW r \in Days,
                        c # t.clan \/ k # t.kind \/ r # day,
                        posts' = [posts EXCEPT ![t.clan][t.kind][day] = @ + 1]
                 PROVE  posts'[c][k][r] = posts[c][k][r]
    BY <1>1, <1>2
  <2> HIDE DEF t
  <2>2. CASE c # t.clan
    BY <1>1, <2>1, <2>2
  <2>3. CASE c = t.clan /\ k # t.kind
    BY <1>1, <2>1, <2>3
  <2>4. CASE c = t.clan /\ k = t.kind /\ r # day
    BY <1>1, <2>1, <2>4
  <2> QED
    BY <2>1, <2>2, <2>3, <2>4
<1>9. posts'[t.clan][t.kind][day] \in
        {posts[t.clan][t.kind][day], posts[t.clan][t.kind][day] + 1}
  BY <1>1, <1>2
<1>10. ASSUME <<t.clan, t.kind, day>> \notin excused
       PROVE  /\ posts[t.clan][t.kind][day] = 0 /\ Sole(t.clan, t.kind)
              /\ Carries(t, t.clan, t.kind)
  BY <1>1, <1>10 DEF DigestInv, SoleInv, Sole, Carries, Posted, Flying
<1>11. RepeatsAreExcused'
  <2>1. SUFFICES ASSUME NEW c \in Clans, NEW k \in Kinds, NEW r \in Days,
                        posts'[c][k][r] > 1
                 PROVE  <<c, k, r>> \in excused
    BY <1>2 DEF RepeatsAreExcused
  <2>2. CASE <<c, k, r>> = <<t.clan, t.kind, day>>
    BY <1>9, <1>10, <2>1, <2>2
  <2>3. CASE <<c, k, r>> # <<t.clan, t.kind, day>>
    BY <1>8, <2>1, <2>3 DEF DigestInv, RepeatsAreExcused
  <2> QED
    BY <2>2, <2>3
<1>12. SoleInv'
  <2>1. SUFFICES ASSUME NEW c \in Clans, NEW k \in Kinds, <<c, k, day>> \notin excused
                 PROVE  Sole(c, k)'
    BY <1>2 DEF SoleInv
  <2>2. Sole(c, k)
    BY <1>1, <2>1 DEF DigestInv, SoleInv
  <2>3. CASE c = t.clan /\ k = t.kind
    <3>1. Carries(task[i], c, k) /\ posts[c][k][day] = 0 /\ Posted(task'[i], c, k)
      BY <1>3, <1>4, <1>10, <2>1, <2>3 DEF Posted
    <3>2. ~Unsent(c, k)
      BY <3>1 DEF Unsent
    <3>3. ~Owes(ctx[c], k) /\ ~Overdue(c)
      BY <2>2, <3>2 DEF Sole
    <3>4. posts'[c][k][day] \in {0, 1}
      BY <1>9, <2>3, <3>1
    <3>5. \A j \in Slots : Carries(task'[j], c, k) => j = i
      BY <1>7, <2>2, <3>1 DEF Sole
    <3> QED
      BY <1>2, <3>1, <3>3, <3>4, <3>5 DEF Sole, Overdue
  <2>4. CASE ~(c = t.clan /\ k = t.kind)
    <3>1. posts'[c][k][day] = posts[c][k][day]
      BY <1>1, <1>8, <2>4
    <3>2. \A j \in Slots : Posted(task'[j], c, k) <=> Posted(task[j], c, k)
      BY <1>1, <1>3, <1>4, <2>4 DEF Posted
    <3>3. Unsent(c, k) => Unsent(c, k)'
      BY <1>2, <1>7, <3>1 DEF Unsent
    <3>4. (Owes(ctx[c], k) \/ Overdue(c) => Unsent(c, k))'
      BY <1>2, <2>2, <3>3 DEF Sole, Overdue
    <3>5. (\A j, l \in Slots : Carries(task[j], c, k) /\ Carries(task[l], c, k) => j = l)'
      BY <1>7, <2>2 DEF Sole
    <3>6. (\A j \in Slots :
             Carries(task[j], c, k) /\ ~Posted(task[j], c, k) => posts[c][k][day] = 0)'
      BY <1>2, <1>7, <2>2, <3>1, <3>2 DEF Sole
    <3>7. (/\ posts[c][k][day] \in {0, 1}
           /\ posts[c][k][day] = 1 =>
                reported[c][k].of = day \/ \E j \in Slots : Posted(task[j], c, k))'
      BY <1>2, <2>2, <3>1, <3>2 DEF Sole
    <3> QED
      BY <3>4, <3>5, <3>6, <3>7 DEF Sole
  <2> QED
    BY <2>3, <2>4
<1>13. NextIsComing'
  <2>1. \A j \in Slots, c \in Clans : Rearms(task'[j], c) <=> Rearms(task[j], c)
    BY <1>1, <1>3, <1>4 DEF Rearms
  <2>2. \A j \in Slots, c \in Clans : Schedules(j, c)' <=> Schedules(j, c)
    BY <2>1 DEF Schedules, Rearms
  <2> QED
    BY <1>2, <2>2 DEF DigestInv, NextIsComing, Runs
<1> QED
  BY <1>5, <1>6, <1>11, <1>12, <1>13

LEMMA AfterSendShape ==
  ASSUME DigestInv, NEW i \in Slots, task[i].pc = "record", AfterSend(i)
  PROVE  LET c == task[i].clan
         IN  \E z \in Context, u \in Activation :
               /\ Turn(i, c, z, u) /\ Comes(i, c, z, u) /\ SendOfDay(u)
               /\ z.due = ctx[c].due /\ z.owes = ctx[c].owes
               /\ z.timer \in {0, day + 1, ctx[c].timer}
               /\ u.pc # "record"
               /\ \A d \in Clans, k \in Kinds :
                    Carries(u, d, k) => Carries(task[i], d, k) /\ k # task[i].kind
<1> DEFINE t == task[i]
           c == t.clan
           x == ctx[c]
<1>1. /\ TypeOK /\ ctx \in [Clans -> Context] /\ task \in [Slots -> Activation]
      /\ day \in Nat /\ t.pc = "record" /\ c \in Clans /\ x \in Context
      /\ t.kind \in Kinds /\ t.kind \notin t.rest /\ t.rest \in SUBSET Kinds
      /\ t.of = day /\ day \in Days /\ t.waived \in BOOLEAN /\ t.then \in Thens
      /\ t.left \in SUBSET Clans
      /\ x = NoCtx \/ x.token \in Tokens
      /\ t.waived \/ completed[c] >= day
  BY DEF DigestInv, DigestTyped, DayInv, SendOfDay, TypeOK, Formed, Flying, Activation,
         Thens
<1>2. /\ \A d \in Clans \ {c} : ~Rearms(t, d)
      /\ t.then # "schedule" => ~Rearms(t, c)
  BY <1>1 DEF Rearms
<1>3. CASE Runs(c) /\ Sendable(c, t.rest) # {}
  <2> DEFINE u == Send(i, c, t.of, t.rest, t.waived, t.then, t.left)
  <2>1. task' = [task EXCEPT ![i] = u] /\ ctx' = [ctx EXCEPT ![c] = x]
    BY <1>1, <1>3 DEF AfterSend
  <2>2. u \in Activation /\ Formed(u) /\ u.waived = t.waived
        /\ Sends(u, c, t.of, t.rest, t.then)
    <3> HIDE DEF u, t, c
    <3> QED
      BY <1>1, <1>3, SendTyped DEF u
  <2> HIDE DEF u
  <2>3. Turn(i, c, x, u)
    BY <1>1, <2>1, <2>2 DEF Turn
  <2>4. Rearms(u, c) \/ ~Rearms(t, c)
    BY <1>2, <2>2 DEF Sends, Rearms
  <2>5. Comes(i, c, x, u)
    BY <1>1, <1>2, <2>4, StillComes
  <2>6. SendOfDay(u) /\ u.pc # "record"
    BY <1>1, <2>2 DEF SendOfDay, Sends
  <2>7. \A d \in Clans, k \in Kinds :
          Carries(u, d, k) => Carries(t, d, k) /\ k # t.kind
    BY <1>1, <2>2 DEF Carries, Sends, Flying
  <2> QED
    BY <1>1, <2>2, <2>3, <2>5, <2>6, <2>7
<1>4. CASE ~(Runs(c) /\ Sendable(c, t.rest) # {})
  <2> DEFINE u == Resumed(t.then, c, t.left)
             y == ScheduleNextDigest(x)
             z == IF t.then = "schedule" /\ Runs(c) THEN y ELSE x
  <2>1. task' = [task EXCEPT ![i] = u] /\ ctx' = [ctx EXCEPT ![c] = z]
    BY <1>1, <1>4 DEF AfterSend, Rescheduled
  <2>2. u \in Activation /\ Formed(u) /\ u.pc \in {"idle", "ready"}
    BY <1>1, ResumedTyped
  <2> HIDE DEF u, x, c, t
  <2>3. /\ y \in Context /\ y.due = x.due /\ y.owes = x.owes /\ y.kinds = x.kinds
        /\ y.token = x.token
        /\ y.timer = IF x.kinds = {} THEN 0 ELSE day + 1
    BY <1>1, ScheduleTyped
  <2> HIDE DEF y
  <2>4. /\ z \in Context /\ z.due = x.due /\ z.owes = x.owes
        /\ z.timer \in {0, day + 1, x.timer}
        /\ z = NoCtx \/ z.token \in Tokens
    BY <1>1, <2>3 DEF Runs, x
  <2>5. \/ z.kinds = {} \/ z.timer # 0
        \/ /\ z.kinds = x.kinds /\ z.dark = x.dark /\ z.timer = x.timer
           /\ ~Rearms(t, c)
    <3>1. CASE t.then = "schedule" /\ Runs(c)
      BY <1>1, <2>3, <3>1
    <3>2. CASE t.then = "schedule" /\ ~Runs(c)
      BY <3>2, NoneTyped DEF Runs, x
    <3>3. CASE t.then # "schedule"
      BY <1>2, <3>3
    <3> QED
      BY <3>1, <3>2, <3>3
  <2> HIDE DEF z
  <2>6. Comes(i, c, z, u)
    BY <1>1, <1>2, <2>5, StillComes DEF x, t
  <2>7. Turn(i, c, z, u)
    BY <1>1, <2>1, <2>2, <2>4 DEF Turn
  <2>8. SendOfDay(u) /\ u.pc # "record" /\ \A d \in Clans, k \in Kinds : ~Carries(u, d, k)
    BY <2>2 DEF SendOfDay, Carries, Flying
  <2> QED
    BY <1>1, <2>2, <2>4, <2>6, <2>7, <2>8 DEF x, c, t
<1> QED
  BY <1>3, <1>4

LEMMA RecordInv ==
  ASSUME DigestInv, NEW i \in Slots, Record(i)
  PROVE  /\ Shaped' /\ (\A c \in Clans : CtxDay(c))'
         /\ (\A j \in Slots : SendOfDay(task[j]))'
         /\ SoleInv' /\ RepeatsAreExcused' /\ NextIsComing'
<1> DEFINE t == task[i]
           c == t.clan
<1>1. /\ ctx \in [Clans -> Context] /\ task \in [Slots -> Activation] /\ day \in Nat
      /\ reported \in [Clans -> [Kinds -> [of : 0..MaxDay, at : 0..(MaxDay + 1)]]]
      /\ t.pc = "record" /\ c \in Clans /\ t.kind \in Kinds /\ t.of = day /\ day \in Days
      /\ \A j \in Slots : Formed(task[j]) /\ SendOfDay(task[j])
  BY DEF Record, DigestInv, DigestTyped, DayInv, SendOfDay, TypeOK, Formed, Flying,
         Activation
<1>2. AfterSend(i) /\ UNCHANGED <<day, posts, completed>>
  BY DEF Record
<1>3. PICK z \in Context, u \in Activation :
         /\ Turn(i, c, z, u) /\ Comes(i, c, z, u) /\ SendOfDay(u)
         /\ z.due = ctx[c].due /\ z.owes = ctx[c].owes
         /\ z.timer \in {0, day + 1, ctx[c].timer}
         /\ u.pc # "record"
         /\ \A d \in Clans, k \in Kinds :
              Carries(u, d, k) => Carries(t, d, k) /\ k # t.kind
  BY <1>1, <1>2, AfterSendShape
<1>4. /\ ctx' = [ctx EXCEPT ![c] = z] /\ task' = [task EXCEPT ![i] = u]
      /\ Formed(u) /\ (z = NoCtx \/ z.token \in Tokens)
  BY <1>3 DEF Turn
<1>5. excused \subseteq excused'
  BY DEF Record
<1>6. /\ \A d \in Clans, k \in Kinds :
           <<d, k>> # <<c, t.kind>> => reported'[d][k] = reported[d][k]
      /\ reported'[c][t.kind].of = day \/ <<c, t.kind, day>> \in excused'
  <2>1. CASE reported' = [reported EXCEPT ![c][t.kind] = [of |-> t.of, at |-> t.at]]
    <3> DEFINE e == [of |-> t.of, at |-> t.at]
    <3>1. e.of = day
      BY <1>1
    <3> HIDE DEF e, t, c
    <3>2. reported'[c][t.kind] = e
      BY <1>1, <2>1 DEF e
    <3>3. ASSUME NEW d \in Clans, NEW k \in Kinds, d # c \/ k # t.kind
          PROVE  reported'[d][k] = reported[d][k]
      BY <1>1, <2>1, <3>3
    <3> QED
      BY <3>1, <3>2, <3>3
  <2>2. CASE UNCHANGED reported /\ excused' = excused \cup {<<c, t.kind, t.of>>}
    BY <1>1, <2>2
  <2> QED
    BY <2>1, <2>2 DEF Record
<1> HIDE DEF c, t
<1>7. Shaped' /\ (\A d \in Clans : CtxDay(d))' /\ (\A j \in Slots : SendOfDay(task[j]))'
  <2>1. Shaped'
    BY <1>1, <1>4 DEF Shaped, DigestInv, DigestTyped
  <2>2. ASSUME NEW d \in Clans
        PROVE  CtxDay(d)'
    BY <1>1, <1>2, <1>3, <1>4 DEF CtxDay, Overdue, DigestInv, DayInv, ClanDay
  <2>3. ASSUME NEW j \in Slots
        PROVE  SendOfDay(task[j])'
    BY <1>1, <1>2, <1>3, <1>4 DEF SendOfDay, Flying
  <2> QED
    BY <2>1, <2>2, <2>3
<1>8. RepeatsAreExcused'
  BY <1>2, <1>5 DEF DigestInv, RepeatsAreExcused
<1>9. NextIsComing'
  BY <1>1, <1>3, <1>4, TurnNext
<1>10. SoleInv'
  <2>1. SUFFICES ASSUME NEW d \in Clans, NEW k \in Kinds, <<d, k, day>> \notin excused'
                 PROVE  Sole(d, k)'
    BY <1>2 DEF SoleInv
  <2>2. Sole(d, k)
    BY <1>1, <1>5, <2>1 DEF DigestInv, SoleInv
  <2>3. \A j \in Slots : task'[j] = IF j = i THEN u ELSE task[j]
    BY <1>1, <1>4
  <2>4. \A j \in Slots : Carries(task'[j], d, k) => Carries(task[j], d, k)
    BY <1>3, <2>3 DEF t
  <2>5. Owes(ctx'[d], k) \/ Overdue(d)' => Owes(ctx[d], k) \/ Overdue(d)
    BY <1>1, <1>2, <1>3, <1>4 DEF Owes, Overdue
  <2>6. Unsent(d, k) => Unsent(d, k)'
    BY <1>2, <2>4 DEF Unsent
  <2>7. ~Posted(u, d, k)
    BY <1>3 DEF Posted
  <2>8. (\A j, l \in Slots : Carries(task[j], d, k) /\ Carries(task[l], d, k) => j = l)'
    BY <2>2, <2>4 DEF Sole
  <2>9. (Owes(ctx[d], k) \/ Overdue(d) => Unsent(d, k))'
    BY <2>2, <2>5, <2>6 DEF Sole
  <2>10. posts'[d][k][day'] = posts[d][k][day] /\ posts[d][k][day] \in {0, 1}
    BY <1>2, <2>2 DEF Sole
  <2>11. CASE d = c /\ k = t.kind
    <3>1. Carries(task[i], d, k)
      BY <1>1, <2>11 DEF Carries, Flying, c, t
    <3>2. \A j \in Slots : ~Carries(task'[j], d, k)
      BY <1>3, <2>2, <2>3, <2>11, <3>1 DEF Sole
    <3>3. reported'[d][k].of = day
      BY <1>6, <2>1, <2>11
    <3> QED
      BY <1>2, <2>9, <2>10, <3>2, <3>3 DEF Sole
  <2>12. CASE ~(d = c /\ k = t.kind)
    <3>1. ~Posted(task[i], d, k)
      BY <2>12 DEF Posted, c, t
    <3>2. \A j \in Slots : Posted(task'[j], d, k) <=> Posted(task[j], d, k)
      BY <2>3, <2>7, <3>1
    <3>3. reported'[d][k] = reported[d][k]
      BY <1>6, <2>12
    <3>4. (\A j \in Slots :
             Carries(task[j], d, k) /\ ~Posted(task[j], d, k) => posts[d][k][day] = 0)'
      BY <2>2, <2>4, <2>10, <3>2 DEF Sole
    <3>5. (posts[d][k][day] = 1 =>
             reported[d][k].of = day \/ \E j \in Slots : Posted(task[j], d, k))'
      BY <1>2, <2>2, <2>10, <3>2, <3>3 DEF Sole
    <3> QED
      BY <2>8, <2>9, <2>10, <3>4, <3>5 DEF Sole
  <2> QED
    BY <2>11, <2>12
<1> QED
  BY <1>7, <1>8, <1>9, <1>10

LEMMA RolloverInv ==
  ASSUME DigestInv, Rollover
  PROVE  /\ Shaped' /\ (\A c \in Clans : CtxDay(c))'
         /\ (\A j \in Slots : SendOfDay(task[j]))'
         /\ SoleInv' /\ RepeatsAreExcused' /\ NextIsComing'
<1>1. /\ day' = day + 1 /\ day \in Nat /\ day < MaxDay /\ Settled
      /\ UNCHANGED <<ctx, client, task, posts, reported, completed, excused>>
  BY DEF Rollover, DigestInv, DigestTyped, TypeOK
<1>2. Shaped' /\ RepeatsAreExcused' /\ NextIsComing'
  <2>1. Shaped'
    BY <1>1 DEF Shaped, DigestInv, DigestTyped, TypeOK
  <2>2. RepeatsAreExcused'
    BY <1>1 DEF RepeatsAreExcused, DigestInv
  <2>3. NextIsComing'
    BY <1>1 DEF NextIsComing, Runs, Schedules, DigestInv
  <2> QED
    BY <2>1, <2>2, <2>3
<1>3. \A c \in Clans : /\ ctx[c].due = 0 /\ ctx[c].timer \in {0, day + 1}
                       /\ completed[c] <= day /\ completed[c] \in Nat
  <2>1. TAKE c \in Clans
  <2>2. /\ ctx[c].timer \in {0, day, day + 1} /\ completed[c] <= day
        /\ completed[c] \in Nat
    BY DEF DigestInv, DayInv, ClanDay, DigestTyped, TypeOK
  <2>3. ctx[c].due = 0 /\ ctx[c].timer \notin 1..day
    BY <1>1 DEF Settled, Overdue
  <2> QED
    BY <1>1, <2>2, <2>3
<1>4. (\A c \in Clans : CtxDay(c))'
  BY <1>1, <1>3 DEF CtxDay, Overdue
<1>5. \A i \in Slots : ~Flying(task[i])
  BY <1>1 DEF Settled, Flying
<1>6. (\A j \in Slots : SendOfDay(task[j]))'
  BY <1>1, <1>5 DEF SendOfDay, Flying
<1>7. SoleInv'
  <2>1. SUFFICES ASSUME NEW c \in Clans, NEW k \in Kinds, day + 1 \in Days
                 PROVE  Sole(c, k)'
    BY <1>1 DEF SoleInv
  <2>2. posts[c][k][day + 1] = 0
    BY <1>1, <2>1 DEF DigestInv, DayInv
  <2>3. \A i \in Slots : ~Carries(task[i], c, k)
    BY <1>5 DEF Carries
  <2> QED
    BY <1>1, <2>2, <2>3 DEF Sole, Unsent
<1> QED
  BY <1>2, <1>4, <1>6, <1>7

LEMMA CrashInv ==
  ASSUME DigestInv, Crash
  PROVE  /\ Shaped' /\ (\A c \in Clans : CtxDay(c))'
         /\ (\A j \in Slots : SendOfDay(task[j]))'
         /\ SoleInv' /\ RepeatsAreExcused' /\ NextIsComing'
         /\ client' \in [Tokens -> SharedClient]
<1>1. /\ UNCHANGED <<day, posts, reported, completed>> /\ excused \subseteq excused'
      /\ ctx' = [c \in Clans |-> NoCtx] /\ task' = [i \in Slots |-> NoTask]
      /\ client' = [t \in Tokens |-> NoClient]
      /\ day \in Nat
  BY DEF Crash, DigestInv, DigestTyped, TypeOK
<1>2. Shaped' /\ client' \in [Tokens -> SharedClient]
  BY <1>1, NoneTyped DEF Shaped
<1>3. RepeatsAreExcused' /\ NextIsComing'
  BY <1>1 DEF RepeatsAreExcused, NextIsComing, Runs, DigestInv
<1>4. (\A c \in Clans : CtxDay(c))'
  BY <1>1, NoneTyped DEF CtxDay, Overdue
<1>5. (\A j \in Slots : SendOfDay(task[j]))'
  BY <1>1, NoneTyped DEF SendOfDay, Flying
<1>6. SoleInv'
  <2>1. SUFFICES ASSUME NEW c \in Clans, NEW k \in Kinds, day \in Days,
                        <<c, k, day>> \notin excused'
                 PROVE  Sole(c, k)'
    BY <1>1 DEF SoleInv
  <2>2. Sole(c, k)
    BY <1>1, <2>1 DEF DigestInv, SoleInv
  <2>3. ASSUME NEW i \in Slots, Posted(task[i], c, k)
        PROVE  FALSE
    <3>1. task[i].pc = "record" /\ task[i].clan = c /\ task[i].kind = k /\ task[i].of = day
      BY <2>3 DEF Posted, DigestInv, DayInv, SendOfDay, Flying
    <3>2. <<c, k, day>> \in Sending(c)
      BY <3>1 DEF Sending
    <3> QED
      BY <2>1, <3>2 DEF Crash
  <2>4. posts[c][k][day] = 1 => reported[c][k].of = day
    BY <2>2, <2>3 DEF Sole
  <2>5. \A i \in Slots : ~Carries(task'[i], c, k)
    BY <1>1, NoneTyped DEF Carries, Flying
  <2>6. ~Owes(ctx'[c], k) /\ ~Overdue(c)'
    BY <1>1, NoneTyped DEF Owes, Overdue
  <2> QED
    BY <1>1, <2>2, <2>4, <2>5, <2>6 DEF Sole
<1> QED
  BY <1>2, <1>3, <1>4, <1>5, <1>6

LEMMA ScanEndsInv ==
  ASSUME DigestInv, NEW c \in Clans, ScanEnds(c)
  PROVE  /\ Shaped' /\ (\A d \in Clans : CtxDay(d))'
         /\ (\A j \in Slots : SendOfDay(task[j]))'
         /\ SoleInv' /\ RepeatsAreExcused' /\ NextIsComing'
<1>1. /\ UNCHANGED <<day, ctx, task, posts, reported, excused>>
      /\ scan[c].pc = "scanning" /\ ~Overdue(c)
      /\ \A d \in Clans \ {c} : completed'[d] = completed[d]
      /\ completed'[c] >= completed[c]
  BY DEF ScanEnds, DigestInv, DigestTyped, TypeOK, DayInv, ClanDay
<1>2. Shaped' /\ RepeatsAreExcused' /\ NextIsComing'
  <2>1. Shaped'
    BY <1>1 DEF Shaped, DigestInv, DigestTyped, TypeOK
  <2>2. RepeatsAreExcused'
    BY <1>1 DEF RepeatsAreExcused, DigestInv
  <2>3. NextIsComing'
    BY <1>1 DEF NextIsComing, Runs, Schedules, DigestInv
  <2> QED
    BY <2>1, <2>2, <2>3
<1>3. (\A d \in Clans : CtxDay(d))'
  BY <1>1 DEF CtxDay, Overdue, DigestInv, DayInv, ClanDay
<1>4. (\A j \in Slots : SendOfDay(task[j]))'
  <2>1. ASSUME NEW j \in Slots, Flying(task[j])
        PROVE  task[j].waived \/ completed'[task[j].clan] >= day
    <3>1. /\ task[j].waived \/ completed[task[j].clan] >= day
          /\ task[j].clan \in Clans /\ completed[task[j].clan] \in Nat /\ day \in Nat
          /\ completed'[task[j].clan] \in Nat
      <4>1. /\ completed \in [Clans -> 0..MaxDay] /\ scan[c].began \in 0..MaxDay
            /\ Formed(task[j]) /\ SendOfDay(task[j]) /\ day \in Nat
        BY DEF DigestInv, DayInv, DigestTyped, TypeOK
      <4>2. completed' \in [Clans -> 0..MaxDay]
        BY <4>1 DEF ScanEnds
      <4> QED
        BY <2>1, <4>1, <4>2 DEF SendOfDay, Formed, Flying
    <3> QED
      BY <1>1, <3>1 DEF DigestInv, DigestTyped
  <2> QED
    BY <1>1, <2>1 DEF DigestInv, DayInv, SendOfDay, Flying
<1>5. SoleInv'
  BY <1>1 DEF DigestInv, SoleInv, Sole, Unsent, Overdue
<1> QED
  BY <1>2, <1>3, <1>4, <1>5

-----------------------------------------------------------------------------
(* The clock, the scans, the disk and the counters.                        *)

Others ==
  /\ up \in BOOLEAN /\ booting \subseteq Clans /\ day \in 0..MaxDay
  /\ \A c \in Clans : wants[c] \in Settings[c]
  /\ scan \in [Clans -> [pc : {"idle", "scanning", "completed"}, began : 0..MaxDay]]
  /\ completed \in [Clans -> 0..MaxDay]
  /\ reported \in [Clans -> [Kinds -> [of : 0..MaxDay, at : 0..(MaxDay + 1)]]]
  /\ posts \in [Clans -> [Kinds -> [Days -> Nat]]]
  /\ excused \subseteq Clans \X Kinds \X Days
  /\ events \in 0..MaxEvents

\* The rest of DayInv.
ScanDay ==
  /\ \A c \in Clans :
       /\ completed[c] <= day
       /\ scan[c].pc = "scanning" => completed[c] <= scan[c].began /\ scan[c].began <= day
  /\ \A c \in Clans, k \in Kinds, r \in Days : r > day => posts[c][k][r] = 0

LEMMA SendingTyped ==
  ASSUME DigestInv, NEW c \in Clans
  PROVE  Sending(c) \subseteq Clans \X Kinds \X Days
BY DEF Sending, DigestInv, DigestTyped, TypeOK, Formed, Activation

LEMMA OthersNext ==
  ASSUME DigestInv, Next
  PROVE  Others' /\ ScanDay'
<1>1. Others /\ ScanDay /\ TypeOK
  BY DEF Others, ScanDay, DigestInv, DigestTyped, TypeOK, DayInv, ClanDay
<1>2. ASSUME UNCHANGED <<up, booting, day, wants, scan, completed, reported, posts>>,
             excused' \subseteq Clans \X Kinds \X Days,
             UNCHANGED events \/ Event
      PROVE  Others' /\ ScanDay'
  BY <1>1, <1>2, DigestAssumption DEF Others, ScanDay, Event
<1>3. ASSUME NEW i \in Slots, NEW c \in Clans, NEW then, NEW left, CatchUp(i, c, then, left)
      PROVE  excused' \subseteq Clans \X Kinds \X Days
  <2>1. UNCHANGED excused \/ excused' = excused \cup
                (Sending(c) \cap {<<c, k, day>> : k \in Owed(c, ctx[c])})
    BY <1>3 DEF CatchUp
  <2> QED
    BY <1>1, <2>1, SendingTyped DEF Others
<1>4. ASSUME NEW i \in Slots, NEW left \in SUBSET Clans, CatchUpNext(i, left)
      PROVE  excused' \subseteq Clans \X Kinds \X Days
  BY <1>1, <1>3, <1>4 DEF CatchUpNext, Others
<1>5. ASSUME NEW i \in Slots, Post(i)
      PROVE  Others' /\ ScanDay'
  <2> DEFINE t == task[i]
  <2>1. t.clan \in Clans /\ t.kind \in Kinds /\ t.of = day /\ day \in Days
    BY <1>5 DEF Post, DigestInv, DigestTyped, DayInv, SendOfDay, TypeOK, Formed, Flying,
                Activation
  <2>2. /\ UNCHANGED <<up, booting, day, wants, scan, completed, reported, excused>>
        /\ UNCHANGED events \/ Event
    BY <1>5 DEF Post
  <2>3. posts' = posts \/ posts' = [posts EXCEPT ![t.clan][t.kind][day] = @ + 1]
    BY <1>5, <2>1 DEF Post
  <2> HIDE DEF t
  <2>4. posts' \in [Clans -> [Kinds -> [Days -> Nat]]]
    <3> DEFINE row == [posts[t.clan][t.kind] EXCEPT ![day] = @ + 1]
               rows == [posts[t.clan] EXCEPT ![t.kind] = row]
    <3>1. posts \in [Clans -> [Kinds -> [Days -> Nat]]]
      BY <1>1 DEF Others
    <3>2. row \in [Days -> Nat]
      BY <2>1, <3>1
    <3> HIDE DEF row
    <3>3. rows \in [Kinds -> [Days -> Nat]]
      BY <2>1, <3>1, <3>2
    <3>4. posts' = posts \/ posts' = [posts EXCEPT ![t.clan] = rows]
      BY <2>3 DEF row
    <3> HIDE DEF rows
    <3> QED
      BY <2>1, <3>1, <3>3, <3>4
  <2>5. Others'
    BY <1>1, <2>2, <2>4, DigestAssumption DEF Others, Event
  <2>6. ASSUME NEW c \in Clans, NEW k \in Kinds, NEW r \in Days, r > day
        PROVE  posts'[c][k][r] = posts[c][k][r]
    <3>1. day \in Nat /\ r # day /\ posts \in [Clans -> [Kinds -> [Days -> Nat]]]
      BY <1>1, <2>6 DEF Others
    <3>2. CASE c # t.clan
      BY <1>1, <2>1, <2>3, <3>2 DEF Others
    <3>3. CASE c = t.clan /\ k # t.kind
      BY <1>1, <2>1, <2>3, <3>3 DEF Others
    <3>4. CASE c = t.clan /\ k = t.kind
      <4>1. posts'[c][k] = posts[c][k] \/ posts'[c][k] = [posts[c][k] EXCEPT ![day] = @ + 1]
        BY <2>1, <2>3, <3>1, <3>4
      <4> QED
        BY <2>1, <3>1, <4>1
    <3> QED
      BY <3>2, <3>3, <3>4
  <2> QED
    BY <1>1, <2>2, <2>5, <2>6 DEF ScanDay
<1>6. ASSUME NEW i \in Slots, Record(i)
      PROVE  Others' /\ ScanDay'
  <2> DEFINE t == task[i]
             e == [of |-> t.of, at |-> t.at]
  <2>1. /\ t.clan \in Clans /\ t.kind \in Kinds /\ t.of \in Days
        /\ e \in [of : 0..MaxDay, at : 0..(MaxDay + 1)]
    BY <1>6, DigestAssumption
       DEF Record, DigestInv, DigestTyped, TypeOK, Formed, Activation, Days
  <2>2. /\ UNCHANGED <<up, booting, day, wants, scan, completed, posts>>
        /\ \/ reported' = [reported EXCEPT ![t.clan][t.kind] = e]
              /\ UNCHANGED <<excused, events>>
           \/ /\ Event /\ excused' = excused \cup {<<t.clan, t.kind, t.of>>}
              /\ UNCHANGED reported
    BY <1>6 DEF Record
  <2> HIDE DEF t, e
  <2>3. reported' \in [Clans -> [Kinds -> [of : 0..MaxDay, at : 0..(MaxDay + 1)]]]
    <3> DEFINE row == [reported[t.clan] EXCEPT ![t.kind] = e]
    <3>1. reported \in [Clans -> [Kinds -> [of : 0..MaxDay, at : 0..(MaxDay + 1)]]]
      BY <1>1 DEF Others
    <3>2. row \in [Kinds -> [of : 0..MaxDay, at : 0..(MaxDay + 1)]]
      BY <2>1, <3>1
    <3>3. reported' = reported \/ reported' = [reported EXCEPT ![t.clan] = row]
      BY <2>2
    <3> HIDE DEF row
    <3> QED
      BY <2>1, <3>1, <3>2, <3>3
  <2>4. excused' \subseteq Clans \X Kinds \X Days
    BY <1>1, <2>1, <2>2 DEF Others
  <2>5. Others'
    BY <1>1, <2>2, <2>3, <2>4, DigestAssumption DEF Others, Event
  <2> QED
    BY <1>1, <2>2, <2>5 DEF ScanDay
<1>7. ASSUME NEW i \in Slots,
             \/ LoginResolves(i) \/ Registered(i) \/ ReadyNext(i) \/ Destroyed(i)
             \/ LoginFails(i)
      PROVE  Others' /\ ScanDay'
  <2>1. CASE LoginResolves(i)
    BY <1>1, <1>2, <2>1 DEF LoginResolves, Others
  <2>2. CASE Registered(i)
    <3>1. task[i].left \in SUBSET Clans /\ (task[i].then # "ready" => task[i].clan \in Clans)
      BY <2>2 DEF Registered, DigestInv, DigestTyped, TypeOK, Activation, Formed
    <3>2. excused' \subseteq Clans \X Kinds \X Days
      BY <1>1, <1>3, <1>4, <2>2, <3>1 DEF Registered, Others
    <3> QED
      BY <1>2, <2>2, <3>2 DEF Registered
  <2>3. CASE ReadyNext(i)
    <3>1. task[i].left \in SUBSET Clans
      BY <2>3 DEF DigestInv, DigestTyped, TypeOK, Activation
    <3>2. excused' \subseteq Clans \X Kinds \X Days
      BY <1>4, <2>3, <3>1 DEF ReadyNext
    <3> QED
      BY <1>2, <2>3, <3>2 DEF ReadyNext
  <2>4. CASE Destroyed(i)
    BY <1>1, <1>2, <2>4 DEF Destroyed, Others
  <2>5. CASE LoginFails(i)
    BY <1>1, <1>2, <2>5 DEF LoginFails, Others
  <2> QED
    BY <1>7, <2>1, <2>2, <2>3, <2>4, <2>5
<1>8. ASSUME NEW i \in Slots, BootNext(i)
      PROVE  Others' /\ ScanDay'
  <2>1. UNCHANGED <<up, day, wants, scan, completed, reported, posts, excused, events>>
    BY <1>8 DEF BootNext
  <2>2. booting' \subseteq Clans
    BY <1>1, <1>8 DEF BootNext, Others
  <2> QED
    BY <1>1, <2>1, <2>2 DEF Others, ScanDay
<1>9. ASSUME NEW i \in Slots, NEW t \in Tokens, ClientReady(i, t)
      PROVE  Others' /\ ScanDay'
  BY <1>1, <1>2, <1>9 DEF ClientReady, Others
<1>10. ASSUME NEW i \in Slots, NEW c \in Clans, DigestTimer(i, c) \/ Fallback(i, c)
       PROVE  Others' /\ ScanDay'
  BY <1>1, <1>2, <1>10 DEF DigestTimer, Fallback, Others
<1>11. ASSUME NEW i \in Slots, NEW c \in Clans, PutDiscord(i, c)
       PROVE  Others' /\ ScanDay'
  <2>1. /\ UNCHANGED <<up, booting, day, scan, completed, reported, posts>> /\ Event
        /\ UNCHANGED excused \/ excused' = excused \cup Sending(c)
    BY <1>11 DEF PutDiscord, StopBot
  <2>2. PICK w \in Settings[c] : wants' = [wants EXCEPT ![c] = w]
    BY <1>11 DEF PutDiscord
  <2>3. \A d \in Clans : wants'[d] \in Settings[d]
    BY <1>1, <2>2 DEF Others
  <2>4. excused' \subseteq Clans \X Kinds \X Days
    BY <1>1, <2>1, SendingTyped DEF Others
  <2>5. Others'
    BY <1>1, <2>1, <2>3, <2>4, DigestAssumption DEF Others, Event
  <2> QED
    BY <1>1, <2>1, <2>5 DEF ScanDay
<1>12. ASSUME NEW i \in Slots, NEW c \in Clans, OnClanScanCompleted(i, c)
       PROVE  Others' /\ ScanDay'
  <2>1. /\ UNCHANGED <<up, booting, day, wants, completed, reported, posts, excused, events>>
        /\ scan' = [scan EXCEPT ![c] = NoScan]
    BY <1>12 DEF OnClanScanCompleted
  <2>2. /\ scan' \in [Clans -> [pc : {"idle", "scanning", "completed"}, began : 0..MaxDay]]
        /\ \A d \in Clans : scan'[d] = scan[d] \/ scan'[d].pc = "idle"
    BY <1>1, <2>1, DigestAssumption DEF NoScan, Others
  <2>3. Others'
    BY <1>1, <2>1, <2>2 DEF Others
  <2>4. ScanDay'
    BY <1>1, <2>1, <2>2 DEF ScanDay
  <2> QED
    BY <2>3, <2>4
<1>13. ASSUME NEW c \in Clans, ScanBegins(c)
       PROVE  Others' /\ ScanDay'
  <2>1. /\ UNCHANGED <<up, booting, day, wants, completed, reported, posts, excused, events>>
        /\ scan' = [scan EXCEPT ![c] = [pc |-> "scanning", began |-> day]]
    BY <1>13 DEF ScanBegins
  <2>2. /\ scan' \in [Clans -> [pc : {"idle", "scanning", "completed"}, began : 0..MaxDay]]
        /\ \A d \in Clans : scan'[d] = scan[d] \/ scan'[d].began = day
    BY <1>1, <2>1 DEF Others
  <2>3. Others'
    BY <1>1, <2>1, <2>2 DEF Others
  <2>4. ScanDay'
    <3>1. day \in Nat
      BY <1>1 DEF Others
    <3> QED
      BY <1>1, <2>1, <2>2, <3>1 DEF ScanDay
  <2> QED
    BY <2>3, <2>4
<1>14. ASSUME NEW c \in Clans, ScanEnds(c)
       PROVE  Others' /\ ScanDay'
  <2>1. /\ UNCHANGED <<up, booting, day, wants, reported, posts, excused, events>>
        /\ scan[c].pc = "scanning"
        /\ \/ /\ completed' = [completed EXCEPT ![c] = scan[c].began]
              /\ scan' = [scan EXCEPT ![c].pc = "completed"]
           \/ scan' = [scan EXCEPT ![c] = NoScan] /\ UNCHANGED completed
    BY <1>14 DEF ScanEnds
  <2>2. scan \in [Clans -> [pc : {"idle", "scanning", "completed"}, began : 0..MaxDay]]
    BY <1>1 DEF Others
  <2>3. /\ scan' \in [Clans -> [pc : {"idle", "scanning", "completed"}, began : 0..MaxDay]]
        /\ \A d \in Clans : scan'[d] = scan[d] \/ scan'[d].pc # "scanning"
        /\ scan'[c].pc # "scanning"
    BY <2>1, <2>2, DigestAssumption DEF NoScan
  <2>4. /\ completed' \in [Clans -> 0..MaxDay]
        /\ \A d \in Clans : d # c => completed'[d] = completed[d]
        /\ completed'[c] \in {completed[c], scan[c].began}
    BY <1>1, <2>1, <2>2 DEF Others
  <2>5. Others'
    BY <1>1, <2>1, <2>3, <2>4 DEF Others
  <2>6. ASSUME NEW d \in Clans
        PROVE  /\ completed'[d] <= day
               /\ scan'[d].pc = "scanning" =>
                    completed'[d] <= scan'[d].began /\ scan'[d].began <= day
    BY <1>1, <2>1, <2>3, <2>4 DEF ScanDay
  <2> QED
    BY <1>1, <2>1, <2>5, <2>6 DEF ScanDay
<1>15. ASSUME Rollover
       PROVE  Others' /\ ScanDay'
  <2>1. /\ UNCHANGED <<up, booting, wants, scan, completed, reported, posts, excused, events>>
        /\ day' = day + 1 /\ day < MaxDay /\ day \in Nat
    BY <1>1, <1>15 DEF Rollover, Others
  <2>2. Others'
    BY <1>1, <2>1, DigestAssumption DEF Others
  <2>3. ASSUME NEW c \in Clans
        PROVE  /\ completed[c] <= day + 1
               /\ scan[c].pc = "scanning" =>
                    completed[c] <= scan[c].began /\ scan[c].began <= day + 1
    BY <1>1, <2>1 DEF Others, ScanDay
  <2>4. \A c \in Clans, k \in Kinds, r \in Days : r > day + 1 => posts[c][k][r] = 0
    BY <1>1, <2>1 DEF Days, ScanDay
  <2> QED
    BY <2>1, <2>2, <2>3, <2>4 DEF ScanDay
<1>16. ASSUME Crash
       PROVE  Others' /\ ScanDay'
  <2>1. /\ UNCHANGED <<day, wants, completed, reported, posts>> /\ Event
        /\ up' = FALSE /\ booting' = {} /\ scan' = [c \in Clans |-> NoScan]
        /\ excused' = excused \cup UNION {Sending(c) : c \in Clans}
    BY <1>16 DEF Crash
  <2>2. scan' \in [Clans -> [pc : {"idle", "scanning", "completed"}, began : 0..MaxDay]]
        /\ \A c \in Clans : scan'[c].pc = "idle"
    BY <2>1, DigestAssumption DEF NoScan
  <2>3. excused' \subseteq Clans \X Kinds \X Days
    BY <1>1, <2>1, SendingTyped DEF Others
  <2>4. events' \in 0..MaxEvents
    BY <1>1, <2>1, DigestAssumption DEF Others, Event
  <2>5. Others'
    BY <1>1, <2>1, <2>2, <2>3, <2>4 DEF Others
  <2> QED
    BY <1>1, <2>1, <2>2, <2>5 DEF ScanDay
<1>17. ASSUME Boot
       PROVE  Others' /\ ScanDay'
  BY <1>1, <1>17 DEF Boot, Others, ScanDay
<1> QED
  BY <1>5, <1>6, <1>7, <1>8, <1>9, <1>10, <1>11, <1>12, <1>13, <1>14, <1>15, <1>16, <1>17
     DEF Next, Progress

-----------------------------------------------------------------------------
(* The theorems.                                                           *)

LEMMA DigestInit == Init => DigestInv
<1> SUFFICES ASSUME Init
             PROVE  DigestInv
  OBVIOUS
<1>1. /\ ctx = [c \in Clans |-> NoCtx] /\ task = [i \in Slots |-> NoTask]
      /\ client = [t \in Tokens |-> NoClient] /\ day = 0
      /\ posts = [c \in Clans |-> [k \in Kinds |-> [r \in Days |-> 0]]]
      /\ completed = [c \in Clans |-> 0] /\ scan = [c \in Clans |-> NoScan]
  BY DEF Init
<1>2. /\ ctx \in [Clans -> Context] /\ task \in [Slots -> Activation]
      /\ client \in [Tokens -> SharedClient]
      /\ \A i \in Slots : Formed(task[i]) /\ ~Flying(task[i])
      /\ \A c \in Clans : ctx[c] = NoCtx /\ ctx[c].due = 0 /\ ctx[c].timer = 0
  BY <1>1, NoneTyped DEF Flying
<1>3. TypeOK
  <2>1. up \in BOOLEAN /\ booting \subseteq Clans /\ day \in 0..MaxDay
        /\ (\A c \in Clans : wants[c] \in Settings[c])
        /\ excused \subseteq Clans \X Kinds \X Days /\ events \in 0..MaxEvents
    <3>1. /\ up = FALSE /\ booting = {} /\ excused = {} /\ events = MaxEvents
          /\ \A c \in Clans : wants[c] \in Settings[c]
      BY DEF Init
    <3>2. day \in 0..MaxDay /\ events \in 0..MaxEvents
      BY <1>1, <3>1, DigestAssumption
    <3> QED
      BY <3>1, <3>2
  <2>2. reported \in [Clans -> [Kinds -> [of : 0..MaxDay, at : 0..(MaxDay + 1)]]]
    <3>1. PICK at \in {0, Never} :
             reported = [c \in Clans |-> [k \in Kinds |-> [of |-> 0, at |-> at]]]
      BY DEF Init
    <3>2. at \in 0..(MaxDay + 1) /\ 0 \in 0..MaxDay
      BY DigestAssumption DEF Never
    <3> QED
      BY <3>1, <3>2
  <2>3. posts \in [Clans -> [Kinds -> [Days -> Nat]]]
    BY <1>1
  <2>4. completed \in [Clans -> 0..MaxDay]
        /\ scan \in [Clans -> [pc : {"idle", "scanning", "completed"}, began : 0..MaxDay]]
    BY <1>1, DigestAssumption DEF NoScan
  <2> QED
    BY <1>2, <2>1, <2>2, <2>3, <2>4 DEF TypeOK
<1>4. DigestTyped
  BY <1>2, <1>3 DEF DigestTyped
<1>5. DayInv
  <2>1. \A c \in Clans : ClanDay(c)
    BY <1>1, <1>2 DEF ClanDay, Overdue, NoScan
  <2>2. \A i \in Slots : SendOfDay(task[i])
    BY <1>2 DEF SendOfDay
  <2>3. \A c \in Clans, k \in Kinds, r \in Days : posts[c][k][r] = 0
    BY <1>1
  <2> QED
    BY <2>1, <2>2, <2>3 DEF DayInv
<1>6. SoleInv
  BY <1>1, DigestAssumption DEF SoleInv, Days
<1>7. NextIsComing /\ RepeatsAreExcused
  BY <1>1 DEF NextIsComing, Runs, RepeatsAreExcused
<1> QED
  BY <1>4, <1>5, <1>6, <1>7 DEF DigestInv

LEMMA DigestAssemble ==
  ASSUME Shaped', (\A c \in Clans : CtxDay(c))', (\A i \in Slots : SendOfDay(task[i]))',
         SoleInv', RepeatsAreExcused', NextIsComing', Others', ScanDay',
         client' \in [Tokens -> SharedClient]
  PROVE  DigestInv'
<1>1. DigestTyped'
  BY DEF DigestTyped, TypeOK, Shaped, Others
<1>2. DayInv'
  BY DEF DayInv, ClanDay, CtxDay, ScanDay
<1> QED
  BY <1>1, <1>2 DEF DigestInv

LEMMA OnwardInv ==
  ASSUME DigestInv, Next, Onward
  PROVE  DigestInv'
BY MovesShape, MovesNext, MovesSole, OthersNext, DigestAssemble DEF Onward

LEMMA DigestNext ==
  ASSUME DigestInv, [Next]_vars
  PROVE  DigestInv'
<1>1. CASE UNCHANGED vars
  <2>1. Moves /\ Kept /\ client' \in [Tokens -> SharedClient]
    BY <1>1 DEF vars, Moves, Kept, DigestInv, DigestTyped, TypeOK
  <2>2. Others' /\ ScanDay'
    BY <1>1 DEF vars, Others, ScanDay, DigestInv, DigestTyped, TypeOK, DayInv, ClanDay
  <2> QED
    BY <2>1, <2>2, MovesShape, MovesNext, MovesSole, DigestAssemble
<1>2. CASE Next
  <2>1. client \in [Tokens -> SharedClient] /\ Others' /\ ScanDay'
    BY <1>2, OthersNext DEF DigestInv, DigestTyped, TypeOK
  <2>2. ASSUME NEW i \in Slots, Post(i)
        PROVE  DigestInv'
    BY <2>1, <2>2, PostInv, DigestAssemble DEF Post
  <2>3. ASSUME NEW i \in Slots, Record(i)
        PROVE  DigestInv'
    BY <2>1, <2>3, RecordInv, DigestAssemble DEF Record
  <2>4. ASSUME NEW i \in Slots,
               \/ LoginResolves(i) \/ Registered(i) \/ ReadyNext(i) \/ Destroyed(i)
               \/ BootNext(i) \/ LoginFails(i)
        PROVE  DigestInv'
    BY <1>2, <2>4, LoginResolvesOnward, RegisteredOnward, ReadyNextOnward,
       DestroyedOnward, BootNextOnward, LoginFailsOnward, OnwardInv
  <2>5. ASSUME NEW i \in Slots, NEW t \in Tokens, ClientReady(i, t)
        PROVE  DigestInv'
    BY <1>2, <2>5, ClientReadyOnward, OnwardInv
  <2>6. ASSUME NEW i \in Slots, NEW c \in Clans,
               \/ DigestTimer(i, c) \/ Fallback(i, c) \/ PutDiscord(i, c)
               \/ OnClanScanCompleted(i, c)
        PROVE  DigestInv'
    BY <1>2, <2>6, DigestTimerOnward, FallbackOnward, PutDiscordOnward,
       OnClanScanCompletedOnward, OnwardInv
  <2>7. ASSUME NEW c \in Clans, ScanBegins(c)
        PROVE  DigestInv'
    <3>1. Onward
      BY <2>1, <2>7 DEF ScanBegins, Onward, Moves, Kept
    <3> QED
      BY <1>2, <3>1, OnwardInv
  <2>8. ASSUME NEW c \in Clans, ScanEnds(c)
        PROVE  DigestInv'
    BY <2>1, <2>8, ScanEndsInv, DigestAssemble DEF ScanEnds
  <2>9. ASSUME Rollover
        PROVE  DigestInv'
    BY <2>1, <2>9, RolloverInv, DigestAssemble DEF Rollover
  <2>10. ASSUME Crash
         PROVE  DigestInv'
    BY <2>1, <2>10, CrashInv, DigestAssemble
  <2>11. ASSUME Boot
         PROVE  DigestInv'
    <3>1. Onward
      BY <2>1, <2>11 DEF Boot, Onward, Moves, Kept
    <3> QED
      BY <1>2, <3>1, OnwardInv
  <2> QED
    BY <1>2, <2>2, <2>3, <2>4, <2>5, <2>6, <2>7, <2>8, <2>9, <2>10, <2>11
       DEF Next, Progress
<1> QED
  BY <1>1, <1>2

LEMMA DigestInvHolds == Spec => []DigestInv
BY DigestInit, DigestNext, PTL DEF Spec

\* The contexts, clients, activations and counters of the bots keep their types.
THEOREM DigestTypesCorrect == Spec => []TypeOK
<1>1. DigestInv => TypeOK
  BY DEF DigestInv, DigestTyped
<1> QED
  BY <1>1, DigestInvHolds, PTL

\* Whoever starts, stops, reloads or restarts a bot, and whatever fails but its login,
\* its next digest stays scheduled.
THEOREM DigestsKeepComing == Spec => []NextIsComing
<1>1. DigestInv => NextIsComing
  BY DEF DigestInv
<1> QED
  BY <1>1, DigestInvHolds, PTL

\* However the timer, a scan, a catch-up and the fallback overlap, a digest is posted
\* twice only with an excuse.
THEOREM DigestsGoOutOnce == Spec => []RepeatsAreExcused
<1>1. DigestInv => RepeatsAreExcused
  BY DEF DigestInv
<1> QED
  BY <1>1, DigestInvHolds, PTL

\* A digest that was not waived by the fallback is posted after a scan that started
\* after its rollover.
THEOREM DigestsWaitForTheirScan == Spec => []DayIsClosed
<1>1. DigestInv => DayIsClosed
  BY DEF DigestInv, DayInv, SendOfDay, Flying, DayIsClosed
<1> QED
  BY <1>1, DigestInvHolds, PTL
=============================================================================
