------------------------- MODULE RtObjects_proofs -------------------------
(***************************************************************************)
(* What holds of semaphores, mutexes, event sets, mailboxes and message    *)
(* queues together (ipc.c), for every number of threads, objects and       *)
(* blocks: one inductive invariant, ObjInv, with a part for the waiting    *)
(* lists and one for each kind of object, and three more on top of it, for *)
(* the permits of semaphores, the priorities of those who wait for a mutex *)
(* and deleted objects.                                                    *)
(*                                                                         *)
(* A step of one kind of object keeps the parts of the others since it     *)
(* leaves their waiting lists quiet: it serves nobody from them and puts   *)
(* nobody on them.                                                         *)
(***************************************************************************)
EXTENDS RtObjects, RtKernel_proofs

-----------------------------------------------------------------------------
(* Threads, calls and waiting lists *)

(* Where a thread stands that called rt_ipc_list_suspend and has not yet    *)
(* looked at the outcome of its wait.                                       *)
Asleep == {"block", "woken"}

(* Where a thread stands that is inside a loop or a copy of the IPC code    *)
(* with interrupts enabled.                                                 *)
Inside == {"resume_all", "resume_one", "fill", "copy"}

(* Where a thread of the composed objects can stand.                        *)
ObjPlace == {"app", "schedule"} \cup Asleep \cup Inside

(* The values the variable call takes in the composed objects.              *)
ObjCalls == [Thread -> [at : ObjPlace, on : {Idle}]]

(* Where thread t stands, in kernel state k with the calls c and the waits w *)
Stands(k, c, w, t) ==
  /\ k.stat[t] \in {"init", "ready", "suspend"}
  /\ k.stat[t] = "ready" => Queued(k, t)
  /\ k.stat[t] = "suspend" => c[t].at \in Asleep
  /\ c[t].at \in {"app", "schedule"} => w[t] = None
  /\ c[t].at \in Inside => w[t] # None
  /\ \A q \in WaitList : OnWait(k, q, t)
       => w[t] = q /\ c[t].at \in Asleep /\ k.error[t] = "ok"
  /\ w[t] # None /\ c[t].at \in Asleep => OnWait(k, w[t], t) \/ Queued(k, t)

\* g is f but for the value v at t
Puts(f, t, v, g) == g = [f EXCEPT ![t] = v]

(* What holds of the kernel, of the calls and of the waits between two      *)
(* steps of the IPC code.                                                   *)
Ipc(k, c, w) ==
  /\ KInv(k) /\ k.nest = 0 /\ (\A t \in Thread : k.slice[t] > 0)
  /\ c \in ObjCalls /\ w \in [Thread -> WaitList \cup {None}]
  /\ \A t \in Thread : Stands(k, c, w, t)
  /\ c[Idle].at = "app"
  /\ Queued(k, k.cur) \/ c[k.cur].at = "block"

(* Thread x was taken off list q by a release, a send or a post, and has    *)
(* not yet returned from rt_schedule to find that out.                      *)
ServedIn(k, c, w, x, q) ==
  w[x] = q /\ c[x].at \in Asleep /\ ~OnWait(k, q, x) /\ k.error[x] = "ok"

(* Thread x still waits on q, or has still been served there, or its wait    *)
(* has ended without.                                                        *)
Unmoved(k, c, w, r, c2, w2, x, q) ==
  /\ ServedIn(r, c2, w2, x, q) <=> ServedIn(k, c, w, x, q)
  /\ OnWait(r, q, x) => OnWait(k, q, x)

(* M has every thread that was served, or began to wait, or went on, with    *)
(* the list in question.                                                     *)
Same(M, k, c, w, r, c2, w2) ==
  \A x \in Thread : \A q \in WaitList :
    <<x, q>> \in M \/ Unmoved(k, c, w, r, c2, w2, x, q)

(* A queued thread is ready and waits nowhere.                              *)
LEMMA QueuedStands ==
  ASSUME NEW k, KInv(k), NEW t \in Thread, Queued(k, t)
  PROVE  k.stat[t] = "ready" /\ \A q \in WaitList : ~OnWait(k, q, t)
<1>1. k.stat[t] = "ready"
  BY DEF Queued, KInv, StatAgrees
<1> QED
  BY <1>1, ReadyWaitsNot

(* A thread in the middle of a call that runs is ready, and waits nowhere.   *)
LEMMA RunsReady ==
  ASSUME NEW k, NEW c, NEW w, Ipc(k, c, w), c[k.cur].at # "block"
  PROVE  /\ k.cur \in Thread /\ Queued(k, k.cur) /\ k.stat[k.cur] = "ready"
         /\ \A q \in WaitList : ~OnWait(k, q, k.cur)
<1>1. KInv(k) /\ k.cur \in Thread /\ Queued(k, k.cur)
  BY DEF Ipc, KInv, KernelState
<1> QED
  BY <1>1, QueuedStands

(* The thread x, which does not act, in a step that resumes R.               *)
LEMMA OthersStand ==
  ASSUME NEW k, NEW c, NEW w, Ipc(k, c, w), NEW r, NEW c2, NEW w2,
         NEW R \in SUBSET Thread, Wakes(R, k, r),
         NEW x \in Thread, c2[x] = c[x], w2[x] = w[x],
         x \in R \/ r.error[x] = k.error[x] \/ c[x].at \notin Asleep
  PROVE  /\ Stands(r, c2, w2, x)
         /\ \A q \in WaitList : \/ Unmoved(k, c, w, r, c2, w2, x, q)
                                \/ x \in R /\ r.error[x] = "ok" /\ q = w[x]
<1>1. KInv(k) /\ Stands(k, c, w, x) /\ KInv(r)
  BY DEF Ipc, Wakes
<1>2. CASE x \in R
  <2>1. k.stat[x] = "suspend" /\ r.stat[x] = "ready" /\ Queued(r, x)
    BY <1>2 DEF Wakes
  <2>2. ~Queued(k, x)
    BY <1>1, <2>1, QueuedStands
  <2>3. \A q \in WaitList : ~OnWait(r, q, x)
    BY <1>1, <2>1, QueuedStands
  <2>4. Stands(r, c2, w2, x)
    BY <1>1, <2>1, <2>3 DEF Stands, Asleep, Inside
  <2>5. \A q \in WaitList : ~ServedIn(k, c, w, x, q)
    BY <1>1, <2>2, IpcAssumption DEF Stands, ServedIn
  <2> QED
    BY <2>3, <2>4, <2>5, <1>2 DEF ServedIn, Unmoved
<1>3. CASE x \notin R
  <2>1. /\ r.stat[x] = k.stat[x] /\ (Queued(k, x) => Queued(r, x))
        /\ \A q \in WaitList : OnWait(r, q, x) <=> OnWait(k, q, x)
        /\ r.error[x] = k.error[x] \/ c[x].at \notin Asleep
    BY <1>3 DEF Wakes
  <2>2. w[x] \in WaitList \cup {None}
    BY DEF Ipc
  <2> QED
    BY <1>1, <2>1, <2>2 DEF Stands, ServedIn, Unmoved
<1> QED
  BY <1>2, <1>3

(* A step of the kernel in which no call goes on.                            *)
LEMMA Stays ==
  ASSUME NEW k, NEW c, NEW w, Ipc(k, c, w), NEW r,
         NEW R \in SUBSET Thread, Wakes(R, k, r),
         r.cur = k.cur \/ Queued(r, r.cur),
         \A x \in Thread \ R : r.error[x] = k.error[x] \/ c[x].at \notin Asleep,
         NEW M, \A x \in R : r.error[x] = "ok" => <<x, w[x]>> \in M
  PROVE  Ipc(r, c, w) /\ Same(M, k, c, w, r, c, w)
<1>1. ASSUME NEW x \in Thread
      PROVE  /\ Stands(r, c, w, x)
             /\ \A q \in WaitList : \/ Unmoved(k, c, w, r, c, w, x, q)
                                    \/ x \in R /\ r.error[x] = "ok" /\ q = w[x]
  BY OthersStand
<1>2. Same(M, k, c, w, r, c, w)
  BY <1>1 DEF Same
<1>3. Queued(r, r.cur) \/ c[r.cur].at = "block"
  <2>1. k.cur \in Thread /\ (Queued(k, k.cur) \/ c[k.cur].at = "block")
    BY DEF Ipc, KInv, KernelState
  <2> QED
    BY <2>1 DEF Wakes
<1>4. KInv(r) /\ r.nest = 0 /\ \A t \in Thread : r.slice[t] > 0
  BY DEF Wakes, Ipc
<1> QED
  BY <1>1, <1>2, <1>3, <1>4 DEF Ipc

(* The current thread t, which is ready, goes on to another place.           *)
LEMMA GoesOn ==
  ASSUME NEW k, NEW c, NEW w, Ipc(k, c, w), NEW t, t = k.cur, Queued(k, t), NEW r,
         NEW R \in SUBSET Thread, Wakes(R, k, r), r.cur = t \/ Queued(r, r.cur),
         NEW pl \in {"app", "schedule"} \cup Inside, NEW v \in WaitList \cup {None},
         NEW c2, NEW w2, Puts(c, t, To(pl, Idle), c2), Puts(w, t, v, w2),
         pl \in {"app", "schedule"} <=> v = None,
         t = Idle => pl = "app",
         \A x \in Thread \ R : x = t \/ r.error[x] = k.error[x],
         NEW M, \A x \in R : r.error[x] = "ok" => <<x, w[x]>> \in M,
         c[t].at \in Asleep => w[t] = None \/ <<t, w[t]>> \in M
  PROVE  Ipc(r, c2, w2) /\ Same(M, k, c, w, r, c2, w2)
<1>1. /\ t \in Thread /\ KInv(k) /\ KInv(r) /\ k.stat[t] = "ready"
      /\ \A q \in WaitList : ~OnWait(k, q, t)
  BY QueuedStands DEF Ipc, KInv, KernelState, Wakes
<1>2. t \notin R /\ Queued(r, t) /\ r.stat[t] = "ready" /\ \A q \in WaitList : ~OnWait(r, q, t)
  BY <1>1 DEF Wakes
<1>3. /\ c2 \in ObjCalls /\ w2 \in [Thread -> WaitList \cup {None}]
      /\ c2[t].at = pl /\ w2[t] = v
      /\ \A x \in Thread \ {t} : c2[x] = c[x] /\ w2[x] = w[x]
  BY <1>1, ThreadAssumption DEF Ipc, Puts, ObjCalls, ObjPlace, To
<1>4. Stands(r, c2, w2, t)
  BY <1>2, <1>3 DEF Stands, Inside, Asleep
<1>5. ASSUME NEW x \in Thread, x # t
      PROVE  /\ Stands(r, c2, w2, x)
             /\ \A q \in WaitList : \/ Unmoved(k, c, w, r, c2, w2, x, q)
                                    \/ x \in R /\ r.error[x] = "ok" /\ q = w[x]
  <2>1. c2[x] = c[x] /\ w2[x] = w[x] /\ (x \in R \/ r.error[x] = k.error[x])
    BY <1>3, <1>5
  <2> QED
    BY <2>1, OthersStand
<1>6. \A q \in WaitList : <<t, q>> \in M \/ Unmoved(k, c, w, r, c2, w2, t, q)
  BY <1>1, <1>2, <1>3, IpcAssumption DEF ServedIn, Unmoved, Asleep, Inside
<1>7. Same(M, k, c, w, r, c2, w2)
  BY <1>5, <1>6 DEF Same
<1>8. Queued(r, r.cur) \/ c2[r.cur].at = "block"
  BY <1>2
<1>9. KInv(r) /\ r.nest = 0 /\ \A x \in Thread : r.slice[x] > 0
  BY DEF Wakes, Ipc
<1>10. c2[Idle].at = "app"
  BY <1>3, ThreadAssumption DEF Ipc
<1> QED
  BY <1>3, <1>4, <1>5, <1>7, <1>8, <1>9, <1>10 DEF Ipc

(* rt_schedule on behalf of a thread that sleeps, or has been resumed.       *)
LEMMA SwitchesAway ==
  ASSUME NEW k, NEW c, NEW w, Ipc(k, c, w), NEW t, t = k.cur, c[t].at = "block",
         NEW r, r = Schedule(k), NEW c2, Puts(c, t, To("woken", Idle), c2)
  PROVE  Ipc(r, c2, w) /\ Same({}, k, c, w, r, c2, w)
<1>1. t \in Thread /\ KInv(k) /\ k.nest = 0
  BY DEF Ipc, KInv, KernelState
<1>2. Wakes({}, k, r) /\ r.error = k.error /\ Queued(r, r.cur)
  BY <1>1, ScheduleWakes
<1>3. /\ c2 \in ObjCalls /\ c2[t].at = "woken"
      /\ \A x \in Thread \ {t} : c2[x] = c[x]
  BY <1>1, ThreadAssumption DEF Ipc, Puts, ObjCalls, To, ObjPlace, Asleep
<1>4. /\ r.stat[t] = k.stat[t] /\ (Queued(k, t) => Queued(r, t))
      /\ \A q \in WaitList : OnWait(r, q, t) <=> OnWait(k, q, t)
      /\ KInv(r) /\ r.nest = 0 /\ \A x \in Thread : r.slice[x] > 0
  BY <1>1, <1>2 DEF Wakes, Ipc
<1>5. Stands(r, c2, w, t)
  <2>1. Stands(k, c, w, t) /\ w[t] \in WaitList \cup {None}
    BY <1>1 DEF Ipc
  <2> QED
    BY <1>2, <1>3, <1>4, <2>1 DEF Stands, Asleep, Inside
<1>6. ASSUME NEW x \in Thread, x # t
      PROVE  /\ Stands(r, c2, w, x)
             /\ \A q \in WaitList : Unmoved(k, c, w, r, c2, w, x, q)
  <2>1. c2[x] = c[x] /\ w[x] = w[x] /\ r.error[x] = k.error[x] /\ {} \in SUBSET Thread
    BY <1>2, <1>3, <1>6
  <2>2. /\ Stands(r, c2, w, x)
        /\ \A q \in WaitList : \/ Unmoved(k, c, w, r, c2, w, x, q)
                               \/ x \in {} /\ r.error[x] = "ok" /\ q = w[x]
    BY <1>2, <2>1, OthersStand
  <2> QED
    BY <2>2
<1>7. Same({}, k, c, w, r, c2, w)
  <2>1. \A q \in WaitList : Unmoved(k, c, w, r, c2, w, t, q)
    BY <1>2, <1>3, <1>4 DEF ServedIn, Asleep, Unmoved
  <2> QED
    BY <1>6, <2>1 DEF Same
<1>8. c2[Idle].at = "app"
  BY <1>3, ThreadAssumption DEF Ipc
<1> QED
  BY <1>2, <1>3, <1>4, <1>5, <1>6, <1>7, <1>8 DEF Ipc

(* The current thread t goes to sleep, on the suspend list v or on none.     *)
LEMMA FallsAsleep ==
  ASSUME NEW k, NEW c, NEW w, Ipc(k, c, w), NEW t, t = k.cur, Queued(k, t), t # Idle,
         NEW r, Sleeps(t, k, r), NEW v \in WaitList \cup {None},
         \A q \in WaitList : OnWait(r, q, t) <=> q = v,
         v = None \/ r.error[t] = "ok", NEW c2, NEW w2,
         Puts(c, t, To("block", Idle), c2), Puts(w, t, v, w2),
         NEW M, c[t].at \in Asleep => w[t] = None \/ <<t, w[t]>> \in M,
         v # None => <<t, v>> \in M
  PROVE  Ipc(r, c2, w2) /\ Same(M, k, c, w, r, c2, w2)
<1>1. t \in Thread /\ KInv(k) /\ k.nest = 0 /\ None \notin WaitList
  BY IpcAssumption DEF Ipc, KInv, KernelState
<1>2. /\ c2 \in ObjCalls /\ w2 \in [Thread -> WaitList \cup {None}]
      /\ c2[t].at = "block" /\ w2[t] = v
      /\ \A x \in Thread \ {t} : c2[x] = c[x] /\ w2[x] = w[x]
  BY <1>1, ThreadAssumption DEF Ipc, Puts, ObjCalls, To, ObjPlace, Asleep
<1>3. Stands(r, c2, w2, t)
  BY <1>1, <1>2 DEF Stands, Sleeps, Asleep, Inside
<1>4. ASSUME NEW x \in Thread \ {t}
      PROVE  /\ Stands(r, c2, w2, x)
             /\ \A q \in WaitList : Unmoved(k, c, w, r, c2, w2, x, q)
  <2>1. Stands(k, c, w, x) /\ w[x] \in WaitList \cup {None}
    BY DEF Ipc
  <2>2. /\ r.stat[x] = k.stat[x] /\ r.error[x] = k.error[x]
        /\ Queued(r, x) <=> Queued(k, x)
        /\ \A q \in WaitList : OnWait(r, q, x) <=> OnWait(k, q, x)
    BY DEF Sleeps
  <2> QED
    BY <1>2, <2>1, <2>2 DEF Stands, ServedIn, Unmoved
<1>5. \A q \in WaitList : <<t, q>> \in M \/ Unmoved(k, c, w, r, c2, w2, t, q)
  BY <1>1, <1>2 DEF ServedIn, Unmoved
<1>6. Same(M, k, c, w, r, c2, w2)
  BY <1>4, <1>5 DEF Same
<1>7. KInv(r) /\ r.nest = 0 /\ (\A x \in Thread : r.slice[x] > 0) /\ r.cur = t
  BY DEF Sleeps, Ipc
<1>8. c2[Idle].at = "app"
  BY <1>2, ThreadAssumption DEF Ipc
<1> QED
  BY <1>2, <1>3, <1>4, <1>6, <1>7, <1>8 DEF Ipc

(* Two steps that move only the pairs in M, one after the other, move only  *)
(* those.                                                                   *)
LEMMA SameThen ==
  ASSUME NEW M, NEW k, NEW c, NEW w, NEW k1, NEW c1, NEW w1, NEW k2, NEW c2, NEW w2,
         Same(M, k, c, w, k1, c1, w1), Same(M, k1, c1, w1, k2, c2, w2)
  PROVE  Same(M, k, c, w, k2, c2, w2)
  BY DEF Same, Unmoved

(* The part of the invariant that is about the kernel and the waiting       *)
(* lists, whatever the kind of the object.                                  *)
IpcInv ==
  /\ Ipc(kern, call, want)
  /\ isr \in {"none", "timers"} /\ alive \subseteq Object /\ wild \in BOOLEAN

(* A step moves only the pairs (thread, list) in M: it serves nobody else,  *)
(* and puts nobody else on a list.                                          *)
Moves(M) == Same(M, kern, call, want, kern', call', want')

(* What is known of a thread that runs, in any place but "block".            *)
LEMMA RunsFacts ==
  ASSUME IpcInv, NEW t, NEW place, Runs(t, place), place # "block"
  PROVE  /\ t \in Thread /\ t = kern.cur /\ Queued(kern, t) /\ kern.stat[t] = "ready"
         /\ call[t].at = place /\ isr = "none" /\ KInv(kern) /\ kern.nest = 0
         /\ \A q \in WaitList : ~OnWait(kern, q, t)
         /\ want[t] \in WaitList \cup {None}
         /\ place \in {"app", "schedule"} => want[t] = None
         /\ place \in Inside => want[t] # None
         /\ place # "app" => t # Idle
<1>1. Ipc(kern, call, want) /\ t = kern.cur /\ call[t].at = place /\ isr = "none"
  BY DEF IpcInv, Runs
<1>2. /\ t \in Thread /\ Queued(kern, t) /\ kern.stat[t] = "ready"
      /\ \A q \in WaitList : ~OnWait(kern, q, t)
  BY <1>1, RunsReady
<1> QED
  BY <1>1, <1>2 DEF Ipc, Stands

(* A thread that goes to sleep on list q: rt_ipc_list_suspend and the start *)
(* of its timer.                                                            *)
LEMMA WaitOnStep ==
  ASSUME IpcInv, NEW t, (Runs(t, "app") /\ t # Idle) \/ Woken(t),
         NEW k, Wakes({}, kern, k), k.cur = kern.cur,
         \A x \in Thread : k.error[x] = kern.error[x] \/ call[x].at \notin Asleep,
         NEW q \in WaitList, NEW n \in Nat, WaitOn(k, t, q, n),
         NEW M, want[t] = None \/ <<t, want[t]>> \in M, <<t, q>> \in M
  PROVE  IpcInv' /\ Moves(M)
<1>1. /\ t \in Thread /\ t = kern.cur /\ Queued(kern, t) /\ t # Idle
      /\ Ipc(kern, call, want)
  BY RunsFacts DEF Woken, IpcInv
<1>2. Ipc(k, call, want) /\ Same(M, kern, call, want, k, call, want)
  <2>1. {} \in SUBSET Thread
    OBVIOUS
  <2> QED
    BY <1>1, <2>1, Stays
<1>3. t = k.cur /\ Queued(k, t) /\ KInv(k)
  BY <1>1 DEF Wakes
<1>4. /\ Sleeps(t, k, kern') /\ kern'.error[t] = "ok"
      /\ \A l \in WaitList : OnWait(kern', l, t) <=> l = q
  <2>1. kern' = Block(k, q, t, Flag[q], n)
    BY DEF WaitOn
  <2> QED
    BY <1>1, <1>3, <2>1, BlockSleeps
<1>5. Puts(call, t, To("block", Idle), call') /\ Puts(want, t, q, want')
  BY DEF WaitOn, Goto, Puts
<1>6. Ipc(kern', call', want') /\ Same(M, k, call, want, kern', call', want')
  BY <1>1, <1>2, <1>3, <1>4, <1>5, FallsAsleep
<1>7. Moves(M)
  BY <1>2, <1>6, SameThen DEF Moves
<1> QED
  BY <1>6, <1>7 DEF IpcInv, WaitOn

(* A call ends, or goes on, after R have been resumed.                       *)
LEMMA GoesOnStep ==
  ASSUME IpcInv, NEW t, NEW place, Runs(t, place), place # "block",
         NEW R \in SUBSET Thread, Wakes(R, kern, kern'),
         kern'.cur = kern.cur \/ Queued(kern', kern'.cur),
         \A x \in Thread \ R : x = t \/ kern'.error[x] = kern.error[x],
         NEW pl \in {"app", "schedule"} \cup Inside, NEW v \in WaitList \cup {None},
         pl \in {"app", "schedule"} <=> v = None, t = Idle => pl = "app",
         Puts(call, t, To(pl, Idle), call'), Puts(want, t, v, want'),
         isr' = isr, alive' \subseteq alive, wild' = wild,
         NEW M, \A x \in R : kern'.error[x] = "ok" => <<x, want[x]>> \in M,
         place = "woken" => want[t] = None \/ <<t, want[t]>> \in M
  PROVE  IpcInv' /\ Moves(M)
<1>1. /\ t = kern.cur /\ Queued(kern, t) /\ call[t].at = place /\ Ipc(kern, call, want)
  BY RunsFacts DEF IpcInv
<1>3. call[t].at \in Asleep => want[t] = None \/ <<t, want[t]>> \in M
  BY <1>1 DEF Asleep
<1>4. kern'.cur = t \/ Queued(kern', kern'.cur)
  BY <1>1
<1>5. Ipc(kern', call', want') /\ Same(M, kern, call, want, kern', call', want')
  BY <1>1, <1>3, <1>4, GoesOn
<1> QED
  BY <1>5 DEF IpcInv, Moves

(* A call that goes on resuming nobody.                                      *)
LEMMA AloneStep ==
  ASSUME IpcInv, NEW t, NEW place, Runs(t, place), place # "block",
         Wakes({}, kern, kern'), kern'.cur = kern.cur \/ Queued(kern', kern'.cur),
         \A x \in Thread : x = t \/ kern'.error[x] = kern.error[x],
         NEW pl \in {"app", "schedule"} \cup Inside, NEW v \in WaitList \cup {None},
         pl \in {"app", "schedule"} <=> v = None, t = Idle => pl = "app",
         Puts(call, t, To(pl, Idle), call'), Puts(want, t, v, want'),
         isr' = isr, alive' \subseteq alive, wild' = wild,
         place = "woken" => want[t] = None
  PROVE  IpcInv' /\ Moves({})
<1> DEFINE none == {}
<1>1. none \in SUBSET Thread /\ Wakes(none, kern, kern')
  OBVIOUS
<1>2. \A x \in none : kern'.error[x] = "ok" => <<x, want[x]>> \in none
  OBVIOUS
<1> HIDE DEF none
<1>3. IpcInv' /\ Moves(none)
  BY <1>1, <1>2, GoesOnStep
<1> QED
  BY <1>3 DEF none

(* A thread that returns from rt_schedule and leaves its wait.              *)
LEMMA WaitOverStep ==
  ASSUME IpcInv, NEW t, Woken(t), WaitOver(t),
         Wakes({}, kern, kern'), kern'.cur = kern.cur,
         \A x \in Thread \ {t} : kern'.error[x] = kern.error[x],
         NEW M, <<t, want[t]>> \in M
  PROVE  IpcInv' /\ Moves(M)
<1>1. Runs(t, "woken") /\ {} \in SUBSET Thread
  BY DEF Woken
<1>2. /\ Puts(call, t, To("app", Idle), call') /\ Puts(want, t, None, want')
      /\ isr' = isr /\ alive' \subseteq alive /\ wild' = wild
  BY DEF WaitOver, Return, InApp, To, Puts
<1> QED
  BY <1>1, <1>2, GoesOnStep

\* M has the list t has waited on, if it has waited
Counts(M, t, place) == place = "woken" => want[t] = None \/ <<t, want[t]>> \in M

(* The end of a call that may have woken some threads, with or without      *)
(* rt_schedule.                                                             *)
LEMMA ThenScheduleStep ==
  ASSUME IpcInv, NEW t, NEW place, Runs(t, place), place # "block", t # Idle,
         NEW R \in SUBSET Thread, NEW k, Wakes(R, kern, k), k.cur = kern.cur,
         \A x \in Thread \ R : k.error[x] = kern.error[x],
         ThenSchedule(t, k, TRUE) \/ ThenSchedule(t, k, FALSE),
         NEW M, \A x \in R : k.error[x] = "ok" => <<x, want[x]>> \in M,
         Counts(M, t, place)
  PROVE  IpcInv' /\ Moves(M)
<1>1. /\ kern' = k /\ Puts(want, t, None, want')
      /\ isr' = isr /\ alive' \subseteq alive /\ wild' = wild
  BY DEF ThenSchedule, Puts
<1>2. CASE ThenSchedule(t, k, TRUE)
  <2>1. Puts(call, t, To("schedule", Idle), call')
    BY <1>2 DEF ThenSchedule, Goto, Puts
  <2> QED
    BY <1>1, <2>1, GoesOnStep DEF Counts
<1>3. CASE ThenSchedule(t, k, FALSE)
  <2>1. Puts(call, t, To("app", Idle), call')
    BY <1>3 DEF ThenSchedule, Return, InApp, To, Puts
  <2> QED
    BY <1>1, <2>1, GoesOnStep DEF Counts
<1> QED
  BY <1>2, <1>3

(* Steps in which no call goes on: interrupt handlers, and calls that end at *)
(* once.                                                                     *)
LEMMA StaysStep ==
  ASSUME IpcInv, NEW R \in SUBSET Thread, Wakes(R, kern, kern'),
         kern'.cur = kern.cur \/ Queued(kern', kern'.cur),
         \A x \in Thread \ R : kern'.error[x] = kern.error[x] \/ call[x].at \notin Asleep,
         UNCHANGED <<call, want>>, isr' \in {"none", "timers"},
         alive' \subseteq alive, wild' \in BOOLEAN,
         NEW M, \A x \in R : kern'.error[x] = "ok" => <<x, want[x]>> \in M
  PROVE  IpcInv' /\ Moves(M)
<1>1. Ipc(kern, call, want)
  BY DEF IpcInv
<1>2. Ipc(kern', call, want) /\ Same(M, kern, call, want, kern', call, want)
  BY <1>1, Stays
<1> QED
  BY <1>2 DEF IpcInv, Moves

(* The first waiter of a list.                                               *)
LEMMA FirstWaiter ==
  ASSUME NEW k, KInv(k), NEW q \in WaitList
  PROVE  /\ Waiting(k, q) <=> \E x \in Thread : OnWait(k, q, x)
         /\ Waiting(k, q) => /\ Head(k.list[Wait(q)]) \in Thread
                             /\ OnWait(k, q, Head(k.list[Wait(q)]))
                             /\ k.stat[Head(k.list[Wait(q)])] = "suspend"
<1> DEFINE s == k.list[Wait(q)]
           h == Head(s)
<1>1. s \in Seq(Thread)
  BY ListKeys DEF KInv, KernelState
<1>2. \A x : OnWait(k, q, x) => x \in Thread /\ s # << >>
  BY <1>1 DEF OnWait, Contains
<1>3. s # << >> => h \in Thread /\ OnWait(k, q, h)
  BY <1>1 DEF OnWait, Contains
<1>4. \A x \in Thread : OnWait(k, q, x) => k.stat[x] = "suspend"
  BY DEF KInv, StatAgrees, OnWait
<1>5. Waiting(k, q) <=> s # << >>
  BY DEF Waiting
<1> HIDE DEF s, h
<1>6. Waiting(k, q) <=> \E x \in Thread : OnWait(k, q, x)
  BY <1>2, <1>3, <1>5
<1>7. Waiting(k, q) => h \in Thread /\ OnWait(k, q, h) /\ k.stat[h] = "suspend"
  BY <1>3, <1>4, <1>5
<1> QED
  BY <1>6, <1>7 DEF h, s

(* Woke takes the first waiter of a list, when there is one, and nobody     *)
(* else.                                                                    *)
LEMMA WokeWakes ==
  ASSUME NEW k, KInv(k), NEW q \in WaitList
  PROVE  LET r == Woke(k, q)
             R == IF Waiting(k, q) THEN {Head(k.list[Wait(q)])} ELSE {}
         IN /\ Wakes(R, k, r) /\ r.error = k.error /\ r.prio = k.prio /\ r.cur = k.cur
            /\ R \in SUBSET Thread
<1> DEFINE h == Head(k.list[Wait(q)])
<1>1. CASE Waiting(k, q)
  <2>1. h \in Thread /\ k.stat[h] = "suspend"
    BY <1>1, FirstWaiter
  <2>2. Woke(k, q) = Resume(k, h)
    BY <1>1 DEF Woke, IpcResume
  <2> HIDE DEF h
  <2>3. /\ Wakes({h}, k, Resume(k, h)) /\ Resume(k, h).error = k.error
        /\ Resume(k, h).prio = k.prio /\ Resume(k, h).cur = k.cur
    BY <2>1, ResumeWakes
  <2>4. {h} \in SUBSET Thread
    BY <2>1
  <2> QED
    BY <1>1, <2>2, <2>3, <2>4 DEF h
<1>2. CASE ~Waiting(k, q)
  BY <1>2, WakesNobody DEF Woke
<1> QED
  BY <1>1, <1>2

(* ServedIn, of the current state.                                          *)
ServedAt(t, q) == ServedIn(kern, call, want, t, q)

(* The predicate Served of the model is ServedAt.                           *)
LEMMA ServedIs ==
  \A t, q : Served(t, q) <=> ServedAt(t, q)
  BY DEF Served, ServedAt, ServedIn, Asleep, OnWait

(* A thread that uses object o is the running one, waits on nothing, and o  *)
(* has not been deleted.                                                    *)
LEMMA UsesFacts ==
  ASSUME IpcInv, NEW t, NEW o, Uses(t, o)
  PROVE  /\ Runs(t, "app") /\ t # Idle /\ o \in alive /\ o \in Object /\ o \in WaitList
         /\ t \in Thread /\ t = kern.cur /\ want[t] = None /\ call[t].at = "app"
         /\ isr = "none" /\ KInv(kern)
<1>1. Runs(t, "app") /\ t # Idle /\ o \in alive
  BY DEF Uses
<1> QED
  BY <1>1, RunsFacts, IpcAssumption DEF IpcInv

(* A thread that goes nowhere keeps its call and its wait.                  *)
LEMMA CallIs ==
  ASSUME IpcInv, NEW t \in Thread
  PROVE  /\ Puts(call, t, To(call[t].at, Idle), call)
         /\ Puts(want, t, want[t], want)
         /\ call[t].at \in ObjPlace
<1>1. call \in [Thread -> [at : ObjPlace, on : {Idle}]] /\ want \in [Thread -> WaitList \cup {None}]
  BY DEF IpcInv, Ipc, ObjCalls
<1>2. To(call[t].at, Idle) = call[t]
  BY <1>1 DEF To
<1> QED
  BY <1>1, <1>2 DEF Puts

-----------------------------------------------------------------------------
(* Threads that sleep, and the tick *)

(* The pending rt_schedule at the end of a call.                            *)
LEMMA RescheduleStep ==
  ASSUME IpcInv, NEW t, Reschedule(t), UNCHANGED waitVars
  PROVE  IpcInv' /\ Moves({})
<1>1. Runs(t, "schedule")
  BY DEF Reschedule
<1>2. /\ t \in Thread /\ KInv(kern) /\ kern.nest = 0 /\ want[t] = None
  BY <1>1, RunsFacts
<1>3. kern' = Schedule(kern) /\ Puts(call, t, To("app", Idle), call') /\ isr' = isr
  BY DEF Reschedule, Return, InApp, To, Puts
<1>4. Wakes({}, kern, kern') /\ kern'.error = kern.error /\ Queued(kern', kern'.cur)
  BY <1>2, <1>3, ScheduleWakes
<1>5. Puts(want, t, None, want') /\ alive' \subseteq alive /\ wild' = wild
  BY <1>2, CallIs DEF waitVars
<1> QED
  BY <1>1, <1>3, <1>4, <1>5, AloneStep

(* rt_thread_sleep reaches its rt_schedule.                                 *)
LEMMA SleepScheduleStep ==
  ASSUME IpcInv, NEW t, SleepSchedule(t), UNCHANGED waitVars
  PROVE  IpcInv' /\ Moves({})
<1>1. t = kern.cur /\ call[t].at = "block" /\ Ipc(kern, call, want)
  BY DEF SleepSchedule, Runs, IpcInv
<1>2. /\ kern' = Schedule(kern) /\ Puts(call, t, To("woken", Idle), call')
      /\ UNCHANGED <<isr, want, alive, wild>>
  BY DEF SleepSchedule, Goto, Puts, waitVars
<1>3. Ipc(kern', call', want) /\ Same({}, kern, call, want, kern', call', want)
  BY <1>1, <1>2, SwitchesAway
<1> QED
  BY <1>2, <1>3 DEF IpcInv, Moves

(* rt_thread_sleep up to the start of its timer.                            *)
LEMMA SleepStep ==
  ASSUME IpcInv, NEW t, NEW n \in Nat, Sleep(t, n), UNCHANGED waitVars
  PROVE  IpcInv' /\ Moves({})
<1>1. Runs(t, "app") /\ t # Idle
  BY DEF Sleep
<1>2. /\ t \in Thread /\ t = kern.cur /\ Queued(kern, t) /\ KInv(kern) /\ want[t] = None
      /\ Ipc(kern, call, want) /\ call[t].at = "app" /\ None \notin WaitList
  BY <1>1, RunsFacts, IpcAssumption DEF IpcInv
<1> DEFINE s == Suspend(kern, t)
<1>3. kern' = TimerStart(s, t, n)
  BY DEF Sleep
<1>4. Sleeps(t, kern, s) /\ ~Linked(s, t)
  BY <1>1, <1>2, SuspendSleeps
<1> HIDE DEF s
<1>5. Sleeps(t, kern, kern') /\ kern'.list = s.list
  BY <1>2, <1>3, <1>4, TimedSleep
<1>6. \A q \in WaitList : OnWait(kern', q, t) <=> q = None
  BY <1>2, <1>4, <1>5, ListKeys DEF OnWait, Linked
<1>7. Puts(call, t, To("block", Idle), call') /\ Puts(want, t, None, want')
  BY <1>2, CallIs DEF Sleep, Goto, Puts, waitVars
<1>8. Ipc(kern', call', want') /\ Same({}, kern, call, want, kern', call', want')
  BY <1>1, <1>2, <1>5, <1>6, <1>7, FallsAsleep DEF Asleep
<1> QED
  BY <1>8 DEF IpcInv, Moves, Sleep, waitVars

(* rt_thread_sleep or rt_schedule returns to the caller.                    *)
LEMMA SleptStep ==
  ASSUME IpcInv, NEW t, Slept(t), want[t] = None, UNCHANGED waitVars
  PROVE  IpcInv' /\ Moves({})
<1>1. Runs(t, "woken")
  BY DEF Slept
<1>2. t \in Thread /\ KInv(kern) /\ kern \in KernelState
  BY <1>1, RunsFacts DEF KInv
<1> DEFINE e == IF kern.error[t] = "timeout" THEN "ok" ELSE kern.error[t]
<1>3. kern' = [kern EXCEPT !.error[t] = e] /\ e \in Error
  BY <1>2 DEF Slept, KernelState, Error
<1> HIDE DEF e
<1>4. /\ Wakes({}, kern, kern') /\ kern'.error = [kern.error EXCEPT ![t] = e]
      /\ kern'.cur = kern.cur
  BY <1>2, <1>3, ErrorWakes
<1>5. \A x \in Thread : x = t \/ kern'.error[x] = kern.error[x]
  BY <1>2, <1>4 DEF KernelState
<1>6. Puts(call, t, To("app", Idle), call') /\ Puts(want, t, None, want')
  BY <1>2, CallIs DEF Slept, Return, InApp, To, Puts, waitVars
<1>7. isr' = isr /\ alive' \subseteq alive /\ wild' = wild
  BY DEF Slept, waitVars
<1> QED
  BY <1>1, <1>4, <1>5, <1>6, <1>7, AloneStep

(* A tick: a thread whose timeout has run out leaves its list with          *)
(* -RT_ETIMEOUT, and nobody is served.                                      *)
LEMMA InterruptStep ==
  ASSUME IpcInv, IpcTick
  PROVE  IpcInv' /\ Moves({})
<1>1. KInv(kern) /\ kern.nest = 0 /\ (\A x \in Thread : kern.slice[x] > 0)
      /\ \A x \in Thread : kern.stat[x] = "ready" => Queued(kern, x)
  BY DEF IpcInv, Ipc, Stands
<1>2. UNCHANGED <<call, want, alive, wild>> /\ isr' \in {"none", "timers"}
  BY DEF IpcTick, Interrupt, Tick, TimerFires, TickDone, waitVars, IpcInv
<1>3. alive' \subseteq alive /\ wild' \in BOOLEAN /\ UNCHANGED <<call, want>>
  BY <1>2 DEF IpcInv
<1>4. CASE Tick
  <2>1. kern' = TimersTick(SliceTick(kern)) /\ {} \in SUBSET Thread
    BY <1>4 DEF Tick
  <2>2. /\ Wakes({}, kern, kern') /\ kern'.error = kern.error
        /\ kern'.cur = kern.cur \/ Queued(kern', kern'.cur)
    BY <1>1, <2>1, TickWakes
  <2> QED
    BY <1>2, <1>3, <2>1, <2>2, StaysStep
<1>5. ASSUME NEW u \in Thread, TimerFires(u) PROVE IpcInv' /\ Moves({})
  <2>1. kern' = Timeout(kern, u) /\ kern.stat[u] = "suspend" /\ {u} \in SUBSET Thread
    BY <1>1, <1>5 DEF TimerFires, Due, KInv, TimersAgree
  <2>2. /\ Wakes({u}, kern, kern') /\ kern'.error = [kern.error EXCEPT ![u] = "timeout"]
        /\ Queued(kern', kern'.cur)
    BY <1>1, <2>1, TimeoutWakes
  <2>3. kern'.error[u] = "timeout" /\ \A x \in Thread \ {u} : kern'.error[x] = kern.error[x]
    BY <1>1, <2>2 DEF KInv, KernelState
  <2>4. \A x \in {u} : kern'.error[x] = "ok" => <<x, want[x]>> \in {}
    BY <2>3
  <2> QED
    BY <1>2, <1>3, <2>1, <2>2, <2>3, <2>4, StaysStep
<1>6. CASE TickDone
  <2>1. kern' = kern /\ {} \in SUBSET Thread
    BY <1>6 DEF TickDone
  <2>2. Wakes({}, kern, kern')
    BY <1>1, <2>1, WakesNobody
  <2> QED
    BY <1>2, <1>3, <2>1, <2>2, StaysStep
<1> QED
  BY <1>4, <1>5, <1>6 DEF IpcTick, Interrupt

-----------------------------------------------------------------------------
(* Deletion *)

(* The first part of rt_*_delete.                                           *)
LEMMA DeleteBeginStep ==
  ASSUME IpcInv, NEW t, NEW o, DeleteBegin(t, o)
  PROVE  IpcInv' /\ Moves({})
<1>1. /\ Runs(t, "app") /\ t # Idle /\ KInv(kern)
      /\ "resume_all" \in {"app", "schedule"} \cup Inside
      /\ o \in WaitList \cup {None} /\ o # None
  BY UsesFacts, IpcAssumption DEF DeleteBegin, Inside
<1>2. /\ Puts(call, t, To("resume_all", Idle), call') /\ Puts(want, t, o, want')
      /\ kern' = kern /\ isr' = isr /\ alive' \subseteq alive /\ wild' = wild
  BY DEF DeleteBegin, Goto, Puts
<1>3. Wakes({}, kern, kern')
  BY <1>1, <1>2, WakesNobody
<1> QED
  BY <1>1, <1>2, <1>3, AloneStep

(* The loop of rt_ipc_list_resume_all looks at its list.                    *)
LEMMA ResumeAllTestStep ==
  ASSUME IpcInv, NEW t, ResumeAllTest(t)
  PROVE  IpcInv' /\ Moves({})
<1>1. Runs(t, "resume_all")
  BY DEF ResumeAllTest
<1>2. /\ t \in Thread /\ t # Idle /\ KInv(kern) /\ want[t] \in WaitList /\ want[t] # None
      /\ call[t].at = "resume_all"
  BY <1>1, RunsFacts DEF Inside
<1>3. /\ kern' = kern /\ isr' = isr /\ alive' \subseteq alive /\ wild' = wild
      /\ Wakes({}, kern, kern')
  BY <1>2, WakesNobody DEF ResumeAllTest
<1>4. /\ Puts(call, t, To("resume_all", Idle), call) /\ Puts(want, t, want[t], want)
      /\ want[t] \in WaitList \cup {None}
  BY <1>2, CallIs
<1>5. /\ "resume_all" \in {"app", "schedule"} \cup Inside
      /\ "resume_one" \in {"app", "schedule"} \cup Inside
  BY DEF Inside
<1>6. CASE Waiting(kern, want[t])
  <2>1. Puts(call, t, To("resume_one", Idle), call') /\ Puts(want, t, want[t], want')
    BY <1>4, <1>6 DEF ResumeAllTest, Goto, Puts
  <2> QED
    BY <1>1, <1>2, <1>3, <1>4, <1>5, <2>1, AloneStep
<1>7. CASE ~Waiting(kern, want[t])
  <2> DEFINE v == NextList(want[t])
  <2>1. v \in WaitList \cup {None}
    BY IpcAssumption DEF NextList
  <2>2. /\ Puts(want, t, v, want')
        /\ IF v = None THEN Return(t) ELSE UNCHANGED call
    BY <1>7 DEF ResumeAllTest, Puts
  <2> HIDE DEF v
  <2>3. CASE v = None
    <3>1. Puts(call, t, To("app", Idle), call')
      BY <2>2, <2>3 DEF Return, InApp, To, Puts
    <3> QED
      BY <1>1, <1>2, <1>3, <2>1, <2>2, <2>3, <3>1, AloneStep
  <2>4. CASE v # None
    <3>1. Puts(call, t, To("resume_all", Idle), call')
      BY <1>4, <2>2, <2>4
    <3> QED
      BY <1>1, <1>2, <1>3, <1>5, <2>1, <2>2, <2>4, <3>1, AloneStep
  <2> QED
    BY <2>3, <2>4
<1> QED
  BY <1>6, <1>7

(* The loop of rt_ipc_list_resume_all wakes the first waiter.               *)
LEMMA ResumeAllOneStep ==
  ASSUME IpcInv, NEW t, ResumeAllOne(t)
  PROVE  IpcInv' /\ Moves({})
<1>1. Runs(t, "resume_one")
  BY DEF ResumeAllOne
<1>2. /\ t \in Thread /\ t # Idle /\ KInv(kern) /\ want[t] \in WaitList /\ want[t] # None
      /\ call[t].at = "resume_one" /\ want[t] \in WaitList \cup {None}
  BY <1>1, RunsFacts DEF Inside
<1>3. /\ Puts(call, t, To("resume_all", Idle), call') /\ Puts(want, t, want[t], want')
      /\ isr' = isr /\ alive' = alive /\ wild' \in BOOLEAN
      /\ "resume_all" \in {"app", "schedule"} \cup Inside
  BY <1>2, CallIs DEF ResumeAllOne, Goto, Puts, IpcInv, Inside
<1> DEFINE h == Head(kern.list[Wait(want[t])])
           R == IF Waiting(kern, want[t]) THEN {h} ELSE {}
           none == {}
<1>4. /\ R \in SUBSET Thread /\ Wakes(R, kern, kern') /\ kern'.cur = kern.cur
      /\ \A x \in Thread \ R : x = t \/ kern'.error[x] = kern.error[x]
      /\ \A x \in R : kern'.error[x] = "error"
  <2>1. CASE Waiting(kern, want[t])
    <3>1. h \in Thread /\ kern.stat[h] = "suspend"
      BY <1>2, <2>1, FirstWaiter
    <3>2. kern.error[h] \in Error /\ kern \in KernelState
      BY <1>2, <3>1 DEF KInv, KernelState
    <3>3. kern' = ResumeTold(kern, h)
      <4>1. kern' = ResumeWithError(kern, want[t])
        BY <2>1 DEF ResumeAllOne
      <4>2. [kern EXCEPT !.error[h] = "error"].list = kern.list
        BY <3>2 DEF KernelState
      <4> QED
        BY <4>1, <4>2 DEF ResumeWithError, IpcResume, ResumeTold
    <3> HIDE DEF h
    <3>4. /\ Wakes({h}, kern, kern') /\ kern'.error = [kern.error EXCEPT ![h] = "error"]
          /\ kern'.cur = kern.cur
      BY <1>2, <3>1, <3>3, ResumeToldWakes
    <3>5. R = {h}
      BY <2>1
    <3> HIDE DEF R
    <3>6. kern'.error[h] = "error" /\ \A x \in Thread \ {h} : kern'.error[x] = kern.error[x]
      BY <3>1, <3>2, <3>4 DEF KernelState
    <3> QED
      BY <3>1, <3>4, <3>5, <3>6
  <2>2. CASE ~Waiting(kern, want[t])
    BY <1>2, <2>2, WakesNobody DEF ResumeAllOne
  <2> QED
    BY <2>1, <2>2
<1>5. \A x \in R : kern'.error[x] = "ok" => <<x, want[x]>> \in none
  BY <1>4
<1> HIDE DEF R, none
<1>6. Ipc(kern', call', want') /\ Same(none, kern, call, want, kern', call', want')
  <2>1. Ipc(kern, call, want) /\ t = kern.cur /\ Queued(kern, t) /\ call[t].at \notin Asleep
    BY <1>1, RunsFacts DEF IpcInv, Asleep
  <2>2. kern'.cur = t
    BY <1>4, <2>1
  <2> QED
    BY <1>2, <1>3, <1>4, <1>5, <2>1, <2>2, GoesOn
<1> QED
  BY <1>3, <1>6 DEF IpcInv, Moves, none

-----------------------------------------------------------------------------
(* A waiter is woken and told nothing: the hand-over. *)

First(q) == IF Waiting(kern, q) THEN {Head(kern.list[Wait(q)])} ELSE {}

(* The pairs a step moves that hands list q to its first waiter.            *)
Handed(q) == First(q) \X {q}

\* whoever is handed something was waiting, and is served now
HandedOver(q) ==
  \A x \in First(q) :
    x \in Thread /\ OnWait(kern, q, x) /\ ServedAt(x, q)' /\ ~OnWait(kern', q, x)

\* r is the kernel state after the first waiter on q has been resumed
HandsOver(q, r) ==
  /\ First(q) \in SUBSET Thread /\ Wakes(First(q), kern, r)
  /\ r.cur = kern.cur /\ r.error = kern.error
  /\ \A x \in First(q) :
       /\ OnWait(kern, q, x) /\ want[x] = q /\ call[x].at \in Asleep
       /\ kern.error[x] = "ok" /\ ~OnWait(r, q, x)

\* nobody has been woken, nor put on or off a suspend list, yet
Alike(k) ==
  /\ Wakes({}, kern, k) /\ k.error = kern.error /\ k.cur = kern.cur
  /\ \A q \in WaitList : k.list[Wait(q)] = kern.list[Wait(q)]

(* Woke hands list q over to its first waiter, without a change of          *)
(* anybody's error.                                                         *)
LEMMA HandOver ==
  ASSUME IpcInv, NEW q \in WaitList, NEW k, Alike(k), NEW r, r = Woke(k, q)
  PROVE  HandsOver(q, r) /\ r.prio = k.prio
<1> DEFINE h == Head(kern.list[Wait(q)])
           R == First(q)
<1>1. /\ KInv(kern) /\ KInv(k) /\ (Waiting(k, q) <=> Waiting(kern, q)) /\ {} \in SUBSET Thread
      /\ Wakes({}, kern, k) /\ k.error = kern.error /\ k.cur = kern.cur
  BY DEF IpcInv, Ipc, Wakes, Waiting, Alike
<1>2. Head(k.list[Wait(q)]) = h
  BY DEF Alike
<1>3. /\ Wakes(R, k, r) /\ r.error = k.error /\ r.prio = k.prio /\ r.cur = k.cur
      /\ R \in SUBSET Thread
  BY <1>1, <1>2, WokeWakes DEF First
<1>4. Waiting(kern, q) => h \in Thread /\ OnWait(kern, q, h) /\ kern.stat[h] = "suspend"
  BY <1>1, FirstWaiter
<1>5. \A x : x \in R <=> Waiting(kern, q) /\ x = h
  BY DEF First
<1> HIDE DEF h, R
<1>6. Waiting(kern, q) => /\ want[h] = q /\ call[h].at \in Asleep /\ kern.error[h] = "ok"
  BY <1>4 DEF IpcInv, Ipc, Stands
<1>7. Waiting(kern, q) => ~OnWait(r, q, h)
  <2>1. ASSUME Waiting(kern, q) PROVE ~OnWait(r, q, h)
    <3>1. h \in R /\ KInv(r) /\ r.stat[h] = "ready"
      BY <1>3, <1>4, <1>5, <2>1 DEF Wakes
    <3> QED
      BY <1>4, <2>1, <3>1, ReadyWaitsNot
  <2> QED
    BY <2>1
<1>8. Wakes({} \cup R, kern, r)
  BY <1>1, <1>3, WakesThen
<1>9. {} \cup R = R
  OBVIOUS
<1>10. Wakes(R, kern, r) /\ r.error = kern.error /\ r.cur = kern.cur
  BY <1>1, <1>3, <1>8, <1>9
<1> QED
  BY <1>3, <1>4, <1>5, <1>6, <1>7, <1>10 DEF HandsOver, R

(* A thread resumes the first waiter on q.                                   *)
LEMMA WokeStep ==
  ASSUME IpcInv, NEW t, NEW place, Runs(t, place), place # "block", t # Idle,
         NEW q \in WaitList, NEW k, Alike(k),
         NEW r, r = Woke(k, q), ThenSchedule(t, r, TRUE) \/ ThenSchedule(t, r, FALSE)
  PROVE  /\ IpcInv' /\ HandedOver(q)
         /\ Moves(Handed(q) \cup {<<t, want[t]>>})
         /\ place # "woken" => Moves(Handed(q))
<1> DEFINE both == Handed(q) \cup {<<t, want[t]>>}
           one == Handed(q)
           R == First(q)
<1>1. HandsOver(q, r)
  BY HandOver
<1>2. /\ R \in SUBSET Thread /\ Wakes(R, kern, r) /\ r.cur = kern.cur
      /\ r.error = kern.error
      /\ \A x \in R : <<x, want[x]>> \in one /\ want[x] = q
  BY <1>1 DEF HandsOver, Handed
<1> HIDE DEF R, one
<1>3. <<t, want[t]>> \in both /\ \A x \in R : <<x, want[x]>> \in both
  BY <1>2 DEF one
<1> HIDE DEF both
<1>8. Counts(both, t, place)
  BY <1>3 DEF Counts
<1>4. IpcInv' /\ Moves(both)
  BY <1>2, <1>3, <1>8, ThenScheduleStep
<1>5. ASSUME place # "woken" PROVE Moves(one)
  <2>1. Counts(one, t, place)
    BY <1>5 DEF Counts
  <2> QED
    BY <1>2, <2>1, ThenScheduleStep
<1>6. ASSUME NEW x \in First(q)
      PROVE  x \in Thread /\ OnWait(kern, q, x) /\ ServedAt(x, q)' /\ ~OnWait(kern', q, x)
  <2>1. ~OnWait(kern, q, t)
    BY RunsFacts
  <2>2. x # t /\ x \in Thread
    BY <1>1, <1>6, <2>1 DEF HandsOver
  <2>3. call'[x] = call[x] /\ want'[x] = want[x]
    <3>1. /\ call \in [Thread -> [at : ObjPlace, on : {Idle}]]
          /\ want \in [Thread -> WaitList \cup {None}]
      BY DEF IpcInv, Ipc, ObjCalls
    <3> QED
      BY <2>2, <3>1 DEF ThenSchedule, Goto, Return
  <2>4. kern' = r
    BY DEF ThenSchedule
  <2> QED
    BY <1>1, <1>6, <2>2, <2>3, <2>4 DEF ServedAt, ServedIn, HandsOver
<1>7. HandedOver(q)
  BY <1>6 DEF HandedOver
<1> QED
  BY <1>4, <1>5, <1>7 DEF both, one

(* An interrupt handler does.                                                *)
LEMMA HandlerStep ==
  ASSUME IpcInv, NEW o, NEW q \in WaitList, InHandler(o, q)
  PROVE  IpcInv' /\ Moves(Handed(q)) /\ HandedOver(q)
<1> DEFINE r == Woke(kern, q)
           R == First(q)
           one == Handed(q)
<1>1. KInv(kern) /\ kern.nest = 0 /\ kern \in KernelState
  BY DEF IpcInv, Ipc, KInv
<1>2. Alike(kern)
  BY <1>1, WakesNobody DEF Alike
<1>3. r = Woke(kern, q) /\ kern' = IF Waiting(kern, q) THEN Schedule(r) ELSE kern
  BY DEF InHandler, Woke
<1>4. ~Waiting(kern, q) => r = kern
  BY DEF Woke
<1> HIDE DEF r
<1>5. HandsOver(q, r)
  BY <1>2, <1>3, HandOver
<1>11. /\ R \in SUBSET Thread /\ Wakes(R, kern, r) /\ r.cur = kern.cur
      /\ r.error = kern.error
      /\ \A x \in R : <<x, want[x]>> \in one /\ want[x] = q
  BY <1>5 DEF HandsOver, Handed
<1> HIDE DEF R, one
<1>6. /\ Wakes(R, kern, kern') /\ kern'.error = kern.error
      /\ kern'.cur = kern.cur \/ Queued(kern', kern'.cur)
      /\ \A x \in Thread : OnWait(kern', q, x) <=> OnWait(r, q, x)
  <2>1. CASE Waiting(kern, q)
    <3>1. KInv(r) /\ r.nest = 0 /\ kern' = Schedule(r) /\ {} \in SUBSET Thread
      BY <1>1, <1>3, <1>11, <2>1 DEF Wakes
    <3>2. /\ Wakes({}, r, kern') /\ kern'.error = r.error /\ kern'.list = r.list
          /\ Queued(kern', kern'.cur)
      BY <3>1, ScheduleWakes
    <3>3. Wakes(R \cup {}, kern, kern')
      BY <1>11, <3>1, <3>2, WakesThen
    <3>4. R \cup {} = R
      OBVIOUS
    <3> QED
      BY <1>11, <3>2, <3>3, <3>4 DEF OnWait
  <2>2. CASE ~Waiting(kern, q)
    BY <1>3, <1>4, <1>11, <2>2
  <2> QED
    BY <2>1, <2>2
<1>7. UNCHANGED <<call, want, isr, alive, wild>>
  BY DEF InHandler, waitVars
<1>8. UNCHANGED <<call, want>> /\ isr' \in {"none", "timers"} /\ alive' \subseteq alive
      /\ wild' \in BOOLEAN
  BY <1>7 DEF IpcInv
<1>9. IpcInv' /\ Moves(one)
  BY <1>11, <1>6, <1>8, StaysStep
<1>10. HandedOver(q)
  BY <1>5, <1>6, <1>7 DEF HandedOver, HandsOver, ServedAt, ServedIn
<1> QED
  BY <1>9, <1>10 DEF one

(* Everybody on q is told of an error.                                       *)
LEMMA AllWakesInv ==
  ASSUME NEW k, KInv(k), NEW q \in WaitList
  PROVE  LET r == ResumeAll(k, q)
             R == {x \in Thread : OnWait(k, q, x)}
         IN /\ R \in SUBSET Thread /\ Wakes(R, k, r) /\ r.cur = k.cur /\ KInv(r)
            /\ Thins(k, r)
            /\ \A x \in Thread : r.error[x] = IF x \in R THEN "error" ELSE k.error[x]
<1> DEFINE r == ResumeAll(k, q)
           R == {x \in Thread : OnWait(k, q, x)}
<1>1. /\ Wakes(R, k, r) /\ r.cur = k.cur /\ Thins(k, r)
      /\ \A x \in Thread : r.error[x] = IF x \in R THEN "error" ELSE k.error[x]
  BY ResumeAllWakes
<1>2. R \in SUBSET Thread
  OBVIOUS
<1> HIDE DEF R, r
<1>3. KInv(r)
  BY <1>1 DEF Wakes
<1> QED
  BY <1>1, <1>2, <1>3 DEF R, r

(* A list all of whose waiters woke is empty.                               *)
LEMMA NoneWaits ==
  ASSUME NEW k, NEW r, NEW R \in SUBSET Thread, Wakes(R, k, r), NEW q \in WaitList,
         \A x \in Thread : OnWait(k, q, x) => x \in R
  PROVE  ~Waiting(r, q)
<1>1. KInv(r)
  BY DEF Wakes
<1>2. ASSUME NEW x \in Thread, OnWait(r, q, x) PROVE FALSE
  <2>1. CASE x \in R
    <3>1. r.stat[x] = "ready"
      BY <2>1 DEF Wakes
    <3> QED
      BY <1>1, <1>2, <3>1, ReadyWaitsNot
  <2>2. CASE x \notin R
    BY <1>2, <2>2 DEF Wakes
  <2> QED
    BY <2>1, <2>2
<1> QED
  BY <1>1, <1>2, FirstWaiter

(* The reset of an object with the list p, and perhaps a list q.             *)
LEMMA ResetStep ==
  ASSUME IpcInv, NEW t, NEW o, Uses(t, o),
         NEW R \in SUBSET Thread, NEW r, Wakes(R, kern, r), r.cur = kern.cur,
         \A x \in R : r.error[x] = "error", \A x \in Thread \ R : r.error[x] = kern.error[x],
         ThenSchedule(t, r, TRUE) \/ ThenSchedule(t, r, FALSE)
  PROVE  IpcInv' /\ Moves({})
<1> DEFINE none == {}
<1>1. PICK place : Runs(t, place) /\ place # "block" /\ place # "woken" /\ t # Idle
  BY UsesFacts
<1>2. Counts(none, t, place) /\ \A x \in R : r.error[x] = "ok" => <<x, want[x]>> \in none
  BY <1>1 DEF Counts
<1> HIDE DEF none
<1>3. IpcInv' /\ Moves(none)
  BY <1>1, <1>2, ThenScheduleStep
<1> QED
  BY <1>3 DEF none

(* The reset of an object with one list.                                    *)
LEMMA ResetOneStep ==
  ASSUME IpcInv, NEW t, NEW o, Uses(t, o), ThenSchedule(t, ResumeAll(kern, o), TRUE)
  PROVE  IpcInv' /\ Moves({}) /\ ~Waiting(kern', o)
<1> DEFINE r == ResumeAll(kern, o)
           R == {x \in Thread : OnWait(kern, o, x)}
<1>1. KInv(kern) /\ o \in WaitList /\ (ThenSchedule(t, r, TRUE) \/ ThenSchedule(t, r, FALSE))
  BY UsesFacts
<1>2. /\ R \in SUBSET Thread /\ Wakes(R, kern, r) /\ r.cur = kern.cur /\ KInv(r)
      /\ \A x \in Thread : r.error[x] = IF x \in R THEN "error" ELSE kern.error[x]
  BY <1>1, AllWakesInv
<1>3. (\A x \in Thread : OnWait(kern, o, x) => x \in R) /\ kern' = r
  BY DEF ThenSchedule
<1> HIDE DEF r, R
<1>4. ~Waiting(kern', o)
  BY <1>1, <1>2, <1>3, NoneWaits
<1>5. IpcInv' /\ Moves({})
  BY <1>1, <1>2, ResetStep
<1> QED
  BY <1>4, <1>5

(* The reset of an object with two lists, a mailbox.                        *)
LEMMA ResetBothStep ==
  ASSUME IpcInv, NEW t, NEW o, Uses(t, o), NEW q \in WaitList,
         ThenSchedule(t, ResumeAll(ResumeAll(kern, o), q), TRUE)
  PROVE  IpcInv' /\ Moves({}) /\ ~Waiting(kern', o) /\ ~Waiting(kern', q)
<1> DEFINE m == ResumeAll(kern, o)
           r == ResumeAll(m, q)
           R == {x \in Thread : OnWait(kern, o, x)}
           S == {x \in Thread : OnWait(m, q, x)}
<1>1. KInv(kern) /\ o \in WaitList /\ (ThenSchedule(t, r, TRUE) \/ ThenSchedule(t, r, FALSE))
  BY UsesFacts
<1>2. /\ R \in SUBSET Thread /\ Wakes(R, kern, m) /\ m.cur = kern.cur /\ KInv(m)
      /\ \A x \in Thread : m.error[x] = IF x \in R THEN "error" ELSE kern.error[x]
  BY <1>1, AllWakesInv
<1>6. /\ \A x \in Thread : OnWait(kern, o, x) => x \in R
      /\ \A x \in Thread : OnWait(m, q, x) => x \in S
      /\ kern' = r
  BY DEF ThenSchedule
<1> HIDE DEF m, R
<1>3. /\ S \in SUBSET Thread /\ Wakes(S, m, r) /\ r.cur = m.cur /\ KInv(r)
      /\ \A x \in Thread : r.error[x] = IF x \in S THEN "error" ELSE m.error[x]
  BY <1>2, AllWakesInv
<1> HIDE DEF r, S
<1>4. Wakes(R \cup S, kern, r) /\ R \cup S \in SUBSET Thread /\ r.cur = kern.cur
  BY <1>2, <1>3, WakesThen
<1>5. /\ \A x \in R \cup S : r.error[x] = "error"
      /\ \A x \in Thread \ (R \cup S) : r.error[x] = kern.error[x]
  BY <1>2, <1>3
<1>7. ~Waiting(kern', q)
  BY <1>3, <1>6, NoneWaits
<1>8. ~Waiting(kern', o)
  <2>1. \A x \in Thread : OnWait(kern, o, x) => x \in R \cup S
    BY <1>6
  <2> QED
    BY <1>1, <1>4, <1>6, <2>1, NoneWaits
<1>9. IpcInv' /\ Moves({})
  BY <1>1, <1>4, <1>5, ResetStep
<1> QED
  BY <1>7, <1>8, <1>9

-----------------------------------------------------------------------------
(* Which lists a step leaves alone *)

(* Nothing has happened on the list q, but that waits on it have ended.       *)
Quiet(q) ==
  \A x \in Thread : Unmoved(kern, call, want, kern', call', want', x, q)

(* A step that concerns the lists in S only.                                *)
QuietOutside(S) == \A q \in WaitList : q \in S \/ Quiet(q)

(* The threads that have been served by list q and are not back yet.        *)
Coming(q) == {x \in Thread : ServedAt(x, q)}

(* A list that occurs in no moved pair is quiet.                            *)
LEMMA QuietOf ==
  ASSUME NEW M, Moves(M), NEW q \in WaitList, \A x \in Thread : <<x, q>> \notin M
  PROVE  Quiet(q)
  BY DEF Moves, Same, Quiet

(* A step that moves nobody leaves every list quiet.                        *)
LEMMA NobodyMoves ==
  ASSUME Moves({}), NEW q \in WaitList
  PROVE  Quiet(q)
  BY DEF Moves, Same, Quiet

(* rt_list_isempty of a waiting list, in terms of its members.              *)
LEMMA WaitingIs ==
  ASSUME IpcInv, NEW q \in WaitList
  PROVE  Waiting(kern, q) <=> \E x \in Thread : OnWait(kern, q, x)
<1>1. KInv(kern)
  BY DEF IpcInv, Ipc
<1> QED
  BY <1>1, FirstWaiter

(* What a quiet list keeps: the threads served by it, and nobody new on it. *)
LEMMA QuietList ==
  ASSUME IpcInv, IpcInv', NEW q \in WaitList, Quiet(q)
  PROVE  /\ Coming(q)' = Coming(q)
         /\ Waiting(kern', q) => Waiting(kern, q)
         /\ \A x \in Thread : OnWait(kern', q, x) => OnWait(kern, q, x)
<1>1. \A x \in Thread : /\ ServedAt(x, q)' <=> ServedAt(x, q)
                        /\ OnWait(kern', q, x) => OnWait(kern, q, x)
  BY DEF Quiet, Unmoved, ServedAt
<1>2. Waiting(kern, q) <=> \E x \in Thread : OnWait(kern, q, x)
  BY WaitingIs
<1>3. Waiting(kern', q) <=> \E x \in Thread : OnWait(kern', q, x)
  <2>1. KInv(kern')
    BY DEF IpcInv, Ipc
  <2> QED
    BY <2>1, FirstWaiter
<1> QED
  BY <1>1, <1>2, <1>3 DEF Coming

(* Only the thread t has begun to wait on q, or has gone on from there.      *)
LEMMA OneLeaves ==
  ASSUME IpcInv, IpcInv', NEW q \in WaitList, NEW t,
         NEW M, Moves(M), \A x \in Thread : <<x, q>> \in M => x = t,
         ~ServedAt(t, q)'
  PROVE  /\ Coming(q)' = Coming(q) \ {t}
         /\ \A x \in Thread \ {t} : OnWait(kern', q, x) => OnWait(kern, q, x)
<1>1. \A x \in Thread \ {t} : /\ ServedAt(x, q)' <=> ServedAt(x, q)
                              /\ OnWait(kern', q, x) => OnWait(kern, q, x)
  BY DEF Moves, Same, Unmoved, ServedAt
<1> QED
  BY <1>1 DEF Coming

(* The first waiter on q is handed something.                                *)
LEMMA HeadServed ==
  ASSUME IpcInv, IpcInv', NEW q \in WaitList, HandedOver(q),
         NEW M, Moves(M), \A x \in Thread : <<x, q>> \in M => x \in First(q)
  PROVE  /\ Coming(q)' = Coming(q) \cup First(q)
         /\ First(q) \subseteq Thread /\ First(q) \cap Coming(q) = {}
         /\ Waiting(kern', q) => Waiting(kern, q)
         /\ \A x \in Thread : OnWait(kern', q, x) => OnWait(kern, q, x) /\ x \notin First(q)
<1>1. \A x \in First(q) :
        x \in Thread /\ OnWait(kern, q, x) /\ ServedAt(x, q)' /\ ~OnWait(kern', q, x)
  BY DEF HandedOver
<1>2. \A x \in Thread : x \in First(q) \/ /\ ServedAt(x, q)' <=> ServedAt(x, q)
                                          /\ OnWait(kern', q, x) => OnWait(kern, q, x)
  BY DEF Moves, Same, Unmoved, ServedAt
<1>3. \A x \in First(q) : ~ServedAt(x, q)
  BY <1>1 DEF ServedAt, ServedIn
<1>4. Waiting(kern, q) <=> \E x \in Thread : OnWait(kern, q, x)
  BY WaitingIs
<1>5. Waiting(kern', q) <=> \E x \in Thread : OnWait(kern', q, x)
  <2>1. KInv(kern')
    BY DEF IpcInv, Ipc
  <2> QED
    BY <2>1, FirstWaiter
<1> HIDE DEF First
<1>6. Coming(q)' = Coming(q) \cup First(q)
  BY <1>1, <1>2 DEF Coming
<1> QED
  BY <1>1, <1>2, <1>3, <1>4, <1>5, <1>6 DEF Coming

(* How many are on their way.                                                *)
Many(q) == Cardinality(Coming(q))

(* The threads served by a list can be counted.                             *)
LEMMA ComingFinite ==
  ASSUME NEW q
  PROVE  IsFiniteSet(Coming(q)) /\ Many(q) \in Nat
<1>1. IsFiniteSet(Thread) /\ Coming(q) \subseteq Thread
  BY ObjectsAssumption DEF Coming
<1> QED
  BY <1>1, FS_Subset, FS_CardinalityType DEF Many

(* A thread comes back: one less is on its way.                             *)
LEMMA OneLess ==
  ASSUME NEW q, NEW S, NEW t, S = Coming(q) \ {t}
  PROVE  Cardinality(S) = IF t \in Coming(q) THEN Many(q) - 1 ELSE Many(q)
<1>1. IsFiniteSet(Coming(q)) /\ Many(q) \in Nat
  BY ComingFinite
<1>2. CASE t \in Coming(q)
  BY <1>1, <1>2, FS_RemoveElement DEF Many
<1>3. CASE t \notin Coming(q)
  <2>1. S = Coming(q)
    BY <1>3
  <2> QED
    BY <1>3, <2>1 DEF Many
<1> QED
  BY <1>2, <1>3

(* The first waiter is served: one more is on its way.                      *)
LEMMA OneMore ==
  ASSUME NEW q \in WaitList, First(q) \cap Coming(q) = {}, NEW S, S = Coming(q) \cup First(q)
  PROVE  Cardinality(S) = IF Waiting(kern, q) THEN Many(q) + 1 ELSE Many(q)
<1>1. IsFiniteSet(Coming(q)) /\ Many(q) \in Nat
  BY ComingFinite
<1>2. CASE Waiting(kern, q)
  <2> DEFINE h == Head(kern.list[Wait(q)])
  <2>1. First(q) = {h}
    BY <1>2 DEF First
  <2> HIDE DEF h
  <2>2. h \notin Coming(q) /\ S = Coming(q) \cup {h}
    BY <2>1
  <2> QED
    BY <1>1, <1>2, <2>2, FS_AddElement DEF Many
<1>3. CASE ~Waiting(kern, q)
  <2>1. S = Coming(q)
    BY <1>3 DEF First
  <2> QED
    BY <1>3, <2>1 DEF Many
<1> QED
  BY <1>2, <1>3

(* Every timeout is a natural number.                                       *)
LEMMA TimesAreNat ==
  /\ WaitTime \subseteq Nat /\ Forever \in Nat
  /\ 0 .. MaxDelay \subseteq Nat
  BY IpcAssumption, BoundAssumption DEF Forever

(* The state itself is one that has woken nobody.                           *)
LEMMA AlikeSelf == ASSUME IpcInv PROVE Alike(kern)
<1>1. KInv(kern)
  BY DEF IpcInv, Ipc
<1> QED
  BY <1>1, WakesNobody DEF Alike

(* Nothing of what the IPC layer keeps changes.                              *)
LEMMA IdleStep ==
  ASSUME IpcInv, UNCHANGED ipcVars
  PROVE  IpcInv' /\ Moves({})
<1>1. kern' = kern /\ call' = call /\ isr' = isr /\ want' = want /\ alive' = alive /\ wild' = wild
  BY DEF ipcVars, waitVars
<1> QED
  BY <1>1 DEF IpcInv, Moves, Same, Unmoved, ServedIn

(* A call that only sets the error code of its caller.                       *)
LEMMA ErrorStep ==
  ASSUME IpcInv, NEW t, NEW o, Uses(t, o), NEW e \in Error,
         kern' = [kern EXCEPT !.error[t] = e], UNCHANGED <<call, isr, waitVars>>
  PROVE  IpcInv' /\ Moves({})
<1> DEFINE none == {}
<1>1. t \in Thread /\ call[t].at = "app" /\ KInv(kern) /\ kern \in KernelState
  BY UsesFacts DEF KInv
<1>2. /\ Wakes({}, kern, kern') /\ kern'.error = [kern.error EXCEPT ![t] = e]
      /\ kern'.cur = kern.cur
  BY <1>1, ErrorWakes
<1>3. \A x \in Thread \ none : kern'.error[x] = kern.error[x] \/ call[x].at \notin Asleep
  BY <1>1, <1>2 DEF KernelState, Asleep
<1>4. none \in SUBSET Thread /\ \A x \in none : kern'.error[x] = "ok" => <<x, want[x]>> \in none
  OBVIOUS
<1>5. /\ UNCHANGED <<call, want>> /\ isr' \in {"none", "timers"}
      /\ alive' \subseteq alive /\ wild' \in BOOLEAN
  BY DEF waitVars, IpcInv
<1>7. Wakes(none, kern, kern')
  BY <1>2
<1> HIDE DEF none
<1>6. IpcInv' /\ Moves(none)
  BY <1>2, <1>7, <1>3, <1>4, <1>5, StaysStep
<1> QED
  BY <1>6 DEF none

(* A call that waits, on a list it has not waited on before.                 *)
LEMMA WaitsStep ==
  ASSUME IpcInv, NEW t, NEW o, Uses(t, o), NEW q \in WaitList, NEW n \in Nat,
         NEW k, Wakes({}, kern, k), k.cur = kern.cur,
         \A x \in Thread : k.error[x] = kern.error[x] \/ call[x].at \notin Asleep,
         WaitOn(k, t, q, n)
  PROVE  IpcInv' /\ Moves({<<t, q>>}) /\ ~ServedAt(t, q)' /\ OnWait(kern', q, t)
<1> DEFINE one == {<<t, q>>}
<1>1. Runs(t, "app") /\ t # Idle /\ t \in Thread /\ want[t] = None
  BY UsesFacts
<1>2. <<t, q>> \in one
  OBVIOUS
<1> HIDE DEF one
<1>3. IpcInv' /\ Moves(one)
  BY <1>1, <1>2, WaitOnStep
<1>4. OnWait(kern', q, t)
  <2>1. KInv(k)
    BY DEF Wakes
  <2>2. kern' = Block(k, q, t, Flag[q], n)
    BY DEF WaitOn
  <2> QED
    BY <1>1, <2>1, <2>2, BlockSleeps
<1> QED
  BY <1>3, <1>4 DEF one, ServedAt, ServedIn

(* A call whose wait is over.                                                *)
LEMMA ReturnsStep ==
  ASSUME IpcInv, NEW t, Woken(t), WaitOver(t), kern' = kern, NEW q, q = want[t]
  PROVE  /\ IpcInv' /\ Moves({<<t, q>>}) /\ ~ServedAt(t, q)'
         /\ t \in Thread /\ q \in WaitList /\ want'[t] = None
<1> DEFINE one == {<<t, q>>}
<1>1. t \in Thread /\ KInv(kern) /\ want[t] \in WaitList
  BY RunsFacts DEF Woken
<1>2. Wakes({}, kern, kern') /\ kern'.cur = kern.cur /\ <<t, want[t]>> \in one
  BY <1>1, WakesNobody
<1>3. \A x \in Thread \ {t} : kern'.error[x] = kern.error[x]
  OBVIOUS
<1> HIDE DEF one
<1>4. IpcInv' /\ Moves(one)
  BY <1>2, <1>3, WaitOverStep
<1>5. want'[t] = None
  <2>1. want \in [Thread -> WaitList \cup {None}]
    BY DEF IpcInv, Ipc
  <2> QED
    BY <1>1, <2>1 DEF WaitOver
<1> QED
  BY <1>1, <1>4, <1>5, IpcAssumption DEF one, ServedAt, ServedIn

(* A call that resumes the first waiter on q.                                *)
LEMMA HandsStep ==
  ASSUME IpcInv, NEW t, NEW o, Uses(t, o), NEW q \in WaitList, NEW k, Alike(k),
         ThenSchedule(t, Woke(k, q), TRUE) \/ ThenSchedule(t, Woke(k, q), FALSE)
  PROVE  IpcInv' /\ Moves(Handed(q)) /\ HandedOver(q)
<1> DEFINE r == Woke(k, q)
<1>1. PICK place : Runs(t, place) /\ place # "block" /\ place # "woken" /\ t # Idle
  BY UsesFacts
<1>2. r = Woke(k, q) /\ (ThenSchedule(t, r, TRUE) \/ ThenSchedule(t, r, FALSE))
  OBVIOUS
<1> HIDE DEF r
<1> QED
  BY <1>1, <1>2, WokeStep

(* What a pair moved by a hand-over is made of.                             *)
LEMMA HandedOnly ==
  ASSUME NEW q, NEW p, NEW x
  PROVE  <<x, p>> \in Handed(q) => p = q /\ x \in First(q)
  BY DEF Handed

(* Whether somebody waits is a Boolean.                                     *)
LEMMA ResumedIs ==
  ASSUME NEW q
  PROVE  Waiting(kern, q) \in BOOLEAN
  BY DEF Waiting

-----------------------------------------------------------------------------
(* Semaphores *)

(* rt_sem_release.                                                          *)
LEMMA SemReleaseStep ==
  ASSUME IpcInv, NEW t, NEW s \in Semaphore, SemRelease(t, s)
  PROVE  IpcInv' /\ Moves(Handed(s)) /\ HandedOver(s)
<1>1. Uses(t, s) /\ s \in WaitList
  BY SemAssumption, IpcAssumption DEF SemRelease
<1>2. ThenSchedule(t, Woke(kern, s), TRUE) \/ ThenSchedule(t, Woke(kern, s), FALSE)
  <2>1. ThenSchedule(t, Woke(kern, s), Waiting(kern, s))
    BY DEF SemRelease
  <2> QED
    BY <2>1 DEF ThenSchedule
<1> QED
  BY <1>1, <1>2, AlikeSelf, HandsStep

(* Every step of a semaphore keeps IpcInv and leaves the lists of the other *)
(* objects quiet.                                                           *)
LEMMA SemStepMoves ==
  ASSUME IpcInv, SemStep
  PROVE  IpcInv' /\ QuietOutside(Semaphore)
<1>1. Semaphore \subseteq WaitList /\ None \notin WaitList
  BY SemAssumption, IpcAssumption
<1>2. ASSUME NEW t \in Thread, NEW s \in Semaphore, SemTakeNow(t, s)
      PROVE  IpcInv' /\ QuietOutside(Semaphore)
  BY <1>2, IdleStep, NobodyMoves DEF SemTakeNow, QuietOutside
<1>3. ASSUME NEW t \in Thread, NEW s \in Semaphore, SemRelease(t, s)
      PROVE  IpcInv' /\ QuietOutside(Semaphore)
  <2>1. IpcInv' /\ Moves(Handed(s))
    BY <1>3, SemReleaseStep
  <2>2. \A q \in WaitList : q # s => \A x \in Thread : <<x, q>> \notin Handed(s)
    BY HandedOnly
  <2> QED
    BY <2>1, <2>2, QuietOf DEF QuietOutside
<1>4. ASSUME NEW t \in Thread, NEW s \in Semaphore, NEW n \in WaitTime, SemTakeWait(t, s, n)
      PROVE  IpcInv' /\ QuietOutside(Semaphore)
  <2>1. Uses(t, s) /\ n \in Nat /\ WaitOn(kern, t, s, n) /\ s \in WaitList
    BY <1>1, <1>4, TimesAreNat DEF SemTakeWait
  <2>2. IpcInv' /\ Moves({<<t, s>>})
    BY <2>1, AlikeSelf, WaitsStep DEF Alike
  <2>3. \A q \in WaitList : q # s => \A x \in Thread : <<x, q>> \notin {<<t, s>>}
    OBVIOUS
  <2> QED
    BY <2>2, <2>3, QuietOf DEF QuietOutside
<1>5. ASSUME NEW t \in Thread, NEW s \in Semaphore, NEW v, SemReset(t, s, v)
      PROVE  IpcInv' /\ QuietOutside(Semaphore)
  <2>1. IpcInv' /\ Moves({})
    BY <1>5, ResetOneStep DEF SemReset
  <2> QED
    BY <2>1, NobodyMoves DEF QuietOutside
<1>6. ASSUME NEW t \in Thread, NEW s \in Semaphore, DeleteBegin(t, s)
      PROVE  IpcInv' /\ QuietOutside(Semaphore)
  <2>1. IpcInv' /\ Moves({})
    BY <1>6, DeleteBeginStep
  <2> QED
    BY <2>1, NobodyMoves DEF QuietOutside
<1>7. ASSUME NEW t \in Thread, SemTakeReturn(t)
      PROVE  IpcInv' /\ QuietOutside(Semaphore)
  <2>1. PICK p \in Semaphore : Woken(t) /\ WaitOver(t) /\ kern' = kern /\ p = want[t]
    BY <1>7 DEF SemTakeReturn
  <2>2. IpcInv' /\ Moves({<<t, p>>})
    BY <2>1, ReturnsStep
  <2>3. \A q \in WaitList : q # p => \A x \in Thread : <<x, q>> \notin {<<t, p>>}
    OBVIOUS
  <2> QED
    BY <2>1, <2>2, <2>3, QuietOf DEF QuietOutside
<1>8. ASSUME NEW s \in Semaphore, SemSignal(s)
      PROVE  IpcInv' /\ QuietOutside(Semaphore)
  <2>1. InHandler(s, s) /\ s \in WaitList
    BY <1>1, <1>8 DEF SemSignal
  <2>2. IpcInv' /\ Moves(Handed(s))
    BY <2>1, HandlerStep
  <2>3. \A q \in WaitList : q # s => \A x \in Thread : <<x, q>> \notin Handed(s)
    BY HandedOnly
  <2> QED
    BY <2>2, <2>3, QuietOf DEF QuietOutside
<1> QED
  BY <1>2, <1>3, <1>4, <1>5, <1>6, <1>7, <1>8 DEF SemStep, SemCall, SemHandler

(* Threads that delay, and calls inside the kernel.                          *)
LEMMA ThreadsStepMoves ==
  ASSUME IpcInv, ThreadsStep
  PROVE  IpcInv' /\ Moves({})
<1>1. PICK t \in Thread : InIpc(t) \/ Delays(t)
  BY DEF ThreadsStep
<1>2. CASE Reschedule(t) /\ UNCHANGED waitVars
  BY <1>2, RescheduleStep
<1>3. CASE SleepSchedule(t) /\ UNCHANGED waitVars
  BY <1>3, SleepScheduleStep
<1>4. CASE ResumeAllTest(t)
  BY <1>4, ResumeAllTestStep
<1>5. CASE ResumeAllOne(t)
  BY <1>5, ResumeAllOneStep
<1>6. CASE Delays(t)
  <2>1. UNCHANGED waitVars
    BY <1>6 DEF Delays
  <2>2. ASSUME NEW n \in 0 .. MaxDelay, Sleep(t, n) PROVE IpcInv' /\ Moves({})
    BY <2>1, <2>2, SleepStep, TimesAreNat
  <2>3. ASSUME want[t] = None, Slept(t) PROVE IpcInv' /\ Moves({})
    BY <2>1, <2>3, SleptStep
  <2> QED
    BY <1>6, <2>2, <2>3 DEF Delays
<1> QED
  BY <1>1, <1>2, <1>3, <1>4, <1>5, <1>6 DEF InIpc

-----------------------------------------------------------------------------
(* Mutexes *)

(* The fields of the mutex r agree.                                          *)
MutexFields(r) ==
  /\ r.value = 1 <=> r.owner = None
  /\ r.value = 1 <=> r.hold = 0
  /\ r.value = 1 <=> r.original = NoPrio
  /\ r.owner # Idle

(* A thread that was handed mutex m is its owner, and while somebody waits  *)
(* the mutex has an owner, which is not among the waiters.                  *)
MutexWaiters(m) ==
  /\ \A t \in Thread : ServedAt(t, m) => mutex[m].owner = t
  /\ Waiting(kern, m) => mutex[m].owner # None /\ ~OnWait(kern, m, mutex[m].owner)

(* The part of the invariant that is about mutexes: the fields of each      *)
(* agree, and so do its owner and its waiters.                              *)
MutexInv ==
  /\ mutex \in [Mutex -> MutexState]
  /\ \A m \in Mutex : MutexFields(mutex[m]) /\ (m \in alive => MutexWaiters(m))

(* What MutexInv says of one mutex.                                         *)
LEMMA MutexFacts ==
  ASSUME MutexInv, NEW m \in Mutex
  PROVE  /\ m \in WaitList /\ m \in Object /\ None \notin Thread
         /\ mutex[m] \in MutexState /\ MutexFields(mutex[m])
         /\ mutex[m].value = 0 =>
              mutex[m].owner \in Thread \ {Idle} /\ mutex[m].original \in Prio
         /\ mutex[m].value # 0 => mutex[m].owner = None
<1>1. m \in WaitList /\ m \in Object /\ None \notin Thread
  BY MutexAssumption, IpcAssumption
<1>2. mutex[m] \in MutexState /\ MutexFields(mutex[m])
  BY DEF MutexInv
<1>3. /\ mutex[m].value \in {0, 1} /\ mutex[m].owner \in Thread \cup {None}
      /\ mutex[m].original \in Prio \cup {NoPrio}
  BY <1>2 DEF MutexState
<1> QED
  BY <1>1, <1>2, <1>3 DEF MutexFields

(* The owner of one mutex changes, and nobody waits elsewhere.               *)
LEMMA OwnedIs ==
  ASSUME IpcInv, MutexAssumption, NEW t \in Thread, t # Idle, NEW d \in Nat \ {0}
  PROVE  Owned(t, d) \in MutexState /\ MutexFields(Owned(t, d)) /\ Owned(t, d).owner = t
<1>1. kern.prio[t] \in Prio
  BY DEF IpcInv, Ipc, KInv, KernelState
<1>2. NoPrio \notin Prio
  BY PrioAssumption DEF NoPrio, Prio
<1> QED
  BY <1>1, <1>2 DEF Owned, MutexState, MutexFields

(* A mutex as rt_mutex_init leaves it.                                      *)
LEMMA UnownedIs ==
  Unowned \in MutexState /\ MutexFields(Unowned) /\ Unowned.owner = None
  BY MutexAssumption, ThreadAssumption DEF Unowned, MutexState, MutexFields

(* A step in which nobody is resumed or begins to wait for a mutex.          *)
LEMMA MutexQuiet ==
  ASSUME IpcInv, IpcInv', MutexInv, NEW m \in Mutex, Quiet(m),
         m \in alive => MutexWaiters(m), mutex'[m].owner = mutex[m].owner, alive' \subseteq alive
  PROVE  m \in alive' => MutexWaiters(m)'
<1>1. m \in WaitList
  BY MutexFacts
<1>2. /\ Coming(m)' = Coming(m)
      /\ Waiting(kern', m) => Waiting(kern, m)
      /\ \A x \in Thread : OnWait(kern', m, x) => OnWait(kern, m, x)
  BY <1>1, QuietList
<1>3. \A x \in Thread : ServedAt(x, m)' => ServedAt(x, m)
  BY <1>2 DEF Coming
<1>4. mutex[m].owner \in Thread \cup {None}
  BY MutexFacts DEF MutexState
<1> QED
  BY <1>2, <1>3, <1>4 DEF MutexWaiters

(* A step that is not about mutexes keeps their part of the invariant.      *)
LEMMA MutexStays ==
  ASSUME IpcInv, IpcInv', MutexInv, \A m \in Mutex : Quiet(m), UNCHANGED mutex,
         alive' \subseteq alive
  PROVE  MutexInv'
<1>1. ASSUME NEW m \in Mutex
      PROVE  MutexFields(mutex'[m]) /\ (m \in alive' => MutexWaiters(m)')
  <2>1. m \in WaitList /\ MutexFields(mutex[m]) /\ (m \in alive => MutexWaiters(m))
    BY MutexFacts DEF MutexInv
  <2> QED
    BY <2>1, MutexQuiet
<1> QED
  BY <1>1 DEF MutexInv

(* A thread inherits a priority, and waits.                                  *)
LEMMA InheritIs ==
  ASSUME IpcInv, MutexInv, NEW t, NEW m \in Mutex, Uses(t, m), Busy(t, m)
  PROVE  LET k == Inherit(t, m) IN
         /\ Wakes({}, kern, k) /\ k.cur = kern.cur
         /\ \A x \in Thread : k.error[x] = kern.error[x] \/ call[x].at \notin Asleep
<1> DEFINE c == ClearError(t)
           u == mutex[m].owner
           k == Inherit(t, m)
<1>1. /\ t \in Thread /\ call[t].at \notin Asleep /\ KInv(kern) /\ kern \in KernelState
      /\ "ok" \in Error
  BY UsesFacts DEF KInv, Asleep, Error
<1>2. mutex[m].value = 0 /\ u \in Thread /\ u # Idle
  BY MutexFacts DEF Busy
<1>3. /\ Wakes({}, kern, c) /\ c.error = [kern.error EXCEPT ![t] = "ok"]
      /\ c.cur = kern.cur
  BY <1>1, ErrorWakes DEF ClearError
<1>4. KInv(c)
  BY <1>3 DEF Wakes
<1>5. Wakes({}, c, k) /\ k.error = c.error /\ k.cur = c.cur
  <2>1. CASE kern.prio[t] < kern.prio[mutex[m].owner]
    <3>1. kern.prio[t] \in Prio
      BY <1>1 DEF KernelState
    <3>2. k = ChangePriority(c, u, kern.prio[t])
      BY <2>1 DEF Inherit
    <3> HIDE DEF k, c, u
    <3> QED
      BY <1>2, <1>4, <3>1, <3>2, PriorityWakes
  <2>2. CASE ~(kern.prio[t] < kern.prio[mutex[m].owner])
    BY <2>2, <1>4, WakesNobody DEF Inherit
  <2> QED
    BY <2>1, <2>2
<1> HIDE DEF k, c, u
<1>6. Wakes({} \cup {}, kern, k) /\ {} \cup {} = {}
  BY <1>3, <1>5, WakesThen
<1>7. Wakes({}, kern, k)
  BY <1>6
<1>8. \A x \in Thread : k.error[x] = kern.error[x] \/ call[x].at \notin Asleep
  BY <1>1, <1>3, <1>5 DEF KernelState
<1> QED
  BY <1>3, <1>5, <1>7, <1>8 DEF k

(* The owner gets its own priority back.                                     *)
LEMMA DisinheritIs ==
  ASSUME IpcInv, MutexInv, NEW t, NEW m \in Mutex, Uses(t, m), mutex[m].owner = t
  PROVE  LET k == Disinherit(t, m) IN
         Alike(k) /\ \A x \in Thread \ {t} : k.prio[x] = kern.prio[x]
<1> DEFINE k == Disinherit(t, m)
           p == mutex[m].original
<1>1. t \in Thread /\ t # Idle /\ KInv(kern) /\ kern \in KernelState
  BY UsesFacts DEF KInv
<1>2. p \in Prio
  BY <1>1, MutexFacts
<1>3. CASE p # kern.prio[t]
  <2>1. k = ChangePriority(kern, t, p)
    BY <1>3 DEF Disinherit
  <2> HIDE DEF k, p
  <2>2. /\ Wakes({}, kern, k) /\ k.error = kern.error /\ k.cur = kern.cur
        /\ k.prio = [kern.prio EXCEPT ![t] = p]
        /\ \A q \in WaitList : k.list[Wait(q)] = kern.list[Wait(q)]
    BY <1>1, <1>2, <2>1, PriorityWakes
  <2> QED
    BY <1>1, <2>2 DEF Alike, k, KernelState
<1>4. CASE p = kern.prio[t]
  BY <1>4, AlikeSelf DEF Disinherit
<1> QED
  BY <1>3, <1>4

(* A step that changes the fields of one mutex only, and moves nobody.       *)
LEMMA MutexChanges ==
  ASSUME IpcInv, IpcInv', MutexInv, Moves({}), alive' \subseteq alive, NEW m \in Mutex,
         NEW r \in MutexState, MutexFields(r), mutex' = [mutex EXCEPT ![m] = r],
         \/ r.owner = mutex[m].owner
         \/ r.owner \in Thread /\ mutex[m].owner = None /\ m \in alive
  PROVE  MutexInv'
<1>1. ASSUME NEW x \in Mutex
      PROVE  /\ mutex'[x] \in MutexState /\ MutexFields(mutex'[x])
             /\ x \in alive' => MutexWaiters(x)'
  <2>1. /\ x \in WaitList /\ mutex[x] \in MutexState /\ MutexFields(mutex[x])
        /\ x \in alive => MutexWaiters(x)
    BY MutexFacts DEF MutexInv
  <2>2. Quiet(x)
    BY <2>1, NobodyMoves
  <2>3. mutex'[x] = IF x = m THEN r ELSE mutex[x]
    BY DEF MutexInv
  <2>4. CASE mutex'[x].owner = mutex[x].owner
    BY <2>1, <2>2, <2>3, <2>4, MutexQuiet
  <2>5. CASE mutex'[x].owner # mutex[x].owner
    <3>1. x = m /\ mutex[m].owner = None /\ m \in alive /\ mutex' [m] = r
      BY <2>3, <2>5
    <3>2. \A y \in Thread : ~ServedAt(y, m)
      BY <2>1, <3>1, MutexAssumption DEF MutexWaiters
    <3>3. ~Waiting(kern, m)
      BY <2>1, <3>1 DEF MutexWaiters
    <3>4. ~Waiting(kern', m) /\ \A y \in Thread : ~ServedAt(y, m)'
      BY <2>1, <2>2, <3>1, <3>2, <3>3, QuietList DEF Coming
    <3> QED
      BY <2>3, <2>1, <3>1, <3>4 DEF MutexWaiters
  <2> QED
    BY <2>4, <2>5
<1> QED
  BY <1>1 DEF MutexInv

(* rt_mutex_take by the owner.                                              *)
LEMMA MutexTakeAgainStep ==
  ASSUME IpcInv, MutexInv, NEW t, NEW m \in Mutex, MutexTakeAgain(t, m)
  PROVE  IpcInv' /\ MutexInv' /\ Moves({})
<1>1. Uses(t, m) /\ t \in Thread /\ t # Idle /\ mutex[m].owner = t /\ "ok" \in Error
  BY UsesFacts DEF MutexTakeAgain, Error
<1>2. IpcInv' /\ Moves({}) /\ alive' = alive
  BY <1>1, ErrorStep DEF MutexTakeAgain, ClearError, waitVars
<1> DEFINE r == [mutex[m] EXCEPT !.hold = @ + 1]
<1>3. r \in MutexState /\ MutexFields(r) /\ r.owner = mutex[m].owner
  BY <1>1, MutexFacts DEF MutexState, MutexFields
<1>4. mutex' = [mutex EXCEPT ![m] = r]
  BY DEF MutexTakeAgain
<1> HIDE DEF r
<1> QED
  BY <1>2, <1>3, <1>4, MutexChanges

(* rt_mutex_take of a free mutex.                                           *)
LEMMA MutexTakeFreeStep ==
  ASSUME IpcInv, MutexInv, NEW t, NEW m \in Mutex, MutexTakeFree(t, m)
  PROVE  IpcInv' /\ MutexInv' /\ Moves({})
<1>1. Uses(t, m) /\ t \in Thread /\ t # Idle /\ m \in alive /\ "ok" \in Error
  BY UsesFacts DEF MutexTakeFree, Error
<1>2. IpcInv' /\ Moves({}) /\ alive' = alive
  BY <1>1, ErrorStep DEF MutexTakeFree, ClearError, waitVars
<1> DEFINE r == Owned(t, mutex[m].hold + 1)
<1>3. mutex[m].owner = None /\ mutex[m].hold + 1 \in Nat \ {0}
  BY MutexFacts DEF MutexTakeFree, MutexState
<1>4. r \in MutexState /\ MutexFields(r) /\ r.owner = t
  BY <1>1, <1>3, OwnedIs, MutexAssumption
<1>5. mutex' = [mutex EXCEPT ![m] = r]
  BY DEF MutexTakeFree
<1> HIDE DEF r
<1> QED
  BY <1>1, <1>2, <1>3, <1>4, <1>5, MutexChanges

(* rt_mutex_release that only lowers the hold count.                        *)
LEMMA MutexReleaseInnerStep ==
  ASSUME IpcInv, MutexInv, NEW t, NEW m \in Mutex, MutexReleaseInner(t, m)
  PROVE  IpcInv' /\ MutexInv' /\ Moves({})
<1>1. t \in Thread /\ t # Idle /\ mutex[m].owner = t /\ mutex[m].hold > 1
  BY UsesFacts DEF MutexReleaseInner
<1>2. IpcInv' /\ Moves({}) /\ alive' = alive
  BY IdleStep DEF MutexReleaseInner, ipcVars, waitVars
<1> DEFINE r == [mutex[m] EXCEPT !.hold = @ - 1]
<1>3. r \in MutexState /\ MutexFields(r) /\ r.owner = mutex[m].owner
  BY <1>1, MutexFacts DEF MutexState, MutexFields
<1>4. mutex' = [mutex EXCEPT ![m] = r]
  BY DEF MutexReleaseInner
<1> HIDE DEF r
<1> QED
  BY <1>2, <1>3, <1>4, MutexChanges

(* Calls that are refused, and the deletion of a mutex.                      *)
LEMMA MutexKeeps ==
  ASSUME IpcInv, IpcInv', MutexInv, Moves({}), UNCHANGED mutex, alive' \subseteq alive
  PROVE  MutexInv'
<1>1. \A m \in Mutex : Quiet(m)
  BY MutexFacts, NobodyMoves
<1> QED
  BY <1>1, MutexStays

(* The calls of a mutex that change nothing but an error or the list of     *)
(* living objects.                                                          *)
LEMMA MutexRefusedStep ==
  ASSUME IpcInv, MutexInv, NEW t, NEW m \in Mutex,
         MutexTakeRefused(t, m) \/ MutexReleaseRefused(t, m)
         \/ (DeleteBegin(t, m) /\ UNCHANGED mutex)
  PROVE  IpcInv' /\ MutexInv' /\ Moves({})
<1>1. IpcInv' /\ Moves({})
  BY ErrorStep, DeleteBeginStep DEF MutexTakeRefused, MutexReleaseRefused, Error
<1>2. UNCHANGED mutex /\ alive' \subseteq alive
  BY DEF MutexTakeRefused, MutexReleaseRefused, waitVars, DeleteBegin
<1> QED
  BY <1>1, <1>2, MutexKeeps

(* rt_mutex_take of a mutex that is taken, with the priority inheritance    *)
(* and the sleep.                                                           *)
LEMMA MutexTakeWaitStep ==
  ASSUME IpcInv, MutexInv, NEW t, NEW m \in Mutex, NEW n \in WaitTime, MutexTakeWait(t, m, n)
  PROVE  IpcInv' /\ MutexInv' /\ Moves({<<t, m>>})
<1> DEFINE k == Inherit(t, m)
<1>1. /\ Uses(t, m) /\ Busy(t, m) /\ m \in WaitList /\ n \in Nat
      /\ t \in Thread /\ m \in alive /\ UNCHANGED mutex /\ alive' = alive
      /\ WaitOn(k, t, m, n)
  BY UsesFacts, MutexFacts, TimesAreNat DEF MutexTakeWait, WaitOn
<1>2. /\ Wakes({}, kern, k) /\ k.cur = kern.cur
      /\ \A x \in Thread : k.error[x] = kern.error[x] \/ call[x].at \notin Asleep
  BY <1>1, InheritIs
<1> HIDE DEF k
<1>3. IpcInv' /\ Moves({<<t, m>>}) /\ ~ServedAt(t, m)' /\ OnWait(kern', m, t)
  BY <1>1, <1>2, WaitsStep
<1>4. ASSUME NEW x \in Mutex
      PROVE  x \in alive' => MutexWaiters(x)'
  <2>1. x \in WaitList /\ (x \in alive => MutexWaiters(x))
    BY MutexFacts DEF MutexInv
  <2>2. CASE x # m
    <3>1. Quiet(x)
      BY <1>3, <2>1, <2>2, QuietOf
    <3> QED
      BY <1>1, <1>3, <2>1, <3>1, MutexQuiet
  <2>3. CASE x = m
    <3>1. /\ Coming(m)' = Coming(m) \ {t}
          /\ \A y \in Thread \ {t} : OnWait(kern', m, y) => OnWait(kern, m, y)
      BY <1>1, <1>3, OneLeaves
    <3>2. mutex[m].owner # t /\ mutex[m].owner \in Thread /\ mutex[m].owner # None
      BY <1>1, MutexFacts DEF Busy
    <3>3. Waiting(kern, m) \/ ~OnWait(kern, m, mutex[m].owner)
      BY <1>1, <3>2, WaitingIs
    <3>4. ~OnWait(kern', m, mutex[m].owner)
      BY <1>1, <2>1, <2>3, <3>1, <3>2, <3>3 DEF MutexWaiters
    <3>5. \A y \in Thread : ServedAt(y, m)' => mutex[m].owner = y
      BY <1>1, <2>1, <2>3, <3>1 DEF MutexWaiters, Coming
    <3> QED
      BY <1>1, <2>3, <3>2, <3>4, <3>5 DEF MutexWaiters
  <2> QED
    BY <2>2, <2>3
<1> QED
  BY <1>1, <1>3, <1>4 DEF MutexInv

(* rt_mutex_take returns from its sleep.                                    *)
LEMMA MutexTakeReturnStep ==
  ASSUME IpcInv, MutexInv, NEW t, MutexTakeReturn(t)
  PROVE  IpcInv' /\ MutexInv' /\ \E m \in Mutex : Moves({<<t, m>>})
<1>1. PICK m \in Mutex : /\ Woken(t) /\ WaitOver(t) /\ kern' = kern /\ m = want[t]
                         /\ UNCHANGED mutex /\ alive' = alive
  BY DEF MutexTakeReturn, WaitOver
<1>2. IpcInv' /\ Moves({<<t, m>>}) /\ ~ServedAt(t, m)' /\ t \in Thread
  BY <1>1, ReturnsStep
<1>3. ASSUME NEW x \in Mutex
      PROVE  x \in alive' => MutexWaiters(x)'
  <2>1. x \in WaitList /\ (x \in alive => MutexWaiters(x))
    BY MutexFacts DEF MutexInv
  <2>2. Coming(x)' \subseteq Coming(x)
    <3>1. CASE x = m
      BY <1>1, <1>2, <2>1, <3>1, OneLeaves
    <3>2. CASE x # m
      BY <1>2, <2>1, <3>2, QuietOf, QuietList
    <3> QED
      BY <3>1, <3>2
  <2>3. kern' = kern
    BY <1>1
  <2> QED
    BY <1>1, <2>1, <2>2, <2>3 DEF MutexWaiters, Coming, OnWait, Waiting
<1> QED
  BY <1>1, <1>2, <1>3 DEF MutexInv

(* The head of the list becomes the owner.                                   *)
LEMMA MutexReleaseStep ==
  ASSUME IpcInv, MutexInv, NEW t, NEW m \in Mutex, MutexRelease(t, m)
  PROVE  IpcInv' /\ MutexInv' /\ Moves(Handed(m)) /\ HandedOver(m)
<1> DEFINE k == Disinherit(t, m)
           h == Head(kern.list[Wait(m)])
           r == NextOwner(t, m)
<1>1. /\ Uses(t, m) /\ m \in WaitList /\ t \in Thread /\ t # Idle /\ m \in alive
      /\ call[t].at = "app" /\ mutex[m].owner = t /\ alive' = alive
      /\ mutex' = [mutex EXCEPT ![m] = r]
  BY UsesFacts, MutexFacts DEF MutexRelease, ThenSchedule
<1>2. ThenSchedule(t, Woke(k, m), TRUE) \/ ThenSchedule(t, Woke(k, m), FALSE)
  BY DEF MutexRelease, ThenSchedule
<1>3. Alike(k)
  BY <1>1, DisinheritIs
<1> HIDE DEF k
<1>4. IpcInv' /\ Moves(Handed(m)) /\ HandedOver(m)
  BY <1>1, <1>2, <1>3, HandsStep
<1>5. \A q \in WaitList : \A x \in Thread : <<x, q>> \in Handed(m) => q = m /\ x \in First(m)
  BY HandedOnly
<1>6. Waiting(kern, m) => h \in Thread /\ OnWait(kern, m, h) /\ h # Idle
  <2>1. Waiting(kern, m) => h \in Thread /\ OnWait(kern, m, h)
    BY <1>1, FirstWaiter DEF IpcInv, Ipc
  <2>2. call[Idle].at = "app" /\ "app" \notin Asleep
    BY DEF IpcInv, Ipc, Asleep
  <2>3. \A x \in Thread : OnWait(kern, m, x) => call[x].at \in Asleep
    BY <1>1 DEF IpcInv, Ipc, Stands
  <2> QED
    BY <2>1, <2>2, <2>3
<1>7. /\ r \in MutexState /\ MutexFields(r)
      /\ r.owner = IF Waiting(kern, m) THEN h ELSE None
  <2>1. CASE Waiting(kern, m)
    <3>1. r = Owned(h, 1)
      BY <2>1 DEF NextOwner
    <3> QED
      BY <1>6, <2>1, <3>1, OwnedIs, MutexAssumption
  <2>2. CASE ~Waiting(kern, m)
    BY <2>2, UnownedIs DEF NextOwner
  <2> QED
    BY <2>1, <2>2
<1>8. First(m) = IF Waiting(kern, m) THEN {h} ELSE {}
  BY DEF First
<1> HIDE DEF h, r
<1>9. ASSUME NEW x \in Mutex
      PROVE  /\ mutex'[x] \in MutexState /\ MutexFields(mutex'[x])
             /\ x \in alive' => MutexWaiters(x)'
  <2>1. /\ x \in WaitList /\ mutex[x] \in MutexState /\ MutexFields(mutex[x])
        /\ x \in alive => MutexWaiters(x)
    BY MutexFacts DEF MutexInv
  <2>2. mutex'[x] = IF x = m THEN r ELSE mutex[x]
    BY <1>1 DEF MutexInv
  <2>3. CASE x # m
    <3>1. Quiet(x)
      BY <1>4, <1>5, <2>1, <2>3, QuietOf
    <3> QED
      BY <1>1, <1>4, <2>1, <2>2, <2>3, <3>1, MutexQuiet
  <2>4. CASE x = m
    <3>1. /\ Coming(m)' = Coming(m) \cup First(m)
          /\ Waiting(kern', m) => Waiting(kern, m)
          /\ \A y \in Thread : OnWait(kern', m, y) => OnWait(kern, m, y) /\ y \notin First(m)
      BY <1>1, <1>4, <1>5, HeadServed
    <3>2. ~ServedAt(t, m)
      BY <1>1 DEF ServedAt, ServedIn, Asleep
    <3>3. Coming(m) = {}
      BY <1>1, <2>1, <2>4, <3>2 DEF MutexWaiters, Coming
    <3>4. \A y \in Thread : ServedAt(y, m)' => y \in First(m)
      BY <3>1, <3>3 DEF Coming
    <3>5. mutex'[m].owner = r.owner
      BY <2>2, <2>4
    <3>6. \A y \in Thread : ServedAt(y, m)' => mutex'[m].owner = y
      BY <1>7, <1>8, <3>4, <3>5
    <3>7. Waiting(kern', m) => mutex'[m].owner # None /\ ~OnWait(kern', m, mutex'[m].owner)
      BY <1>6, <1>7, <1>8, <3>1, <3>5, MutexAssumption
    <3>8. MutexWaiters(m)'
      BY <3>6, <3>7 DEF MutexWaiters
    <3> QED
      BY <1>7, <2>2, <2>4, <3>8
  <2> QED
    BY <2>3, <2>4
<1>10. mutex' \in [Mutex -> MutexState]
  BY <1>1, <1>7 DEF MutexInv
<1>11. MutexInv'
  BY <1>9, <1>10 DEF MutexInv
<1> QED
  BY <1>4, <1>11

(* Every step of a mutex keeps both parts of the invariant and leaves the   *)
(* lists of the other objects quiet.                                        *)
LEMMA MutexStepMoves ==
  ASSUME IpcInv, MutexInv, MutexStep
  PROVE  IpcInv' /\ MutexInv' /\ QuietOutside(Mutex)
<1>1. PICK t \in Thread : MutexCall(t) \/ MutexTakeReturn(t)
  BY DEF MutexStep
<1>2. Moves({}) => QuietOutside(Mutex)
  BY NobodyMoves DEF QuietOutside
<1>3. ASSUME NEW m \in Mutex, Moves({<<t, m>>}) PROVE QuietOutside(Mutex)
  <2>1. \A q \in WaitList : q # m => \A x \in Thread : <<x, q>> \notin {<<t, m>>}
    OBVIOUS
  <2> QED
    BY <1>3, <2>1, QuietOf DEF QuietOutside
<1>4. ASSUME NEW m \in Mutex, Moves(Handed(m)) PROVE QuietOutside(Mutex)
  <2>1. \A q \in WaitList : q # m => \A x \in Thread : <<x, q>> \notin Handed(m)
    BY HandedOnly
  <2> QED
    BY <1>4, <2>1, QuietOf DEF QuietOutside
<1>5. CASE MutexTakeReturn(t)
  BY <1>5, <1>3, MutexTakeReturnStep
<1>6. CASE MutexCall(t)
  BY <1>6, <1>2, <1>3, <1>4, MutexTakeAgainStep, MutexTakeFreeStep, MutexReleaseInnerStep,
     MutexRefusedStep, MutexTakeWaitStep, MutexReleaseStep DEF MutexCall
<1> QED
  BY <1>1, <1>5, <1>6

-----------------------------------------------------------------------------
(* Turns of a thread *)

-----------------------------------------------------------------------------
(* Where calls are *)

\* only the call of t goes on, to the place pl with the list v
Turn(t, pl, v) == Puts(call, t, To(pl, Idle), call') /\ Puts(want, t, v, want')

(* A turn moves its thread and no other.                                    *)
LEMMA TurnIs ==
  ASSUME IpcInv, NEW t \in Thread, NEW pl, NEW v, Turn(t, pl, v)
  PROVE  /\ call'[t].at = pl /\ want'[t] = v
         /\ \A x \in Thread \ {t} : call'[x] = call[x] /\ want'[x] = want[x]
<1>1. call \in [Thread -> [at : ObjPlace, on : {Idle}]] /\ want \in [Thread -> WaitList \cup {None}]
  BY DEF IpcInv, Ipc, ObjCalls
<1> QED
  BY <1>1 DEF Turn, Puts, To

\* the calls that have work to do in between stay where they are
InsideKept ==
  \A x \in Thread : call[x].at \in Inside \/ call'[x].at \in Inside
                      => call'[x] = call[x] /\ want'[x] = want[x]

(* A turn from one place outside the loops and copies to another concerns   *)
(* none of the threads in them.                                             *)
LEMMA TurnKeeps ==
  ASSUME IpcInv, NEW t \in Thread, call[t].at \notin Inside, NEW pl, pl \notin Inside,
         NEW v, Turn(t, pl, v)
  PROVE  InsideKept
  BY TurnIs DEF InsideKept

(* A step that moves no thread concerns none of the threads in the loops    *)
(* and copies.                                                              *)
LEMMA StillKeeps ==
  ASSUME UNCHANGED <<call, want>> PROVE InsideKept
  BY DEF InsideKept

(* The places of a thread that is in no loop or copy.                       *)
LEMMA PlacesApart ==
  /\ \A pl \in {"app", "schedule", "block", "woken"} : pl \notin Inside
  /\ \A pl \in Inside : pl \notin Asleep
  BY DEF Inside, Asleep

(* Going to sleep is a turn.                                                *)
LEMMA WaitOnTurn ==
  ASSUME NEW k, NEW t, NEW q, NEW n, WaitOn(k, t, q, n)
  PROVE  Turn(t, "block", q) /\ alive' = alive
  BY DEF WaitOn, Goto, Turn, Puts

(* Leaving a wait is a turn.                                                *)
LEMMA WaitOverTurn ==
  ASSUME NEW t, WaitOver(t)
  PROVE  Turn(t, "app", None) /\ alive' = alive
  BY DEF WaitOver, Return, InApp, To, Turn, Puts

(* The end of a call is a turn.                                             *)
LEMMA ThenScheduleTurn ==
  ASSUME NEW t, NEW k, NEW b, ThenSchedule(t, k, b)
  PROVE  (Turn(t, "app", None) \/ Turn(t, "schedule", None)) /\ alive' = alive
  BY DEF ThenSchedule, Goto, Return, InApp, To, Turn, Puts

(* Calls about an object, but for its deletion, keep the others' places.     *)
LEMMA UsesKeeps ==
  ASSUME IpcInv, NEW t, NEW o, Uses(t, o),
         \/ \E k, q, n : WaitOn(k, t, q, n)
         \/ \E k, b : ThenSchedule(t, k, b)
  PROVE  InsideKept /\ alive' = alive
<1>1. t \in Thread /\ call[t].at \notin Inside
  BY UsesFacts, PlacesApart
<1>2. (\E v : \E pl \in {"app", "schedule", "block"} : Turn(t, pl, v)) /\ alive' = alive
  BY WaitOnTurn, ThenScheduleTurn
<1> QED
  BY <1>1, <1>2, TurnKeeps, PlacesApart

(* A thread that returned from rt_schedule and goes on outside the loops    *)
(* and copies.                                                              *)
LEMMA WokenKeeps ==
  ASSUME IpcInv, NEW t, Woken(t),
         WaitOver(t) \/ (\E k, q, n : WaitOn(k, t, q, n)) \/ (\E k, b : ThenSchedule(t, k, b))
  PROVE  InsideKept /\ alive' = alive
<1>1. t \in Thread /\ call[t].at \notin Inside
  BY RunsFacts, PlacesApart DEF Woken
<1>2. (\E v : \E pl \in {"app", "schedule", "block"} : Turn(t, pl, v)) /\ alive' = alive
  BY WaitOnTurn, ThenScheduleTurn, WaitOverTurn
<1> QED
  BY <1>1, <1>2, TurnKeeps, PlacesApart

-----------------------------------------------------------------------------
(* A woken call that tries again *)

\* t, woken on the list p, resumes the first waiter of q
LEMMA AgainHands ==
  ASSUME IpcInv, NEW t, NEW p, Tries(t, p), NEW q \in WaitList,
         ThenSchedule(t, Woke(kern, q), TRUE) \/ ThenSchedule(t, Woke(kern, q), FALSE)
  PROVE  /\ IpcInv' /\ Moves(Handed(q) \cup {<<t, p>>}) /\ HandedOver(q)
         /\ t \in Thread /\ p \in WaitList /\ ~ServedAt(t, p)'
<1> DEFINE r == Woke(kern, q)
<1>1. /\ Runs(t, "woken") /\ t # Idle /\ t \in Thread /\ want[t] = p /\ p \in WaitList
  BY RunsFacts DEF Tries, Woken
<1>2. r = Woke(kern, q) /\ (ThenSchedule(t, r, TRUE) \/ ThenSchedule(t, r, FALSE)) /\ Alike(kern)
  BY AlikeSelf
<1> HIDE DEF r
<1>3. IpcInv' /\ Moves(Handed(q) \cup {<<t, want[t]>>}) /\ HandedOver(q)
  BY <1>1, <1>2, WokeStep
<1>4. want'[t] = None
  BY <1>1, <1>2, ThenScheduleTurn, TurnIs
<1> QED
  BY <1>1, <1>3, <1>4, IpcAssumption DEF ServedAt, ServedIn

(* A send or a receive that was woken, found nothing, and sleeps again.     *)
LEMMA AgainWaits ==
  ASSUME IpcInv, NEW t, NEW p, Tries(t, p), NEW n \in Nat, WaitOn(kern, t, p, n)
  PROVE  /\ IpcInv' /\ Moves({<<t, p>>}) /\ ~ServedAt(t, p)' /\ OnWait(kern', p, t)
         /\ t \in Thread /\ p \in WaitList
<1> DEFINE one == {<<t, p>>}
<1>1. /\ Woken(t) /\ t # Idle /\ t \in Thread /\ want[t] = p /\ p \in WaitList /\ KInv(kern)
  BY RunsFacts DEF Tries, Woken
<1>2. <<t, want[t]>> \in one /\ <<t, p>> \in one /\ Wakes({}, kern, kern)
  BY <1>1, WakesNobody
<1> HIDE DEF one
<1>3. IpcInv' /\ Moves(one)
  BY <1>1, <1>2, WaitOnStep
<1>4. OnWait(kern', p, t)
  <2>1. kern' = Block(kern, p, t, Flag[p], n)
    BY DEF WaitOn
  <2> QED
    BY <1>1, <2>1, BlockSleeps
<1> QED
  BY <1>1, <1>3, <1>4 DEF one, ServedAt, ServedIn

\* t, woken on the list p, gives up
LEMMA AgainEnds ==
  ASSUME IpcInv, NEW t, NEW p, Tries(t, p), NEW e \in Error,
         kern' = [kern EXCEPT !.error[t] = e], WaitOver(t)
  PROVE  /\ IpcInv' /\ Moves({<<t, p>>}) /\ ~ServedAt(t, p)'
         /\ t \in Thread /\ p \in WaitList
<1> DEFINE one == {<<t, p>>}
<1>1. /\ Woken(t) /\ t \in Thread /\ want[t] = p /\ p \in WaitList /\ KInv(kern)
      /\ kern \in KernelState
  BY RunsFacts DEF Tries, Woken, KInv
<1>2. /\ <<t, want[t]>> \in one /\ Wakes({}, kern, kern')
      /\ kern'.error = [kern.error EXCEPT ![t] = e] /\ kern'.cur = kern.cur
  BY <1>1, ErrorWakes
<1>3. \A x \in Thread \ {t} : kern'.error[x] = kern.error[x]
  BY <1>1, <1>2 DEF KernelState
<1> HIDE DEF one
<1>4. IpcInv' /\ Moves(one)
  BY <1>1, <1>2, <1>3, WaitOverStep
<1>5. want'[t] = None
  BY <1>1, WaitOverTurn, TurnIs
<1> QED
  BY <1>1, <1>4, <1>5, IpcAssumption DEF one, ServedAt, ServedIn

(* A call that goes on to a place where interrupts are enabled.              *)
LEMMA EntersStep ==
  ASSUME IpcInv, NEW t, NEW o, Uses(t, o) \/ Tries(t, o), o \in WaitList, NEW pl \in Inside,
         kern' = kern, Turn(t, pl, o), isr' = isr, alive' = alive, wild' = wild
  PROVE  IpcInv' /\ Moves({<<t, o>>}) /\ ~ServedAt(t, o)' /\ t \in Thread
<1> DEFINE one == {<<t, o>>}
<1>1. PICK place : /\ Runs(t, place) /\ place # "block" /\ t # Idle /\ t \in Thread
                   /\ place = "woken" => want[t] = o
                   /\ KInv(kern)
  BY UsesFacts, RunsFacts DEF Tries, Woken
<1>2. /\ Puts(call, t, To(pl, Idle), call') /\ Puts(want, t, o, want')
      /\ alive' \subseteq alive /\ o # None /\ Wakes({}, kern, kern') /\ pl \notin {"app", "schedule"}
  BY <1>1, WakesNobody, IpcAssumption DEF Turn, Inside
<1>3. place = "woken" => want[t] = None \/ <<t, want[t]>> \in one
  BY <1>1
<1>4. {} \in SUBSET Thread /\ \A x \in {} : kern'.error[x] = "ok" => <<x, want[x]>> \in one
  OBVIOUS
<1> HIDE DEF one
<1> DEFINE none == {}
<1>5. none \in SUBSET Thread /\ (\A x \in none : kern'.error[x] = "ok" => <<x, want[x]>> \in one)
      /\ Wakes(none, kern, kern')
  BY <1>2
<1> HIDE DEF none
<1>6. IpcInv' /\ Moves(one)
  BY <1>1, <1>2, <1>3, <1>5, GoesOnStep
<1>7. ~ServedAt(t, o)'
  BY <1>1, TurnIs, PlacesApart DEF ServedAt, ServedIn
<1> QED
  BY <1>1, <1>6, <1>7 DEF one

\* a call that resumes a waiter at the end of such a place
LEMMA LeavesHands ==
  ASSUME IpcInv, NEW t, NEW pl \in Inside, Runs(t, pl), NEW q \in WaitList,
         ThenSchedule(t, Woke(kern, q), TRUE) \/ ThenSchedule(t, Woke(kern, q), FALSE)
  PROVE  IpcInv' /\ Moves(Handed(q)) /\ HandedOver(q)
<1> DEFINE r == Woke(kern, q)
<1>1. pl # "block" /\ pl # "woken" /\ pl # "app" /\ t # Idle
  BY RunsFacts DEF Inside
<1>2. r = Woke(kern, q) /\ (ThenSchedule(t, r, TRUE) \/ ThenSchedule(t, r, FALSE)) /\ Alike(kern)
  BY AlikeSelf
<1> HIDE DEF r
<1> QED
  BY <1>1, <1>2, WokeStep

(* A thread leaves its loop or copy and returns to the application.         *)
LEMMA LeavesStep ==
  ASSUME IpcInv, NEW t, NEW pl \in Inside, Runs(t, pl),
         kern' = kern, Turn(t, "app", None), isr' = isr, alive' = alive, wild' = wild
  PROVE  IpcInv' /\ Moves({})
<1>1. pl # "block" /\ pl # "woken" /\ t \in Thread /\ KInv(kern)
  BY RunsFacts DEF Inside
<1>2. Wakes({}, kern, kern')
  BY <1>1, WakesNobody
<1>3. Puts(call, t, To("app", Idle), call') /\ Puts(want, t, None, want') /\ alive' \subseteq alive
  BY DEF Turn
<1> QED
  BY <1>1, <1>2, <1>3, AloneStep

-----------------------------------------------------------------------------
(* The blocks of a message queue *)

(* The fields of a message queue that its code maintains, without the       *)
(* bounds that the invariant shows.                                         *)
QueueRec ==
  [ free : Seq(Message), queue : Seq(Message), entry : Nat,
    text : [Message -> Mail \cup {None}] ]

\* g is f on the set s
Agree(s, f, g) == \A u \in s : g[u] = f[u]

(* The blocks of a queue r, when the calls of H have the blocks f in hand.   *)
Blocks(r, H, f) ==
  /\ r \in QueueRec /\ r.entry = Len(r.queue)
  /\ IsInjective(r.free) /\ IsInjective(r.queue)
  /\ \A b : ~(Contains(r.free, b) /\ Contains(r.queue, b))
  /\ \A t \in H : /\ f[t] \in Message
                  /\ ~Contains(r.free, f[t]) /\ ~Contains(r.queue, f[t])
  /\ \A t, u \in H : f[t] = f[u] => t = u
  /\ IsFiniteSet(H) /\ Cardinality(H) \in Nat
  /\ Len(r.free) + Len(r.queue) + Cardinality(H) = Size

(* The types of the fields of a message queue.                              *)
LEMMA QueueFields ==
  ASSUME NEW r \in QueueRec
  PROVE  /\ r.free \in Seq(Message) /\ r.queue \in Seq(Message) /\ r.entry \in Nat
         /\ r.text \in [Message -> Mail \cup {None}]
         /\ Len(r.free) \in Nat /\ Len(r.queue) \in Nat
  BY DEF QueueRec

(* A message queue without its first message.                               *)
LEMMA UnlinkedIs ==
  ASSUME NEW r \in QueueRec, r.entry - 1 \in Nat, Tail(r.queue) \in Seq(Message)
  PROVE  /\ Unlinked(r) \in QueueRec /\ Unlinked(r).free = r.free
         /\ Unlinked(r).queue = Tail(r.queue) /\ Unlinked(r).entry = r.entry - 1
<1> DEFINE x == Tail(r.queue)
           y == r.entry - 1
           s == Unlinked(r)
<1>1. s = [r EXCEPT !.entry = y, !.queue = x]
  BY DEF QueueRec, Unlinked
<1>2. y \in Nat /\ x \in Seq(Message)
  OBVIOUS
<1> HIDE DEF s, x, y
<1>3. s \in QueueRec /\ s.queue = x /\ s.entry = y /\ s.free = r.free
  BY <1>1, <1>2 DEF QueueRec
<1> QED
  BY <1>3 DEF s, x, y

\* s is r, filled anew
Made(r, w, x, y, z, s) == s = [r EXCEPT !.free = w, !.queue = x, !.entry = y, !.text = z]

\* the queue r with the block b, filled with v
With(r, b, v) == IF v \in UrgentMail THEN <<b>> \o r.queue ELSE Append(r.queue, b)

(* A message queue with one message more, in front for rt_mq_urgent and     *)
(* behind for rt_mq_send.                                                   *)
LEMMA LinkedIs ==
  ASSUME NEW r \in QueueRec, NEW b \in Message, NEW v \in Mail \cup {None}, NEW d \in Seq(Message),
         d = With(r, b, v)
  PROVE  /\ LinkedIn(r, b, v) \in QueueRec /\ LinkedIn(r, b, v).free = r.free
         /\ LinkedIn(r, b, v).queue = d /\ LinkedIn(r, b, v).entry = r.entry + 1
<1> DEFINE z == [r.text EXCEPT ![b] = v]
           y == r.entry + 1
           s == LinkedIn(r, b, v)
<1>1. s = [r EXCEPT !.text = z, !.entry = y, !.queue = d]
  BY DEF QueueRec, LinkedIn, With
<1>2. r.entry \in Nat /\ r.text \in [Message -> Mail \cup {None}]
  BY DEF QueueRec
<1>4. y \in Nat /\ z \in [Message -> Mail \cup {None}]
  BY <1>2
<1> HIDE DEF s, y, z
<1>3. s \in QueueRec /\ s.queue = d /\ s.entry = y /\ s.free = r.free
  BY <1>1, <1>4 DEF QueueRec
<1> QED
  BY <1>3 DEF s, y

\* the queue r once it has been reset
Emptied(r) ==
  [r EXCEPT !.free = Reverse(r.queue) \o @, !.queue = << >>, !.entry = 0,
            !.text = [b \in Message |-> IF Contains(r.queue, b) THEN None ELSE @[b]]]

(* A message queue after rt_mq_reset: its messages are in front of the free *)
(* list, the last first.                                                    *)
LEMMA ResetIs ==
  ASSUME NEW r \in QueueRec, NEW d \in Seq(Message), d = Reverse(r.queue) \o r.free, NEW s, s = Emptied(r)
  PROVE  s \in QueueRec /\ s.free = d /\ s.queue = << >> /\ s.entry = 0
<1> DEFINE z == [b \in Message |-> IF Contains(r.queue, b) THEN None ELSE r.text[b]]
           x == << >>
           y == 0
<1>1. Made(r, d, x, y, z, s)
  BY DEF QueueRec, Made, Emptied
<1>2. z \in [Message -> Mail \cup {None}] /\ x \in Seq(Message) /\ y \in Nat
  BY DEF QueueRec
<1> HIDE DEF z, x, y
<1>3. s \in QueueRec /\ s.free = d /\ s.queue = x /\ s.entry = y
  BY <1>1, <1>2 DEF QueueRec, Made
<1> QED
  BY <1>3 DEF x, y

(* One thread more holds a block.                                           *)
LEMMA MoreHands ==
  ASSUME NEW H, IsFiniteSet(H), NEW t, t \notin H
  PROVE  /\ IsFiniteSet(H \cup {t}) /\ Cardinality(H \cup {t}) = Cardinality(H) + 1
         /\ Cardinality(H) \in Nat
  BY FS_AddElement, FS_CardinalityType

(* One thread less holds a block.                                           *)
LEMMA FewerHands ==
  ASSUME NEW H, IsFiniteSet(H), NEW t \in H
  PROVE  /\ IsFiniteSet(H \ {t}) /\ Cardinality(H \ {t}) = Cardinality(H) - 1
         /\ Cardinality(H) \in Nat \ {0}
<1>1. IsFiniteSet(H \ {t}) /\ Cardinality(H \ {t}) = Cardinality(H) - 1
  BY FS_RemoveElement
<1>2. Cardinality(H) \in Nat /\ Cardinality(H \ {t}) \in Nat
  BY <1>1, FS_CardinalityType
<1> QED
  BY <1>1, <1>2

(* A block is taken off the free list.                                       *)
LEMMA BlockTaken ==
  ASSUME NEW r, NEW H, NEW f, Blocks(r, H, f), r.free # << >>, NEW t, t \notin H,
         NEW g, g[t] = Head(r.free), Agree(H, f, g)
  PROVE  Blocks(Allocated(r), H \cup {t}, g)
<1> DEFINE d == Tail(r.free)
           h == Head(r.free)
           s == Allocated(r)
<1>1. /\ r \in QueueRec /\ r.free \in Seq(Message) /\ Len(r.free) \in Nat /\ Len(r.queue) \in Nat
  BY QueueFields DEF Blocks
<1>2. /\ h \in Message /\ Contains(r.free, h) /\ d \in Seq(Message)
      /\ Len(d) = Len(r.free) - 1 /\ IsInjective(d)
      /\ \A u : Contains(d, u) <=> Contains(r.free, u) /\ u # h
  BY <1>1, TailMember DEF Blocks
<1>3. /\ s \in QueueRec /\ s.free = d /\ s.queue = r.queue /\ s.entry = r.entry
  BY <1>1, <1>2 DEF Allocated, QueueRec
<1>4. /\ IsFiniteSet(H \cup {t}) /\ Cardinality(H \cup {t}) = Cardinality(H) + 1
      /\ Cardinality(H) \in Nat
  BY MoreHands DEF Blocks
<1>5. g[t] = h
  OBVIOUS
<1> HIDE DEF s, d, h
<1>6. \A u \in H \cup {t} : /\ g[u] \in Message
                            /\ ~Contains(s.free, g[u]) /\ ~Contains(s.queue, g[u])
  BY <1>2, <1>3, <1>5 DEF Blocks, Agree
<1>7. \A u, v \in H \cup {t} : g[u] = g[v] => u = v
  BY <1>2, <1>5 DEF Blocks, Agree
<1>8. Len(s.free) + Len(s.queue) + Cardinality(H \cup {t}) = Size
  <2>1. Len(r.free) + Len(r.queue) + Cardinality(H) = Size /\ Size \in Nat
    BY MailAssumption DEF Blocks
  <2>2. Len(s.free) = Len(r.free) - 1 /\ Len(s.queue) = Len(r.queue)
    BY <1>2, <1>3
  <2>3. Cardinality(H \cup {t}) = Cardinality(H) + 1 /\ Cardinality(H) \in Nat
    BY <1>4
  <2>4. Len(r.free) \in Nat /\ Len(r.queue) \in Nat
    BY <1>1
  <2> DEFINE a == Len(r.free)
             e == Len(r.queue)
             c == Cardinality(H)
             x == Len(s.free)
             y == Len(s.queue)
             z == Cardinality(H \cup {t})
  <2>5. /\ a + e + c = Size /\ Size \in Nat /\ a \in Nat /\ e \in Nat /\ c \in Nat
         /\ x = a - 1 /\ y = e /\ z = c + 1
    BY <2>1, <2>2, <2>3, <2>4
  <2> HIDE DEF a, e, c, x, y, z
  <2>6. x + y + z = Size
    BY <2>5
  <2> QED
    BY <2>6 DEF x, y, z
<1>9. /\ s.entry = Len(s.queue) /\ IsInjective(s.free) /\ IsInjective(s.queue)
      /\ \A b : ~(Contains(s.free, b) /\ Contains(s.queue, b))
  BY <1>2, <1>3 DEF Blocks
<1>10. Cardinality(H \cup {t}) \in Nat
  BY <1>4
<1> QED
  BY <1>3, <1>4, <1>6, <1>7, <1>8, <1>9, <1>10 DEF Blocks, s

(* The block a call has in hand is linked into the queue.                    *)
LEMMA BlockLinked ==
  ASSUME NEW r, NEW H, NEW f, Blocks(r, H, f), NEW t \in H, NEW v \in Mail \cup {None},
         NEW G, G = H \ {t}, NEW g, Agree(G, f, g), NEW b, b = f[t]
  PROVE  /\ Blocks(LinkedIn(r, b, v), G, g)
         /\ LinkedIn(r, b, v).entry = r.entry + 1
<1> DEFINE d == IF v \in UrgentMail THEN <<b>> \o r.queue ELSE Append(r.queue, b)
           s == LinkedIn(r, b, v)
<1>1. /\ r \in QueueRec /\ r.queue \in Seq(Message) /\ Len(r.free) \in Nat /\ Len(r.queue) \in Nat
      /\ r.entry \in Nat /\ b \in Message /\ ~Contains(r.queue, b) /\ ~Contains(r.free, b)
      /\ IsInjective(r.queue) /\ Message # {}
  BY QueueFields DEF Blocks
<1>2. /\ d \in Seq(Message) /\ IsInjective(d) /\ Len(d) = Len(r.queue) + 1
      /\ \A u : Contains(d, u) <=> Contains(r.queue, u) \/ u = b
  <2>1. CASE v \in UrgentMail
    <3>1. Len(<<b>> \o r.queue) = Len(r.queue) + 1
      BY <1>1
    <3> QED
      BY <1>1, <2>1, <3>1, ConsMember
  <2>2. CASE v \notin UrgentMail
    <3>1. Len(Append(r.queue, b)) = Len(r.queue) + 1
      BY <1>1
    <3> QED
      BY <1>1, <2>2, <3>1, AppendMember
  <2> QED
    BY <2>1, <2>2
<1>3. /\ s \in QueueRec /\ s.free = r.free /\ s.queue = d /\ s.entry = r.entry + 1
  <2>1. d = With(r, b, v)
    BY DEF With
  <2> HIDE DEF d
  <2> QED
    BY <1>1, <1>2, <2>1, LinkedIs
<1>4. /\ IsFiniteSet(H \ {t}) /\ Cardinality(H \ {t}) = Cardinality(H) - 1
      /\ Cardinality(H) \in Nat \ {0}
  BY FewerHands DEF Blocks
<1> HIDE DEF s
<1>5. \A u \in H \ {t} : f[u] # b
  BY DEF Blocks
<1>6. \A u \in H \ {t} : /\ g[u] \in Message
                         /\ ~Contains(s.free, g[u]) /\ ~Contains(s.queue, g[u])
  BY <1>2, <1>3, <1>5 DEF Blocks, Agree
<1>7. \A u, x \in H \ {t} : g[u] = g[x] => u = x
  BY DEF Blocks, Agree
<1>8. Len(s.free) + Len(s.queue) + Cardinality(H \ {t}) = Size
  <2>1. Len(r.free) + Len(r.queue) + Cardinality(H) = Size /\ Size \in Nat
    BY MailAssumption DEF Blocks
  <2>2. Len(s.free) = Len(r.free) /\ Len(s.queue) = Len(r.queue) + 1
    BY <1>2, <1>3
  <2>3. Cardinality(H \ {t}) = Cardinality(H) - 1 /\ Cardinality(H) \in Nat
    BY <1>4
  <2>4. Len(r.free) \in Nat /\ Len(r.queue) \in Nat
    BY <1>1
  <2> DEFINE a == Len(r.free)
             e == Len(r.queue)
             c == Cardinality(H)
             x == Len(s.free)
             y == Len(s.queue)
             z == Cardinality(H \ {t})
  <2>5. /\ a + e + c = Size /\ Size \in Nat /\ a \in Nat /\ e \in Nat /\ c \in Nat
         /\ x = a /\ y = e + 1 /\ z = c - 1
    BY <2>1, <2>2, <2>3, <2>4
  <2> HIDE DEF a, e, c, x, y, z
  <2>6. x + y + z = Size
    BY <2>5
  <2> QED
    BY <2>6 DEF x, y, z
<1>9. /\ s.entry = Len(s.queue) /\ IsInjective(s.free) /\ IsInjective(s.queue)
      /\ \A x : ~(Contains(s.free, x) /\ Contains(s.queue, x))
  BY <1>1, <1>2, <1>3 DEF Blocks
<1>10. Cardinality(H \ {t}) \in Nat
  BY <1>4
<1> QED
  BY <1>3, <1>4, <1>6, <1>7, <1>8, <1>9, <1>10 DEF Blocks, s

(* The first message is taken out of the queue.                              *)
LEMMA BlockFetched ==
  ASSUME NEW r, NEW H, NEW f, Blocks(r, H, f), r.entry > 0, NEW t, t \notin H,
         NEW g, g[t] = Head(r.queue), Agree(H, f, g)
  PROVE  /\ Blocks(Unlinked(r), H \cup {t}, g)
         /\ Unlinked(r).entry = r.entry - 1 /\ g[t] \in Message
<1> DEFINE d == Tail(r.queue)
           h == Head(r.queue)
           s == Unlinked(r)
<1>1. /\ r \in QueueRec /\ r.queue \in Seq(Message) /\ Len(r.free) \in Nat /\ Len(r.queue) \in Nat
      /\ r.entry \in Nat /\ r.queue # << >>
  BY QueueFields DEF Blocks
<1>2. /\ h \in Message /\ Contains(r.queue, h) /\ d \in Seq(Message)
      /\ Len(d) = Len(r.queue) - 1 /\ IsInjective(d)
      /\ \A u : Contains(d, u) <=> Contains(r.queue, u) /\ u # h
  BY <1>1, TailMember DEF Blocks
<1>3. /\ s \in QueueRec /\ s.free = r.free /\ s.queue = d /\ s.entry = r.entry - 1
  <2>1. r.entry - 1 \in Nat
    BY <1>1
  <2> QED
    BY <1>1, <1>2, <2>1, UnlinkedIs
<1>4. /\ IsFiniteSet(H \cup {t}) /\ Cardinality(H \cup {t}) = Cardinality(H) + 1
      /\ Cardinality(H) \in Nat
  BY MoreHands DEF Blocks
<1>5. g[t] = h
  OBVIOUS
<1> HIDE DEF s, d, h
<1>6. \A u \in H \cup {t} : /\ g[u] \in Message
                            /\ ~Contains(s.free, g[u]) /\ ~Contains(s.queue, g[u])
  BY <1>2, <1>3, <1>5 DEF Blocks, Agree
<1>7. \A u, v \in H \cup {t} : g[u] = g[v] => u = v
  BY <1>2, <1>5 DEF Blocks, Agree
<1>8. Len(s.free) + Len(s.queue) + Cardinality(H \cup {t}) = Size
  <2>1. Len(r.free) + Len(r.queue) + Cardinality(H) = Size /\ Size \in Nat
    BY MailAssumption DEF Blocks
  <2>2. Len(s.free) = Len(r.free) /\ Len(s.queue) = Len(r.queue) - 1
    BY <1>2, <1>3
  <2>3. Cardinality(H \cup {t}) = Cardinality(H) + 1 /\ Cardinality(H) \in Nat
    BY <1>4
  <2>4. Len(r.free) \in Nat /\ Len(r.queue) \in Nat
    BY <1>1
  <2> DEFINE a == Len(r.free)
             e == Len(r.queue)
             c == Cardinality(H)
             x == Len(s.free)
             y == Len(s.queue)
             z == Cardinality(H \cup {t})
  <2>5. /\ a + e + c = Size /\ Size \in Nat /\ a \in Nat /\ e \in Nat /\ c \in Nat
         /\ x = a /\ y = e - 1 /\ z = c + 1
    BY <2>1, <2>2, <2>3, <2>4
  <2> HIDE DEF a, e, c, x, y, z
  <2>6. x + y + z = Size
    BY <2>5
  <2> QED
    BY <2>6 DEF x, y, z
<1>9. /\ s.entry = Len(s.queue) /\ IsInjective(s.free) /\ IsInjective(s.queue)
      /\ \A b : ~(Contains(s.free, b) /\ Contains(s.queue, b))
  BY <1>1, <1>2, <1>3 DEF Blocks
<1>10. Cardinality(H \cup {t}) \in Nat
  BY <1>4
<1> QED
  BY <1>2, <1>3, <1>4, <1>5, <1>6, <1>7, <1>8, <1>9, <1>10 DEF Blocks, s

\* the queue r with the block b freed
Freed(r, b) == [r EXCEPT !.text[b] = None, !.free = <<b>> \o @]

(* The block a call has in hand is freed.                                    *)
LEMMA BlockFreed ==
  ASSUME NEW r, NEW H, NEW f, Blocks(r, H, f), NEW t \in H,
         NEW G, G = H \ {t}, NEW g, Agree(G, f, g), NEW b, b = f[t],
         NEW s, s = Freed(r, b)
  PROVE  Blocks(s, G, g) /\ s.entry = r.entry
<1> DEFINE d == <<b>> \o r.free
<1>1. /\ r \in QueueRec /\ r.free \in Seq(Message) /\ Len(r.free) \in Nat /\ Len(r.queue) \in Nat
      /\ b \in Message /\ ~Contains(r.queue, b) /\ ~Contains(r.free, b)
      /\ IsInjective(r.free) /\ Message # {}
  BY QueueFields DEF Blocks
<1>2. /\ d \in Seq(Message) /\ IsInjective(d) /\ Len(d) = Len(r.free) + 1
      /\ \A u : Contains(d, u) <=> Contains(r.free, u) \/ u = b
  <2>1. Len(<<b>> \o r.free) = Len(r.free) + 1
    BY <1>1
  <2> QED
    BY <1>1, <2>1, ConsMember
<1> HIDE DEF d
<1>3. /\ s \in QueueRec /\ s.free = d /\ s.queue = r.queue /\ s.entry = r.entry
  BY <1>1, <1>2 DEF QueueRec, d, Freed
<1>4. /\ IsFiniteSet(G) /\ Cardinality(G) = Cardinality(H) - 1
      /\ Cardinality(H) \in Nat \ {0}
  BY FewerHands DEF Blocks
<1>5. \A u \in G : f[u] # b
  BY DEF Blocks
<1>6. \A u \in G : /\ g[u] \in Message
                         /\ ~Contains(s.free, g[u]) /\ ~Contains(s.queue, g[u])
  BY <1>2, <1>3, <1>5 DEF Blocks, Agree
<1>7. \A u, x \in G : g[u] = g[x] => u = x
  BY DEF Blocks, Agree
<1>8. Len(s.free) + Len(s.queue) + Cardinality(G) = Size
  <2>1. Len(r.free) + Len(r.queue) + Cardinality(H) = Size /\ Size \in Nat
    BY MailAssumption DEF Blocks
  <2>2. Len(s.free) = Len(r.free) + 1 /\ Len(s.queue) = Len(r.queue)
    BY <1>2, <1>3
  <2>3. Cardinality(G) = Cardinality(H) - 1 /\ Cardinality(H) \in Nat
    BY <1>4
  <2>4. Len(r.free) \in Nat /\ Len(r.queue) \in Nat
    BY <1>1
  <2> DEFINE a == Len(r.free)
             e == Len(r.queue)
             c == Cardinality(H)
             x == Len(s.free)
             y == Len(s.queue)
             z == Cardinality(G)
  <2>5. /\ a + e + c = Size /\ Size \in Nat /\ a \in Nat /\ e \in Nat /\ c \in Nat
         /\ x = a + 1 /\ y = e /\ z = c - 1
    BY <2>1, <2>2, <2>3, <2>4
  <2> HIDE DEF a, e, c, x, y, z
  <2>6. x + y + z = Size
    BY <2>5
  <2> QED
    BY <2>6 DEF x, y, z
<1>9. /\ s.entry = Len(s.queue) /\ IsInjective(s.free) /\ IsInjective(s.queue)
      /\ \A x : ~(Contains(s.free, x) /\ Contains(s.queue, x))
  BY <1>1, <1>2, <1>3 DEF Blocks
<1>10. Cardinality(G) \in Nat
  BY <1>4
<1> QED
  BY <1>3, <1>4, <1>6, <1>7, <1>8, <1>9, <1>10 DEF Blocks

(* An interrupt handler takes a free block and links it.                     *)
LEMMA BlockPosted ==
  ASSUME NEW r, NEW H, NEW f, Blocks(r, H, f), H \subseteq Thread, None \notin Thread,
         r.free # << >>, NEW v \in Mail \cup {None}
  PROVE  /\ Blocks(LinkedIn(Allocated(r), Head(r.free), v), H, f)
         /\ LinkedIn(Allocated(r), Head(r.free), v).entry = r.entry + 1
<1> DEFINE g == [u \in H \cup {None} |-> IF u = None THEN Head(r.free) ELSE f[u]]
           G == H \cup {None}
           a == Allocated(r)
           b == Head(r.free)
<1>1. /\ g[None] = b /\ Agree(H, f, g) /\ None \in G
      /\ None \notin H /\ G \ {None} = H
  BY DEF Agree
<1>2. a.entry = r.entry
  <2>1. r \in QueueRec
    BY DEF Blocks
  <2> QED
    BY <2>1 DEF Allocated, QueueRec
<1> HIDE DEF g
<1>3. Blocks(a, G, g)
  BY <1>1, BlockTaken
<1> HIDE DEF G, a, b
<1>4. Agree(H, g, f) /\ b = g[None] /\ H = G \ {None}
  BY <1>1 DEF Agree
<1>5. /\ Blocks(LinkedIn(a, b, v), H, f)
      /\ LinkedIn(a, b, v).entry = a.entry + 1
  BY <1>1, <1>3, <1>4, BlockLinked
<1> QED
  BY <1>1, <1>2, <1>5 DEF a, b

(* The queue is reset.                                                       *)
LEMMA BlocksReset ==
  ASSUME NEW r, NEW H, NEW f, Blocks(r, H, f), NEW s, s = Emptied(r)
  PROVE  Blocks(s, H, f) /\ s.entry = 0
<1> DEFINE v == Reverse(r.queue)
           d == v \o r.free
<1>1. /\ r \in QueueRec /\ r.free \in Seq(Message) /\ r.queue \in Seq(Message)
      /\ Len(r.free) \in Nat /\ Len(r.queue) \in Nat
      /\ IsInjective(r.free) /\ IsInjective(r.queue)
      /\ \A b : ~(Contains(r.free, b) /\ Contains(r.queue, b))
  BY QueueFields DEF Blocks
<1>2. /\ v \in Seq(Message) /\ Len(v) = Len(r.queue) /\ IsInjective(v)
      /\ \A u : Contains(v, u) <=> Contains(r.queue, u)
  BY <1>1, ReverseMember
<1>3. /\ s.free = d /\ s.queue = << >> /\ s.entry = 0 /\ s \in QueueRec
  <2>1. d \in Seq(Message) /\ d = Reverse(r.queue) \o r.free /\ s = Emptied(r)
    BY <1>1, <1>2
  <2> HIDE DEF d
  <2> QED
    BY <1>1, <2>1, ResetIs
<1> HIDE DEF v
<1>4. /\ d \in Seq(Message) /\ Len(d) = Len(v) + Len(r.free) /\ IsInjective(d)
      /\ \A u : Contains(d, u) <=> Contains(v, u) \/ Contains(r.free, u)
  BY <1>1, <1>2, ConcatMember
<1> HIDE DEF d
<1>5. Len(s.queue) = 0 /\ IsInjective(s.queue) /\ \A u : ~Contains(s.queue, u)
  BY <1>3 DEF IsInjective, Contains
<1>6. Len(s.free) + Len(s.queue) + Cardinality(H) = Size
  <2>1. Len(r.free) + Len(r.queue) + Cardinality(H) = Size /\ Size \in Nat
    BY MailAssumption DEF Blocks
  <2>2. Cardinality(H) \in Nat
    BY DEF Blocks
  <2>3. Len(s.free) = Len(r.queue) + Len(r.free) /\ Len(s.queue) = 0
    BY <1>2, <1>3, <1>4, <1>5
  <2>4. Len(r.free) \in Nat /\ Len(r.queue) \in Nat
    BY <1>1
  <2> DEFINE a == Len(r.free)
             e == Len(r.queue)
             c == Cardinality(H)
             x == Len(s.free)
             y == Len(s.queue)
             z == Cardinality(H)
  <2>5. /\ a + e + c = Size /\ Size \in Nat /\ a \in Nat /\ e \in Nat /\ c \in Nat
         /\ x = e + a /\ y = 0 /\ z = c
    BY <2>1, <2>2, <2>3, <2>4
  <2> HIDE DEF a, e, c, x, y, z
  <2>6. x + y + z = Size
    BY <2>5
  <2> QED
    BY <2>6 DEF x, y, z
<1>7. \A t \in H : /\ f[t] \in Message
                   /\ ~Contains(s.free, f[t]) /\ ~Contains(s.queue, f[t])
  BY <1>2, <1>3, <1>4, <1>5 DEF Blocks, Agree
<1> QED
  BY <1>3, <1>4, <1>5, <1>6, <1>7 DEF Blocks

(* The shape of a step: it keeps the calls that have work to do, or begins a *)
(* deletion.                                                                 *)
Deletes(S) == \E t \in Thread, o \in S : DeleteBegin(t, o)

(* A step of a semaphore deletes one, or concerns no thread in a loop or    *)
(* copy.                                                                    *)
LEMMA SemShape ==
  ASSUME IpcInv, SemStep
  PROVE  (InsideKept /\ alive' = alive) \/ Deletes(Semaphore)
<1>1. ASSUME NEW t \in Thread, NEW s \in Semaphore, SemTakeNow(t, s)
      PROVE  InsideKept /\ alive' = alive
  BY <1>1, StillKeeps DEF SemTakeNow, ipcVars, waitVars
<1>2. ASSUME NEW t \in Thread, NEW s \in Semaphore, SemRelease(t, s)
      PROVE  InsideKept /\ alive' = alive
  BY <1>2, UsesKeeps DEF SemRelease
<1>3. ASSUME NEW t \in Thread, NEW s \in Semaphore, NEW n \in WaitTime, SemTakeWait(t, s, n)
      PROVE  InsideKept /\ alive' = alive
  BY <1>3, UsesKeeps DEF SemTakeWait
<1>4. ASSUME NEW t \in Thread, NEW s \in Semaphore, NEW v, SemReset(t, s, v)
      PROVE  InsideKept /\ alive' = alive
  BY <1>4, UsesKeeps DEF SemReset
<1>5. ASSUME NEW t \in Thread, SemTakeReturn(t)
      PROVE  InsideKept /\ alive' = alive
  BY <1>5, WokenKeeps DEF SemTakeReturn
<1>6. ASSUME NEW s \in Semaphore, SemSignal(s)
      PROVE  InsideKept /\ alive' = alive
  BY <1>6, StillKeeps DEF SemSignal, InHandler, waitVars
<1> QED
  BY <1>1, <1>2, <1>3, <1>4, <1>5, <1>6 DEF SemStep, SemCall, SemHandler, Deletes

(* A step of a mutex deletes one, or concerns no thread in a loop or copy.  *)
LEMMA MutexShape ==
  ASSUME IpcInv, MutexStep
  PROVE  (InsideKept /\ alive' = alive) \/ Deletes(Mutex)
<1>1. PICK t \in Thread : MutexCall(t) \/ MutexTakeReturn(t)
  BY DEF MutexStep
<1>2. CASE MutexTakeReturn(t)
  BY <1>2, WokenKeeps DEF MutexTakeReturn
<1>3. ASSUME NEW m \in Mutex, \/ MutexTakeAgain(t, m) \/ MutexTakeFree(t, m)
                              \/ MutexTakeRefused(t, m) \/ MutexReleaseInner(t, m)
                              \/ MutexReleaseRefused(t, m)
      PROVE  InsideKept /\ alive' = alive
  BY <1>3, StillKeeps DEF MutexTakeAgain, MutexTakeFree, MutexTakeRefused, MutexReleaseInner,
     MutexReleaseRefused, waitVars, ipcVars
<1>4. ASSUME NEW m \in Mutex, NEW n, MutexTakeWait(t, m, n)
      PROVE  InsideKept /\ alive' = alive
  BY <1>4, UsesKeeps DEF MutexTakeWait
<1>5. ASSUME NEW m \in Mutex, MutexRelease(t, m)
      PROVE  InsideKept /\ alive' = alive
  BY <1>5, UsesKeeps DEF MutexRelease
<1> QED
  BY <1>1, <1>2, <1>3, <1>4, <1>5 DEF MutexCall, Deletes

(* A step of an event set deletes one, or concerns no thread in a loop or   *)
(* copy.                                                                    *)
LEMMA EventShape ==
  ASSUME IpcInv, EventStep
  PROVE  (InsideKept /\ alive' = alive) \/ Deletes(EventSet)
<1>1. ASSUME NEW t \in Thread, NEW e \in EventSet, NEW s, EventSend(t, e, s)
      PROVE  InsideKept /\ alive' = alive
  BY <1>1, UsesKeeps DEF EventSend
<1>2. ASSUME NEW t \in Thread, NEW e \in EventSet, NEW w,
             EventNow(t, e, w) \/ EventRefused(t, e, w)
      PROVE  InsideKept /\ alive' = alive
  BY <1>2, StillKeeps DEF EventNow, EventRefused, waitVars
<1>3. ASSUME NEW t \in Thread, NEW e \in EventSet, NEW w, NEW n, EventWait(t, e, w, n)
      PROVE  InsideKept /\ alive' = alive
  BY <1>3, UsesKeeps DEF EventWait
<1>4. ASSUME NEW t \in Thread, NEW e \in EventSet, EventReset(t, e)
      PROVE  InsideKept /\ alive' = alive
  BY <1>4, UsesKeeps DEF EventReset
<1>5. ASSUME NEW t \in Thread, EventReturn(t)
      PROVE  InsideKept /\ alive' = alive
  BY <1>5, WokenKeeps DEF EventReturn
<1>6. ASSUME NEW e \in EventSet, NEW s, EventPost(e, s)
      PROVE  InsideKept /\ alive' = alive
  BY <1>6, StillKeeps DEF EventPost, waitVars
<1> QED
  BY <1>1, <1>2, <1>3, <1>4, <1>5, <1>6 DEF EventStep, EventCall, EventHandler, Deletes

-----------------------------------------------------------------------------
(* Calls with a block in hand *)

Hands == {"fill", "copy"}

(* Thread t holds a block of a message queue, between taking it off a list  *)
(* and putting it on another.                                               *)
InHands(t) == call[t].at \in Hands

(* No thread takes a block or gives one back.                               *)
HandsKept ==
  \A x \in Thread : call[x].at \in Hands \/ call'[x].at \in Hands
                      => call'[x].at = call[x].at /\ want'[x] = want[x]

(* rt_*_delete sends its caller into the loop of rt_ipc_list_resume_all, on *)
(* the list of the object.                                                  *)
LEMMA DeleteTurn ==
  ASSUME IpcInv, NEW t, NEW o, DeleteBegin(t, o)
  PROVE  Turn(t, "resume_all", o) /\ t \in Thread /\ call[t].at = "app" /\ alive' = alive \ {o}
         /\ o \in alive /\ o \in Object
  BY UsesFacts DEF DeleteBegin, Goto, Turn, Puts

(* A deletion moves no block.                                               *)
LEMMA DeletesKeep ==
  ASSUME IpcInv, NEW S, Deletes(S)
  PROVE  HandsKept
<1>1. PICK t, o : DeleteBegin(t, o)
  BY DEF Deletes
<1>2. Turn(t, "resume_all", o) /\ t \in Thread /\ call[t].at = "app"
  BY <1>1, DeleteTurn
<1> QED
  BY <1>2, TurnIs DEF HandsKept, Hands

(* A step that concerns no thread in a loop or copy moves no block.         *)
LEMMA InsideHands ==
  ASSUME InsideKept PROVE HandsKept
<1>1. Hands \subseteq Inside
  BY DEF Hands, Inside
<1> QED
  BY <1>1 DEF InsideKept, HandsKept

(* The scheduler, the ticks and the loop of rt_ipc_list_resume_all move no  *)
(* block and delete nothing.                                                *)
LEMMA ThreadsShape ==
  ASSUME IpcInv, ThreadsStep
  PROVE  HandsKept /\ alive' = alive
<1>1. PICK t \in Thread : InIpc(t) \/ Delays(t)
  BY DEF ThreadsStep
<1>2. /\ \E v : \E pl \in ObjPlace \ Hands : Turn(t, pl, v)
      /\ alive' = alive /\ call[t].at \notin Hands
  <2>1. /\ Puts(want, t, want[t], want)
        /\ {"app", "woken", "block", "resume_all", "resume_one"} \subseteq ObjPlace \ Hands
    BY CallIs DEF ObjPlace, Hands, Asleep, Inside
  <2>2. CASE Reschedule(t) /\ UNCHANGED waitVars
    <3>1. Turn(t, "app", want[t])
      BY <2>1, <2>2 DEF Reschedule, Return, InApp, To, Turn, Puts, waitVars
    <3> QED
      BY <2>1, <2>2, <3>1 DEF Reschedule, Runs, waitVars, Hands
  <2>3. CASE SleepSchedule(t) /\ UNCHANGED waitVars
    <3>1. Turn(t, "woken", want[t])
      BY <2>1, <2>3 DEF SleepSchedule, Goto, Turn, Puts, waitVars
    <3> QED
      BY <2>1, <2>3, <3>1 DEF SleepSchedule, Runs, waitVars, Hands
  <2>4. CASE ResumeAllTest(t)
    <3>1. Puts(call, t, To("resume_all", Idle), call)
      BY <2>4, CallIs DEF ResumeAllTest, Runs
    <3>2. Turn(t, "resume_one", want[t]) \/ (\E v : Turn(t, "app", v) \/ Turn(t, "resume_all", v))
      <4>1. CASE Waiting(kern, want[t])
        BY <2>1, <2>4, <4>1 DEF ResumeAllTest, Goto, Turn, Puts
      <4>2. CASE ~Waiting(kern, want[t]) /\ NextList(want[t]) = None
        BY <2>4, <4>2 DEF ResumeAllTest, Return, InApp, To, Turn, Puts
      <4>3. CASE ~Waiting(kern, want[t]) /\ NextList(want[t]) # None
        BY <2>4, <3>1, <4>3 DEF ResumeAllTest, Turn, Puts
      <4> QED
        BY <4>1, <4>2, <4>3
    <3> QED
      BY <2>1, <2>4, <3>2 DEF ResumeAllTest, Runs, Hands
  <2>5. CASE ResumeAllOne(t)
    <3>1. Turn(t, "resume_all", want[t])
      BY <2>1, <2>5 DEF ResumeAllOne, Goto, Turn, Puts
    <3> QED
      BY <2>1, <2>5, <3>1 DEF ResumeAllOne, Runs, Hands
  <2>6. CASE Delays(t)
    <3>1. UNCHANGED waitVars /\ ((\E n : Sleep(t, n)) \/ Slept(t))
      BY <2>6 DEF Delays
    <3>2. CASE Slept(t)
      <4>1. Turn(t, "app", want[t])
        BY <2>1, <3>1, <3>2 DEF Slept, Return, InApp, To, Turn, Puts, waitVars
      <4> QED
        BY <2>1, <3>1, <3>2, <4>1 DEF Slept, Runs, waitVars, Hands
    <3>3. CASE \E n : Sleep(t, n)
      <4>1. Turn(t, "block", want[t])
        BY <2>1, <3>1, <3>3 DEF Sleep, Goto, Turn, Puts, waitVars
      <4> QED
        BY <2>1, <3>1, <3>3, <4>1 DEF Sleep, Runs, waitVars, Hands
    <3> QED
      BY <3>1, <3>2, <3>3
  <2> QED
    BY <1>1, <2>2, <2>3, <2>4, <2>5, <2>6 DEF InIpc
<1> QED
  BY <1>2, TurnIs DEF HandsKept

-----------------------------------------------------------------------------
(* Enough mail for the waiters *)

(* As many threads are on their way to w as there is for them.               *)
Enough(n, w) == Waiting(kern, w) => n <= Many(w)

(* Nothing is enough for the waiters when nothing is there.                 *)
LEMMA EnoughOfNone ==
  ASSUME NEW w, NEW n, n = 0
  PROVE  Enough(n, w)'
<1>1. IsFiniteSet(Thread) /\ Coming(w)' \subseteq Thread
  BY ObjectsAssumption DEF Coming
<1>2. Many(w)' \in Nat
  BY <1>1, FS_Subset, FS_CardinalityType DEF Many
<1> QED
  BY <1>2 DEF Enough

(* Anything is enough when nobody waits.                                    *)
LEMMA EnoughOfNobody ==
  ASSUME NEW w, NEW n, ~Waiting(kern', w)
  PROVE  Enough(n, w)'
  BY DEF Enough

(* On a quiet list, what was enough stays so, and so does less.             *)
LEMMA EnoughQuiet ==
  ASSUME IpcInv, IpcInv', NEW w \in WaitList, Quiet(w), NEW n \in Int, NEW d \in Int, d <= n,
         Enough(n, w)
  PROVE  Enough(d, w)'
<1>1. Coming(w)' = Coming(w) /\ (Waiting(kern', w) => Waiting(kern, w))
  BY QuietList
<1>2. Many(w)' = Many(w) /\ Many(w) \in Nat
  BY <1>1, ComingFinite DEF Many
<1> QED
  BY <1>1, <1>2 DEF Enough

(* One more, and the first waiter, if there is one, is on its way to it.     *)
LEMMA EnoughHanded ==
  ASSUME IpcInv, IpcInv', NEW w \in WaitList, HandedOver(w),
         NEW M, Moves(M), \A x \in Thread : <<x, w>> \in M => x \in First(w),
         NEW n \in Int, NEW d \in Int, d <= n + 1, Enough(n, w)
  PROVE  Enough(d, w)'
<1>1. /\ Coming(w)' = Coming(w) \cup First(w) /\ First(w) \cap Coming(w) = {}
      /\ Waiting(kern', w) => Waiting(kern, w)
  BY HeadServed
<1>2. Many(w)' = IF Waiting(kern, w) THEN Many(w) + 1 ELSE Many(w)
  BY <1>1, OneMore DEF Many
<1>3. Many(w) \in Nat
  BY ComingFinite
<1> QED
  BY <1>1, <1>2, <1>3 DEF Enough

(* The thread t is not on its way any more, and does not wait.               *)
LEMMA EnoughLeft ==
  ASSUME IpcInv, IpcInv', NEW w \in WaitList, NEW t,
         NEW M, Moves(M), \A x \in Thread : <<x, w>> \in M => x = t,
         ~ServedAt(t, w)', ~OnWait(kern', w, t),
         NEW n \in Int, NEW d \in Int, Enough(n, w),
         d <= n, t \in Coming(w) => d <= n - 1
  PROVE  Enough(d, w)'
<1>1. /\ Coming(w)' = Coming(w) \ {t}
      /\ \A x \in Thread \ {t} : OnWait(kern', w, x) => OnWait(kern, w, x)
  BY OneLeaves
<1>2. Many(w)' = IF t \in Coming(w) THEN Many(w) - 1 ELSE Many(w)
  BY <1>1, OneLess DEF Many
<1>3. Many(w) \in Nat
  BY ComingFinite
<1>4. Waiting(kern', w) => Waiting(kern, w)
  <2>1. Waiting(kern, w) <=> \E x \in Thread : OnWait(kern, w, x)
    BY WaitingIs
  <2>2. Waiting(kern', w) <=> \E x \in Thread : OnWait(kern', w, x)
    <3>1. KInv(kern')
      BY DEF IpcInv, Ipc
    <3> QED
      BY <3>1, FirstWaiter
  <2> QED
    BY <1>1, <2>1, <2>2
<1> QED
  BY <1>2, <1>3, <1>4 DEF Enough

\* a thread that wants nothing waits nowhere
LEMMA WantsNothing ==
  ASSUME IpcInv', NEW t \in Thread, NEW w \in WaitList, want'[t] # w \/ call'[t].at \notin Asleep
  PROVE  ~ServedAt(t, w)' /\ ~OnWait(kern', w, t)
  BY DEF IpcInv, Ipc, Stands, ServedAt, ServedIn

\* a thread that runs again after it has been served is on its way
LEMMA TriesComing ==
  ASSUME IpcInv, NEW t, NEW w, Tries(t, w)
  PROVE  t \in Coming(w) /\ t \in Thread /\ w \in WaitList /\ call[t].at = "woken"
<1>1. t \in Thread /\ want[t] = w /\ w \in WaitList /\ call[t].at = "woken"
      /\ kern.error[t] = "ok" /\ ~OnWait(kern, w, t)
  BY RunsFacts DEF Tries, Woken
<1> QED
  BY <1>1 DEF Coming, ServedAt, ServedIn, Asleep

(* A thread in the application is not on its way from a list.               *)
LEMMA AppNotComing ==
  ASSUME NEW t, call[t].at \notin Asleep
  PROVE  \A w : t \notin Coming(w)
  BY DEF Coming, ServedAt, ServedIn

-----------------------------------------------------------------------------
(* The local variables of a call *)

(* A thread without an unfinished call holds no block.                      *)
LEMMA NoJobIs == NoJob \in Job /\ NoJob.block = NoMessage
<1>1. 0 \in 0 .. Forever /\ 0 \in 0 .. MaxDelay
  BY TimesAreNat, BoundAssumption
<1> QED
  BY <1>1 DEF NoJob, Job, NoMessage

(* The arguments of a send that has no block yet.                           *)
LEMMA JobWith ==
  ASSUME NEW v \in Mail
  PROVE  [NoJob EXCEPT !.mail = v] \in Job /\ [NoJob EXCEPT !.mail = v].block = NoMessage
  BY NoJobIs DEF NoJob, Job

(* The arguments of a call that holds a block.                              *)
LEMMA JobHolds ==
  ASSUME NEW v \in Mail, NEW b \in Message
  PROVE  /\ [NoJob EXCEPT !.mail = v, !.block = b] \in Job
         /\ [NoJob EXCEPT !.mail = v, !.block = b].block = b
         /\ [NoJob EXCEPT !.block = b] \in Job
         /\ [NoJob EXCEPT !.block = b].block = b
  BY NoJobIs DEF NoJob, Job

(* The arguments of a call with the rest of its timeout.                    *)
LEMMA JobWaits ==
  ASSUME NEW j \in Job, NEW n \in 0 .. Forever
  PROVE  /\ [j EXCEPT !.time = n, !.waited = 0] \in Job
         /\ [j EXCEPT !.time = n, !.waited = 0].block = j.block
<1>1. 0 \in 0 .. MaxDelay
  BY TimesAreNat, BoundAssumption
<1> QED
  BY <1>1 DEF Job

\* the block a call has in hand
InHand == [t \in Thread |-> job[t].block]

(* The threads that hold a block of queue q.                                *)
Holders(q) == {t \in Thread : InHands(t) /\ want[t] = q}

(* A thread holds a block exactly while it fills or copies one.             *)
JobInv ==
  /\ job \in [Thread -> Job]
  /\ \A t \in Thread : IF InHands(t) THEN want[t] \in Queue /\ job[t].block \in Message
                       ELSE job[t].block = NoMessage

(* The type of the mailboxes.                                               *)
BoxInv == box \in [Mailbox -> BoxState]

(* In every message queue the blocks are shared out among the free list,    *)
(* the messages, and the threads that hold one.                             *)
QueueInv ==
  /\ mq \in [Queue -> QueueRec]
  /\ \A q \in Queue : Blocks(mq[q], Holders(q), InHand)

(* The part of the invariant that is about mailboxes and message queues.    *)
MailInv == JobInv /\ BoxInv /\ QueueInv

(* Nobody sleeps over a mailbox or a queue that could serve him, but for as *)
(* many waiters as are already on their way to what is there.               *)
NoSleep ==
  /\ \A m \in Mailbox : Enough(box[m].entry, m) /\ Enough(Size - box[m].entry, Private[m])
  /\ \A q \in Queue : Enough(mq[q].entry, q)

(* Nothing about the hands of a call changes.                                *)
LEMMA HandsStay ==
  ASSUME JobInv, HandsKept, job' \in [Thread -> Job],
         \A x \in Thread : job'[x].block = job[x].block
  PROVE  JobInv' /\ \A q : Holders(q)' = Holders(q) /\ Agree(Holders(q), InHand, InHand')
<1>1. \A x \in Thread : /\ InHands(x)' <=> InHands(x)
                        /\ InHands(x) => want'[x] = want[x]
  BY DEF HandsKept, InHands
<1>2. \A x \in Thread : InHand'[x] = InHand[x]
  BY DEF InHand
<1> QED
  BY <1>1, <1>2 DEF JobInv, Holders, Agree

(* Only the call of t goes on.                                               *)
LEMMA OneHand ==
  ASSUME IpcInv, JobInv, NEW t \in Thread, NEW pl, NEW v, Turn(t, pl, v), NEW j \in Job,
         job' = [job EXCEPT ![t] = j],
         IF pl \in Hands THEN v \in Queue /\ j.block \in Message ELSE j.block = NoMessage
  PROVE  /\ JobInv' /\ InHand'[t] = j.block
         /\ \A q : /\ Holders(q)' = IF pl \in Hands /\ v = q THEN Holders(q) \cup {t}
                                    ELSE Holders(q) \ {t}
                   /\ Agree(Holders(q) \ {t}, InHand, InHand')
<1>1. /\ call'[t].at = pl /\ want'[t] = v
      /\ \A x \in Thread \ {t} : call'[x] = call[x] /\ want'[x] = want[x]
  BY TurnIs
<1>2. job'[t] = j /\ (\A x \in Thread \ {t} : job'[x] = job[x]) /\ job' \in [Thread -> Job]
  BY DEF JobInv
<1>3. InHand'[t] = j.block /\ \A x \in Thread \ {t} : InHand'[x] = InHand[x]
  BY <1>2 DEF InHand
<1>4. JobInv'
  <2>1. ASSUME NEW x \in Thread
        PROVE  IF InHands(x)' THEN want'[x] \in Queue /\ job'[x].block \in Message
                              ELSE job'[x].block = NoMessage
    <3>1. CASE x = t
      BY <1>1, <1>2, <3>1 DEF InHands
    <3>2. CASE x # t
      BY <1>1, <1>2, <3>2 DEF InHands, JobInv
    <3> QED
      BY <3>1, <3>2
  <2> QED
    BY <1>2, <2>1 DEF JobInv, InHands
<1>5. ASSUME NEW q
      PROVE  /\ Holders(q)' = IF pl \in Hands /\ v = q THEN Holders(q) \cup {t}
                              ELSE Holders(q) \ {t}
             /\ Agree(Holders(q) \ {t}, InHand, InHand')
  <2>1. Agree(Holders(q) \ {t}, InHand, InHand')
    BY <1>3 DEF Agree, Holders
  <2>2. \A x \in Thread \ {t} : x \in Holders(q)' <=> x \in Holders(q)
    BY <1>1 DEF Holders, InHands
  <2>3. t \in Holders(q)' <=> pl \in Hands /\ v = q
    BY <1>1 DEF Holders, InHands
  <2>4. Holders(q) \subseteq Thread /\ Holders(q)' \subseteq Thread
    BY DEF Holders
  <2> QED
    BY <2>1, <2>2, <2>3, <2>4
<1> QED
  BY <1>3, <1>4, <1>5

\* with nothing in hand before
LEMMA EmptyHand ==
  ASSUME NEW t, ~InHands(t)
  PROVE  \A q : t \notin Holders(q) /\ Holders(q) \ {t} = Holders(q)
  BY DEF Holders

(* Who holds which block is all that Blocks asks of the threads.            *)
LEMMA BlocksAgree ==
  ASSUME NEW r, NEW H, NEW f, Blocks(r, H, f), NEW g, Agree(H, f, g)
  PROVE  Blocks(r, H, g)
  BY DEF Blocks, Agree

(* A step that touches no queue and moves no block keeps QueueInv.          *)
LEMMA QueuesStay ==
  ASSUME QueueInv, UNCHANGED mq,
         \A q : Holders(q)' = Holders(q) /\ Agree(Holders(q), InHand, InHand')
  PROVE  QueueInv'
<1>1. ASSUME NEW q \in Queue PROVE Blocks(mq'[q], Holders(q)', InHand')
  <2>1. Blocks(mq[q], Holders(q), InHand) /\ Agree(Holders(q), InHand, InHand')
    BY DEF QueueInv
  <2>2. Blocks(mq[q], Holders(q), InHand')
    BY <2>1, BlocksAgree
  <2> QED
    BY <2>2
<1> QED
  BY <1>1 DEF QueueInv

(* A step that changes one queue keeps QueueInv when it keeps Blocks of     *)
(* that queue.                                                              *)
LEMMA QueueChanges ==
  ASSUME QueueInv, NEW p \in Queue, NEW r, mq' = [mq EXCEPT ![p] = r],
         Blocks(r, Holders(p)', InHand'),
         \A q : q # p => Holders(q)' = Holders(q) /\ Agree(Holders(q), InHand, InHand')
  PROVE  QueueInv'
<1>1. ASSUME NEW q \in Queue PROVE Blocks(mq'[q], Holders(q)', InHand')
  <2>1. CASE q = p
    BY <2>1 DEF QueueInv
  <2>2. CASE q # p
    <3>1. Blocks(mq[q], Holders(q), InHand) /\ Agree(Holders(q), InHand, InHand')
      BY <2>2 DEF QueueInv
    <3>2. Blocks(mq[q], Holders(q), InHand') /\ Holders(q)' = Holders(q) /\ mq'[q] = mq[q]
      BY <2>2, <3>1, BlocksAgree DEF QueueInv
    <3> QED
      BY <3>2
  <2> QED
    BY <2>1, <2>2
<1>2. r \in QueueRec
  BY DEF Blocks
<1>3. mq' \in [Queue -> QueueRec]
  BY <1>2 DEF QueueInv
<1> QED
  BY <1>1, <1>3 DEF QueueInv

(* The lists of mailboxes and message queues, and which object each belongs *)
(* to.                                                                      *)
LEMMA MailLists ==
  /\ MailList \subseteq WaitList /\ None \notin WaitList
  /\ \A m \in Mailbox : /\ m \in MailList /\ Private[m] \in MailList /\ Private[m] # m
                        /\ m \in Object /\ Private[m] \notin Object /\ m \notin Queue
                        /\ \A o \in Object : Private[o] = Private[m] => o = m
  /\ \A q \in Queue : q \in MailList /\ q \in Object
<1>1. \A m \in Mailbox : /\ m \in Object /\ Private[m] \in WaitList \ Object
                         /\ Private[m] # None /\ m \notin Queue
  BY MailAssumption, IpcAssumption
<1>2. Object \subseteq WaitList /\ None \notin WaitList /\ Queue \subseteq Object
  BY MailAssumption, IpcAssumption
<1>3. \A m \in Mailbox, o \in Object : Private[o] = Private[m] => o = m
  BY <1>1, IpcAssumption
<1> QED
  BY <1>1, <1>2, <1>3 DEF MailList

(* A step that moves pairs of the lists in S only leaves the other lists    *)
(* quiet.                                                                   *)
LEMMA QuietBut ==
  ASSUME NEW M, Moves(M), NEW S, \A x, w : <<x, w>> \in M => w \in S
  PROVE  QuietOutside(S)
  BY QuietOf DEF QuietOutside

(* QuietOutside for more lists says less.                                   *)
LEMMA QuietIn ==
  ASSUME NEW S, NEW T, S \subseteq T, QuietOutside(S)
  PROVE  QuietOutside(T)
  BY DEF QuietOutside

-----------------------------------------------------------------------------
(* The fields of a mailbox *)

(* The fields of a mailbox.                                                *)
LEMMA BoxIs ==
  ASSUME NEW b \in BoxState
  PROVE  /\ b.entry \in 0 .. Size /\ b.entry \in Int /\ Size \in Int /\ Size \in Nat
         /\ Size - b.entry \in Int /\ Size - b.entry >= 0
  BY MailAssumption DEF BoxState

(* The next offset of a mailbox's ring.                                     *)
LEMMA AfterIs ==
  ASSUME NEW i \in 0 .. Size - 1 PROVE After(i) \in 0 .. Size - 1
  BY MailAssumption DEF After

(* A mailbox with one mail more.                                            *)
LEMMA PutIs ==
  ASSUME NEW b \in BoxState, b.entry # Size, NEW v \in Mail \cup {None}
  PROVE  Put(b, v) \in BoxState /\ Put(b, v).entry = b.entry + 1
<1> DEFINE z == [b.pool EXCEPT ![b.in] = v]
           i == After(b.in)
           e == b.entry + 1
           s == Put(b, v)
<1>1. /\ b.pool \in [0 .. Size - 1 -> Mail \cup {None}] /\ b.in \in 0 .. Size - 1
      /\ b.entry \in 0 .. Size /\ Size \in Nat
  BY MailAssumption DEF BoxState
<1>2. z \in [0 .. Size - 1 -> Mail \cup {None}] /\ i \in 0 .. Size - 1 /\ e \in 0 .. Size
  BY <1>1, AfterIs
<1>3. s = [b EXCEPT !.pool = z, !.in = i, !.entry = e]
  BY DEF Put, BoxState
<1> HIDE DEF s, z, i, e
<1>4. s \in BoxState /\ s.entry = e
  BY <1>2, <1>3 DEF BoxState
<1> QED
  BY <1>4 DEF s, e

(* A mailbox with one mail less.                                            *)
LEMMA GotIs ==
  ASSUME NEW b \in BoxState, b.entry > 0
  PROVE  Got(b) \in BoxState /\ Got(b).entry = b.entry - 1
<1> DEFINE z == [b.pool EXCEPT ![b.out] = None]
           i == After(b.out)
           e == b.entry - 1
           s == Got(b)
<1>1. /\ b.pool \in [0 .. Size - 1 -> Mail \cup {None}] /\ b.out \in 0 .. Size - 1
      /\ b.entry \in 0 .. Size /\ Size \in Nat
  BY MailAssumption DEF BoxState
<1>2. z \in [0 .. Size - 1 -> Mail \cup {None}] /\ i \in 0 .. Size - 1 /\ e \in 0 .. Size
  BY <1>1, AfterIs
<1>3. s = [b EXCEPT !.pool = z, !.out = i, !.entry = e]
  BY DEF Got, BoxState
<1> HIDE DEF s, z, i, e
<1>4. s \in BoxState /\ s.entry = e
  BY <1>2, <1>3 DEF BoxState
<1> QED
  BY <1>4 DEF s, e

(* A mailbox as rt_mb_init leaves it.                                       *)
LEMMA EmptyBoxIs == EmptyBox \in BoxState /\ EmptyBox.entry = 0
<1>1. Size \in Nat \ {0}
  BY MailAssumption
<1> QED
  BY <1>1 DEF EmptyBox, BoxState

(* A step that is not about mail keeps NoSleep.                             *)
LEMMA SleepStays ==
  ASSUME IpcInv, IpcInv', MailInv, NoSleep, UNCHANGED <<box, mq>>,
         \A w \in MailList : Quiet(w)
  PROVE  NoSleep'
<1>1. ASSUME NEW m \in Mailbox
      PROVE  (Enough(box[m].entry, m) /\ Enough(Size - box[m].entry, Private[m]))'
  <2>1. ASSUME NEW n, n = box[m].entry, NEW k, k = Size - n
        PROVE  Enough(n, m)' /\ Enough(k, Private[m])'
    <3>1. /\ n \in Int /\ k \in Int /\ Enough(n, m) /\ Enough(k, Private[m])
      BY <2>1, BoxIs DEF MailInv, BoxInv, NoSleep
    <3>2. m \in WaitList /\ Private[m] \in WaitList /\ Quiet(m) /\ Quiet(Private[m])
      BY MailLists
    <3> QED
      BY <3>1, <3>2, EnoughQuiet
  <2> QED
    BY <2>1 DEF Enough
<1>2. ASSUME NEW q \in Queue PROVE Enough(mq[q].entry, q)'
  <2>1. mq[q].entry \in Int /\ Enough(mq[q].entry, q) /\ q \in WaitList /\ Quiet(q)
    BY MailLists, QueueFields DEF MailInv, QueueInv, NoSleep
  <2>2. ASSUME NEW x, x = mq[q].entry PROVE Enough(x, q)'
    BY <2>1, <2>2, EnoughQuiet
  <2> QED
    BY <2>2 DEF Enough
<1> QED
  BY <1>1, <1>2 DEF NoSleep

(* A step about one mailbox.                                                 *)
LEMMA SleepBox ==
  ASSUME IpcInv, IpcInv', MailInv, NoSleep, NEW m \in Mailbox, NEW b \in BoxState,
         box' = [box EXCEPT ![m] = b], UNCHANGED mq, QuietOutside({m, Private[m]}),
         NEW n, n = b.entry, NEW k, k = Size - b.entry, Enough(n, m)', Enough(k, Private[m])'
  PROVE  NoSleep'
<1>1. ASSUME NEW o \in Mailbox
      PROVE  (Enough(box[o].entry, o) /\ Enough(Size - box[o].entry, Private[o]))'
  <2>1. CASE o = m
    <3>1. box'[o] = b
      BY <2>1 DEF MailInv, BoxInv
    <3> QED
      BY <2>1, <3>1 DEF Enough
  <2>2. CASE o # m
    <3>1. ASSUME NEW i, i = box[o].entry, NEW j, j = Size - i
          PROVE  Enough(i, o)' /\ Enough(j, Private[o])'
      <4>1. /\ i \in Int /\ j \in Int /\ Enough(i, o) /\ Enough(j, Private[o])
        BY <3>1, BoxIs DEF MailInv, BoxInv, NoSleep
      <4>2. /\ o \in WaitList /\ Private[o] \in WaitList
            /\ o \notin {m, Private[m]} /\ Private[o] \notin {m, Private[m]}
        BY <2>2, MailLists
      <4>3. Quiet(o) /\ Quiet(Private[o])
        BY <4>2 DEF QuietOutside
      <4> QED
        BY <4>1, <4>2, <4>3, EnoughQuiet
    <3>2. box'[o] = box[o]
      BY <2>2 DEF MailInv, BoxInv
    <3> QED
      BY <3>1, <3>2 DEF Enough
  <2> QED
    BY <2>1, <2>2
<1>2. ASSUME NEW q \in Queue PROVE Enough(mq[q].entry, q)'
  <2>1. mq[q].entry \in Int /\ Enough(mq[q].entry, q) /\ q \in WaitList /\ q \notin {m, Private[m]}
    BY MailLists, QueueFields DEF MailInv, QueueInv, NoSleep
  <2>2. Quiet(q)
    BY <2>1 DEF QuietOutside
  <2>3. ASSUME NEW x, x = mq[q].entry PROVE Enough(x, q)'
    BY <2>1, <2>2, <2>3, EnoughQuiet
  <2> QED
    BY <2>3 DEF Enough
<1> QED
  BY <1>1, <1>2 DEF NoSleep

(* A step about one queue.                                                   *)
LEMMA SleepQueue ==
  ASSUME IpcInv, IpcInv', MailInv, NoSleep, NEW p \in Queue, NEW r \in QueueRec,
         mq' = [mq EXCEPT ![p] = r], UNCHANGED box, QuietOutside({p}),
         NEW n, n = r.entry, Enough(n, p)'
  PROVE  NoSleep'
<1>1. ASSUME NEW o \in Mailbox
      PROVE  (Enough(box[o].entry, o) /\ Enough(Size - box[o].entry, Private[o]))'
  <2>1. ASSUME NEW i, i = box[o].entry, NEW j, j = Size - i
        PROVE  Enough(i, o)' /\ Enough(j, Private[o])'
    <3>1. /\ i \in Int /\ j \in Int /\ Enough(i, o) /\ Enough(j, Private[o])
      BY <2>1, BoxIs DEF MailInv, BoxInv, NoSleep
    <3>2. o \in WaitList /\ Private[o] \in WaitList /\ o # p /\ Private[o] # p
      BY MailLists
    <3>3. Quiet(o) /\ Quiet(Private[o])
      BY <3>2 DEF QuietOutside
    <3> QED
      BY <3>1, <3>2, <3>3, EnoughQuiet
  <2> QED
    BY <2>1 DEF Enough
<1>2. ASSUME NEW q \in Queue PROVE Enough(mq[q].entry, q)'
  <2>1. CASE q = p
    <3>1. mq'[q] = r
      BY <2>1 DEF MailInv, QueueInv
    <3> QED
      BY <2>1, <3>1 DEF Enough
  <2>2. CASE q # p
    <3>1. mq[q].entry \in Int /\ Enough(mq[q].entry, q) /\ q \in WaitList /\ mq'[q] = mq[q]
      BY <2>2, MailLists, QueueFields DEF MailInv, QueueInv, NoSleep
    <3>2. Quiet(q)
      BY <2>2, <3>1 DEF QuietOutside
    <3>3. ASSUME NEW x, x = mq[q].entry PROVE Enough(x, q)'
      BY <3>1, <3>2, <3>3, EnoughQuiet
    <3> QED
      BY <3>1, <3>3 DEF Enough
  <2> QED
    BY <2>1, <2>2
<1> QED
  BY <1>1, <1>2 DEF NoSleep

(* A turn of a thread that holds no block, and takes none.                  *)
LEMMA MailTurn ==
  ASSUME IpcInv, MailInv, NEW t \in Thread, call[t].at \notin Hands,
         NEW pl, pl \notin Hands, NEW v, Turn(t, pl, v), NEW j \in Job, j.block = NoMessage,
         job' = [job EXCEPT ![t] = j]
  PROVE  /\ JobInv'
         /\ \A q : Holders(q)' = Holders(q) /\ Agree(Holders(q), InHand, InHand')
<1>1. JobInv /\ ~InHands(t)
  BY DEF MailInv, InHands
<1>2. \A q : t \notin Holders(q) /\ Holders(q) \ {t} = Holders(q)
  BY <1>1, EmptyHand
<1>3. /\ JobInv'
      /\ \A q : /\ Holders(q)' = Holders(q) \ {t}
                /\ Agree(Holders(q) \ {t}, InHand, InHand')
  BY <1>1, OneHand
<1> QED
  BY <1>2, <1>3

\* such a step, with the mailboxes changed
LEMMA MailTurnBox ==
  ASSUME IpcInv, MailInv, NEW t \in Thread, call[t].at \notin Hands,
         NEW pl, pl \notin Hands, NEW v, Turn(t, pl, v), NEW j \in Job, j.block = NoMessage,
         job' = [job EXCEPT ![t] = j], UNCHANGED mq, box' \in [Mailbox -> BoxState]
  PROVE  MailInv'
<1>1. /\ JobInv'
      /\ \A q : Holders(q)' = Holders(q) /\ Agree(Holders(q), InHand, InHand')
  BY MailTurn
<1>2. QueueInv'
  BY <1>1, QueuesStay DEF MailInv
<1> QED
  BY <1>1, <1>2 DEF MailInv, BoxInv

\* the places of a call that goes on and has nothing in hand
LEMMA Elsewhere ==
  /\ \A pl \in {"app", "schedule", "block", "woken"} : pl \notin Hands
  /\ Hands \subseteq Inside
  BY DEF Hands, Inside

(* A call that ends with rt_schedule or without it holds no block after it. *)
LEMMA ScheduleTurn ==
  ASSUME NEW t, NEW k, NEW b, ThenSchedule(t, k, b)
  PROVE  \E pl : pl \notin Hands /\ pl \notin Asleep /\ Turn(t, pl, None)
<1>1. Turn(t, "app", None) \/ Turn(t, "schedule", None)
  BY ThenScheduleTurn
<1> QED
  BY <1>1 DEF Hands, Asleep

\* whether somebody was resumed or not
LEMMA EitherWay ==
  ASSUME NEW t, NEW k, NEW q, ThenSchedule(t, k, Waiting(kern, q))
  PROVE  ThenSchedule(t, k, TRUE) \/ ThenSchedule(t, k, FALSE)
  BY DEF ThenSchedule

(* A hand-over moves pairs of its own list only.                            *)
LEMMA HandedIn ==
  ASSUME NEW q, NEW S, q \in S PROVE \A x, w : <<x, w>> \in Handed(q) => w \in S
  BY HandedOnly

-----------------------------------------------------------------------------
(* A mail is put into a mailbox, or taken out: the first waiter on the list  *)
(* w is resumed, and there is one less for the list v.                       *)
LEMMA BoxHands ==
  ASSUME IpcInv, MailInv, NoSleep, NEW t, NEW m \in Mailbox, NEW w, NEW v,
         {v, w} = {m, Private[m]}, Uses(t, m) \/ Tries(t, v),
         ThenSchedule(t, Woke(kern, w), Waiting(kern, w))
  PROVE  /\ IpcInv' /\ QuietOutside({m, Private[m]}) /\ t \in Thread
         /\ call[t].at \in {"app", "woken"}
         /\ \A n \in Int : Enough(n, w) => \A d \in Int : d = n + 1 => Enough(d, w)'
         /\ \A n \in Int : Enough(n, v) => \A d \in Int : d = n - 1 => Enough(d, v)'
<1>1. /\ w \in WaitList /\ v \in WaitList /\ w # v /\ w # None /\ v # None
      /\ w \in {m, Private[m]} /\ v \in {m, Private[m]} /\ m \in WaitList
  BY MailLists
<1>2. ThenSchedule(t, Woke(kern, w), TRUE) \/ ThenSchedule(t, Woke(kern, w), FALSE)
  BY EitherWay
<1>3. PICK M : /\ IpcInv' /\ Moves(M) /\ HandedOver(w) /\ t \in Thread
               /\ call[t].at \in {"app", "woken"}
               /\ \A x, q : <<x, q>> \in M => (q = w /\ x \in First(w)) \/ (q = v /\ x = t)
  <2>1. CASE Uses(t, m)
    <3>1. IpcInv' /\ Moves(Handed(w)) /\ HandedOver(w)
      BY <1>1, <1>2, <2>1, AlikeSelf, HandsStep
    <3>2. t \in Thread /\ call[t].at = "app"
      BY <2>1, UsesFacts
    <3> QED
      BY <3>1, <3>2, HandedOnly
  <2>2. CASE Tries(t, v)
    <3>1. IpcInv' /\ Moves(Handed(w) \cup {<<t, v>>}) /\ HandedOver(w)
      BY <1>1, <1>2, <2>2, AgainHands
    <3>2. t \in Thread /\ call[t].at = "woken"
      BY <2>2, TriesComing
    <3>3. \A x, q : <<x, q>> \in Handed(w) \cup {<<t, v>>}
                      => (q = w /\ x \in First(w)) \/ (q = v /\ x = t)
      BY HandedOnly
    <3> QED
      BY <3>1, <3>2, <3>3
  <2> QED
    BY <2>1, <2>2
<1>4. QuietOutside({m, Private[m]})
  BY <1>1, <1>3, QuietBut
<1>5. ASSUME NEW n \in Int, Enough(n, w), NEW d \in Int, d = n + 1
      PROVE  Enough(d, w)'
  BY <1>1, <1>3, <1>5, EnoughHanded
<1>6. ~ServedAt(t, v)' /\ ~OnWait(kern', v, t)
  <2>1. want'[t] # v
    BY <1>1, <1>3, ScheduleTurn, TurnIs
  <2> QED
    BY <1>1, <1>3, <2>1, WantsNothing
<1>7. ASSUME NEW n \in Int, Enough(n, v), NEW d \in Int, d = n - 1
      PROVE  Enough(d, v)'
  <2>1. \A x \in Thread : <<x, v>> \in M => x = t
    BY <1>1, <1>3
  <2>2. d <= n /\ d <= n - 1
    BY <1>7
  <2> QED
    BY <1>1, <1>3, <1>6, <1>7, <2>1, <2>2, EnoughLeft
<1> QED
  BY <1>3, <1>4, <1>5, <1>7

(* rt_mb_send that found room: the mail is in the mailbox and the first     *)
(* receiver is woken.                                                       *)
LEMMA SentStep ==
  ASSUME IpcInv, MailInv, NoSleep, NEW t, NEW m \in Mailbox, NEW v \in Mail \cup {None},
         Uses(t, m) \/ Tries(t, Private[m]), Sent(t, m, v)
  PROVE  IpcInv' /\ MailInv' /\ NoSleep' /\ QuietOutside({m, Private[m]})
<1> DEFINE b == Put(box[m], v)
           n == box[m].entry
           k == Size - n
           p == Private[m]
<1>1. /\ ThenSchedule(t, Woke(kern, m), Waiting(kern, m)) /\ n # Size
      /\ box' = [box EXCEPT ![m] = b] /\ job' = [job EXCEPT ![t] = NoJob] /\ UNCHANGED mq
  BY DEF Sent, Full, Ends, MailInv, BoxInv
<1>2. /\ n \in Int /\ k \in Int /\ Size \in Int /\ Enough(n, m) /\ Enough(k, p)
      /\ box[m] \in BoxState
  BY BoxIs DEF MailInv, BoxInv, NoSleep
<1>3. b \in BoxState /\ b.entry = n + 1 /\ Size - b.entry = k - 1
  BY <1>1, <1>2, PutIs
<1> HIDE DEF b, n
<1>4. /\ IpcInv' /\ QuietOutside({m, p}) /\ t \in Thread /\ call[t].at \in {"app", "woken"}
      /\ \A d \in Int : d = n + 1 => Enough(d, m)'
      /\ \A d \in Int : d = k - 1 => Enough(d, p)'
  BY <1>1, <1>2, BoxHands
<1>5. ASSUME NEW x, x = b.entry, NEW y, y = Size - b.entry
      PROVE  Enough(x, m)' /\ Enough(y, p)'
  BY <1>2, <1>3, <1>4, <1>5
<1>6. NoSleep'
  BY <1>1, <1>3, <1>4, <1>5, SleepBox
<1>7. MailInv'
  <2>1. PICK pl : pl \notin Hands /\ Turn(t, pl, None)
    BY <1>1, ScheduleTurn
  <2>2. call[t].at \notin Hands
    BY <1>4, Elsewhere
  <2>3. box' \in [Mailbox -> BoxState]
    BY <1>1, <1>3 DEF MailInv, BoxInv
  <2> QED
    BY <1>1, <1>4, <2>1, <2>2, <2>3, NoJobIs, MailTurnBox
<1> QED
  BY <1>4, <1>6, <1>7

(* rt_mb_recv that found a mail: the place is free and the first sender is  *)
(* woken.                                                                   *)
LEMMA ReceivedStep ==
  ASSUME IpcInv, MailInv, NoSleep, NEW t, NEW m \in Mailbox,
         Uses(t, m) \/ Tries(t, m), Received(t, m)
  PROVE  IpcInv' /\ MailInv' /\ NoSleep' /\ QuietOutside({m, Private[m]})
<1> DEFINE b == Got(box[m])
           n == box[m].entry
           k == Size - n
           p == Private[m]
<1>1. /\ ThenSchedule(t, Woke(kern, p), Waiting(kern, p)) /\ n > 0
      /\ box' = [box EXCEPT ![m] = b] /\ job' = [job EXCEPT ![t] = NoJob] /\ UNCHANGED mq
  BY DEF Received, Ends, MailInv, BoxInv
<1>2. /\ n \in Int /\ k \in Int /\ Size \in Int /\ Enough(n, m) /\ Enough(k, p)
      /\ box[m] \in BoxState
  BY BoxIs DEF MailInv, BoxInv, NoSleep
<1>3. b \in BoxState /\ b.entry = n - 1 /\ Size - b.entry = k + 1
  BY <1>1, <1>2, GotIs
<1> HIDE DEF b, n
<1>4. /\ IpcInv' /\ QuietOutside({m, p}) /\ t \in Thread /\ call[t].at \in {"app", "woken"}
      /\ \A d \in Int : d = k + 1 => Enough(d, p)'
      /\ \A d \in Int : d = n - 1 => Enough(d, m)'
  BY <1>1, <1>2, BoxHands
<1>5. ASSUME NEW x, x = b.entry, NEW y, y = Size - b.entry
      PROVE  Enough(x, m)' /\ Enough(y, p)'
  BY <1>2, <1>3, <1>4, <1>5
<1>6. NoSleep'
  BY <1>1, <1>3, <1>4, <1>5, SleepBox
<1>7. MailInv'
  <2>1. PICK pl : pl \notin Hands /\ Turn(t, pl, None)
    BY <1>1, ScheduleTurn
  <2>2. call[t].at \notin Hands
    BY <1>4, Elsewhere
  <2>3. box' \in [Mailbox -> BoxState]
    BY <1>1, <1>3 DEF MailInv, BoxInv
  <2> QED
    BY <1>1, <1>4, <2>1, <2>2, <2>3, NoJobIs, MailTurnBox
<1> QED
  BY <1>4, <1>6, <1>7

-----------------------------------------------------------------------------
(* The calls of mailboxes *)

\* there is nothing to be had for who waits on w
Nothing(w) ==
  \/ \E m \in Mailbox : w = m /\ box[m].entry = 0
  \/ \E m \in Mailbox : w = Private[m] /\ box[m].entry = Size
  \/ \E q \in Queue : w = q /\ mq[q].entry = 0

(* A step that touches nothing of an empty or full list, such as going to   *)
(* sleep on it, keeps NoSleep.                                              *)
LEMMA SleepNothing ==
  ASSUME IpcInv, IpcInv', MailInv, NoSleep, NEW w, Nothing(w), UNCHANGED <<box, mq>>,
         QuietOutside({w})
  PROVE  NoSleep'
<1>1. ASSUME NEW m \in Mailbox,
             (w = m /\ box[m].entry = 0) \/ (w = Private[m] /\ box[m].entry = Size)
      PROVE  NoSleep'
  <2>1. QuietOutside({m, Private[m]}) /\ m \in WaitList /\ Private[m] \in WaitList
        /\ Private[m] # m
    <3>1. {w} \subseteq {m, Private[m]}
      BY <1>1
    <3> QED
      BY <3>1, QuietIn, MailLists
  <2>2. ASSUME NEW n, n = box[m].entry, NEW k, k = Size - n
        PROVE  Enough(n, m)' /\ Enough(k, Private[m])'
    <3>1. /\ n \in Int /\ k \in Int /\ Enough(n, m) /\ Enough(k, Private[m]) /\ Size \in Int
      BY <2>2, BoxIs DEF MailInv, BoxInv, NoSleep
    <3>2. CASE w = m
      <4>1. Quiet(Private[m]) /\ n = 0
        BY <1>1, <2>1, <2>2, <3>2 DEF QuietOutside
      <4>2. Enough(n, m)'
        BY <4>1, EnoughOfNone
      <4>3. Enough(k, Private[m])'
        BY <2>1, <3>1, <4>1, EnoughQuiet
      <4> QED
        BY <4>2, <4>3
    <3>3. CASE w # m
      <4>1. Quiet(m) /\ k = 0
        BY <1>1, <2>1, <2>2, <3>1, <3>3 DEF QuietOutside
      <4>2. Enough(k, Private[m])'
        BY <4>1, EnoughOfNone
      <4>3. Enough(n, m)'
        BY <2>1, <3>1, <4>1, EnoughQuiet
      <4> QED
        BY <4>2, <4>3
    <3> QED
      BY <3>2, <3>3
  <2>3. box[m] \in BoxState /\ box' = [box EXCEPT ![m] = box[m]]
    BY DEF MailInv, BoxInv
  <2> QED
    BY <2>1, <2>2, <2>3, SleepBox
<1>2. ASSUME NEW q \in Queue, w = q /\ mq[q].entry = 0
      PROVE  NoSleep'
  <2>1. mq[q] \in QueueRec /\ mq' = [mq EXCEPT ![q] = mq[q]]
    BY DEF MailInv, QueueInv
  <2>2. ASSUME NEW n, n = mq[q].entry PROVE Enough(n, q)'
    BY <1>2, <2>2, EnoughOfNone
  <2> QED
    BY <1>2, <2>1, <2>2, SleepQueue
<1>3. CASE \E m \in Mailbox : w = m /\ box[m].entry = 0
  BY <1>1, <1>3
<1>4. CASE \E m \in Mailbox : w = Private[m] /\ box[m].entry = Size
  BY <1>1, <1>4
<1> QED
  BY <1>2, <1>3, <1>4 DEF Nothing

(* The timeouts of the calls about mail.                                    *)
LEMMA ForeverIs == 0 .. Forever \subseteq Nat /\ WaitTime \subseteq 0 .. Forever
  BY TimesAreNat, IpcAssumption

(* What is left of a timeout is a timeout.                                  *)
LEMMA RemainingIs ==
  ASSUME JobInv, NEW t \in Thread PROVE Remaining(t) \in 0 .. Forever
<1>1. job[t].time \in 0 .. Forever /\ job[t].waited \in 0 .. MaxDelay /\ Forever \in Nat
      /\ MaxDelay \in Nat
  BY TimesAreNat, BoundAssumption DEF JobInv, Job
<1> QED
  BY <1>1 DEF Remaining

(* A call waits, for the first time or again.                                *)
LEMMA WaitsMove ==
  ASSUME IpcInv, MailInv, NEW t, NEW o, NEW w \in MailList, Uses(t, o) \/ Tries(t, w),
         NEW n \in 0 .. Forever, NEW j \in Job, j.block = NoMessage, WaitMail(t, w, n, j)
  PROVE  IpcInv' /\ MailInv' /\ QuietOutside({w})
<1>1. w \in WaitList /\ n \in Nat /\ WaitOn(kern, t, w, n)
  BY MailLists, ForeverIs DEF WaitMail
<1>2. IpcInv' /\ Moves({<<t, w>>}) /\ t \in Thread /\ call[t].at \notin Hands
  <2>1. CASE Uses(t, o)
    BY <1>1, <2>1, AlikeSelf, WaitsStep, UsesFacts, Elsewhere DEF Alike
  <2>2. CASE Tries(t, w)
    BY <1>1, <2>2, AgainWaits, TriesComing, Elsewhere
  <2> QED
    BY <2>1, <2>2
<1>3. QuietOutside({w})
  <2>1. \A x, q : <<x, q>> \in {<<t, w>>} => q \in {w}
    OBVIOUS
  <2> QED
    BY <1>2, <2>1, QuietBut
<1>4. MailInv'
  <2> DEFINE i == [j EXCEPT !.time = n, !.waited = 0]
  <2>1. i \in Job /\ i.block = NoMessage
    BY JobWaits
  <2>2. job' = [job EXCEPT ![t] = i] /\ UNCHANGED mq /\ box' \in [Mailbox -> BoxState]
    BY DEF WaitMail, Starts, MailInv, BoxInv
  <2>3. Turn(t, "block", w) /\ "block" \notin Hands
    BY <1>1, WaitOnTurn, Elsewhere
  <2> HIDE DEF i
  <2> QED
    BY <1>2, <2>1, <2>2, <2>3, MailTurnBox
<1> QED
  BY <1>2, <1>3, <1>4

(* A call about mail that gives up: its timeout is used up.                 *)
LEMMA EndsMove ==
  ASSUME IpcInv, MailInv, NEW t, NEW w, Tries(t, w), NEW e \in Error, Exhausted(t, e)
  PROVE  IpcInv' /\ MailInv' /\ QuietOutside({w})
<1>1. IpcInv' /\ Moves({<<t, w>>}) /\ t \in Thread /\ call[t].at \notin Hands
  BY AgainEnds, TriesComing, Elsewhere DEF Exhausted
<1>2. QuietOutside({w})
  <2>1. \A x, q : <<x, q>> \in {<<t, w>>} => q \in {w}
    OBVIOUS
  <2> QED
    BY <1>1, <2>1, QuietBut
<1>3. /\ job' = [job EXCEPT ![t] = NoJob] /\ UNCHANGED mq /\ box' \in [Mailbox -> BoxState]
      /\ Turn(t, "app", None) /\ "app" \notin Hands
  BY WaitOverTurn, Elsewhere DEF Exhausted, Ends, MailInv, BoxInv
<1>4. MailInv'
  BY <1>1, <1>3, NoJobIs, MailTurnBox
<1> QED
  BY <1>1, <1>2, <1>4

(* rt_mb_send_wait.                                                         *)
LEMMA BoxSendStep ==
  ASSUME IpcInv, MailInv, NoSleep, NEW t, NEW m \in Mailbox, NEW v \in Mail, NEW n \in WaitTime,
         BoxSend(t, m, v, n)
  PROVE  IpcInv' /\ MailInv' /\ NoSleep' /\ QuietOutside({m, Private[m]})
<1> DEFINE p == Private[m]
<1>1. p \in MailList /\ n \in 0 .. Forever /\ {p} \subseteq {m, p} /\ "ok" \in Error
  BY MailLists, ForeverIs DEF Error
<1>2. Full(m) => Nothing(p)
  BY DEF Full, Nothing
<1>3. ASSUME QuietOutside({p}) PROVE QuietOutside({m, p})
  BY <1>1, <1>3, QuietIn
<1>4. CASE BoxSend(t, m, v, n)
  <2>1. Uses(t, m) /\ v \in Mail \cup {None}
    BY <1>4 DEF BoxSend
  <2>2. CASE Sent(t, m, v)
    BY <2>1, <2>2, SentStep
  <2>3. CASE Full(m) /\ WaitMail(t, p, n, [NoJob EXCEPT !.mail = v])
    <3>1. IpcInv' /\ MailInv' /\ QuietOutside({p})
      BY <1>1, <2>1, <2>3, JobWith, WaitsMove
    <3>2. UNCHANGED <<box, mq>>
      BY <2>3 DEF WaitMail
    <3> QED
      BY <1>2, <1>3, <2>3, <3>1, <3>2, SleepNothing
  <2> QED
    BY <1>4, <2>2, <2>3 DEF BoxSend
<1> QED
  BY <1>4

(* rt_mb_send_wait after it was woken.                                      *)
LEMMA BoxSendAgainStep ==
  ASSUME IpcInv, MailInv, NoSleep, NEW t, NEW m \in Mailbox,
         BoxSendAgain(t, m)
  PROVE  IpcInv' /\ MailInv' /\ NoSleep' /\ QuietOutside({m, Private[m]})
<1> DEFINE p == Private[m]
<1>1. p \in MailList /\ {p} \subseteq {m, p} /\ "ok" \in Error
  BY MailLists, ForeverIs DEF Error
<1>2. Full(m) => Nothing(p)
  BY DEF Full, Nothing
<1>3. ASSUME QuietOutside({p}) PROVE QuietOutside({m, p})
  BY <1>1, <1>3, QuietIn
<1>5. CASE BoxSendAgain(t, m)
  <2>1. Tries(t, p) /\ t \in Thread /\ call[t].at = "woken"
    BY <1>5, TriesComing DEF BoxSendAgain
  <2>2. job[t] \in Job /\ job[t].block = NoMessage /\ Remaining(t) \in 0 .. Forever
        /\ job[t].mail \in Mail \cup {None}
    BY <2>1, RemainingIs, Elsewhere DEF MailInv, JobInv, InHands, Job
  <2>3. CASE Sent(t, m, job[t].mail)
    BY <2>1, <2>2, <2>3, SentStep
  <2>4. CASE Full(m) /\ Exhausted(t, "ok")
    <3>1. IpcInv' /\ MailInv' /\ QuietOutside({p})
      BY <1>1, <2>1, <2>4, EndsMove
    <3>2. UNCHANGED <<box, mq>>
      BY <2>4 DEF Exhausted
    <3> QED
      BY <1>2, <1>3, <2>4, <3>1, <3>2, SleepNothing
  <2>5. CASE Full(m) /\ WaitMail(t, p, Remaining(t), job[t])
    <3>1. IpcInv' /\ MailInv' /\ QuietOutside({p})
      BY <1>1, <2>1, <2>2, <2>5, WaitsMove
    <3>2. UNCHANGED <<box, mq>>
      BY <2>5 DEF WaitMail
    <3> QED
      BY <1>2, <1>3, <2>5, <3>1, <3>2, SleepNothing
  <2> QED
    BY <1>5, <2>3, <2>4, <2>5 DEF BoxSendAgain
<1> QED
  BY <1>5

(* rt_mb_recv.                                                              *)
LEMMA BoxReceiveStep ==
  ASSUME IpcInv, MailInv, NoSleep, NEW t, NEW m \in Mailbox, NEW n \in WaitTime,
         BoxReceive(t, m, n)
  PROVE  IpcInv' /\ MailInv' /\ NoSleep' /\ QuietOutside({m, Private[m]})
<1>1. m \in MailList /\ n \in 0 .. Forever /\ {m} \subseteq {m, Private[m]} /\ "timeout" \in Error
  BY MailLists, ForeverIs DEF Error
<1>2. box[m].entry = 0 => Nothing(m)
  BY DEF Nothing
<1>3. ASSUME QuietOutside({m}) PROVE QuietOutside({m, Private[m]})
  BY <1>1, <1>3, QuietIn
<1>4. CASE BoxReceive(t, m, n)
  <2>1. Uses(t, m)
    BY <1>4 DEF BoxReceive
  <2>2. CASE Received(t, m)
    BY <2>1, <2>2, ReceivedStep
  <2>3. CASE box[m].entry = 0 /\ WaitMail(t, m, n, NoJob)
    <3>1. IpcInv' /\ MailInv' /\ QuietOutside({m})
      BY <1>1, <2>1, <2>3, NoJobIs, WaitsMove
    <3>2. UNCHANGED <<box, mq>>
      BY <2>3 DEF WaitMail
    <3> QED
      BY <1>2, <1>3, <2>3, <3>1, <3>2, SleepNothing
  <2> QED
    BY <1>4, <2>2, <2>3 DEF BoxReceive
<1> QED
  BY <1>4

(* rt_mb_recv after it was woken.                                           *)
LEMMA BoxReceiveAgainStep ==
  ASSUME IpcInv, MailInv, NoSleep, NEW t, NEW m \in Mailbox,
         BoxReceiveAgain(t, m)
  PROVE  IpcInv' /\ MailInv' /\ NoSleep' /\ QuietOutside({m, Private[m]})
<1>1. m \in MailList /\ {m} \subseteq {m, Private[m]} /\ "timeout" \in Error
  BY MailLists, ForeverIs DEF Error
<1>2. box[m].entry = 0 => Nothing(m)
  BY DEF Nothing
<1>3. ASSUME QuietOutside({m}) PROVE QuietOutside({m, Private[m]})
  BY <1>1, <1>3, QuietIn
<1>5. CASE BoxReceiveAgain(t, m)
  <2>1. Tries(t, m) /\ t \in Thread /\ call[t].at = "woken"
    BY <1>5, TriesComing DEF BoxReceiveAgain
  <2>2. job[t] \in Job /\ job[t].block = NoMessage /\ Remaining(t) \in 0 .. Forever
    BY <2>1, RemainingIs, Elsewhere DEF MailInv, JobInv, InHands
  <2>3. CASE Received(t, m)
    BY <2>1, <2>3, ReceivedStep
  <2>4. CASE box[m].entry = 0 /\ Exhausted(t, "timeout")
    <3>1. IpcInv' /\ MailInv' /\ QuietOutside({m})
      BY <1>1, <2>1, <2>4, EndsMove
    <3>2. UNCHANGED <<box, mq>>
      BY <2>4 DEF Exhausted
    <3> QED
      BY <1>2, <1>3, <2>4, <3>1, <3>2, SleepNothing
  <2>5. CASE box[m].entry = 0 /\ WaitMail(t, m, Remaining(t), job[t])
    <3>1. IpcInv' /\ MailInv' /\ QuietOutside({m})
      BY <1>1, <2>1, <2>2, <2>5, WaitsMove
    <3>2. UNCHANGED <<box, mq>>
      BY <2>5 DEF WaitMail
    <3> QED
      BY <1>2, <1>3, <2>5, <3>1, <3>2, SleepNothing
  <2> QED
    BY <1>5, <2>3, <2>4, <2>5 DEF BoxReceiveAgain
<1> QED
  BY <1>5

(* A wait that has failed is over: its thread was on its way to nothing.     *)
LEMMA WaitFailedStep ==
  ASSUME IpcInv, MailInv, NoSleep, NEW t, WaitFailed(t)
  PROVE  IpcInv' /\ MailInv' /\ NoSleep' /\ QuietOutside({})
<1> SUFFICES ASSUME NEW q, q = want[t]
             PROVE  IpcInv' /\ MailInv' /\ NoSleep' /\ QuietOutside({})
  OBVIOUS
<1>1. Woken(t) /\ WaitOver(t) /\ kern' = kern /\ kern.error[t] # "ok" /\ UNCHANGED <<box, mq>>
      /\ job' = [job EXCEPT ![t] = NoJob] /\ Runs(t, "woken")
  BY DEF WaitFailed, Ends, Woken
<1>2. /\ IpcInv' /\ Moves({<<t, q>>}) /\ ~ServedAt(t, q)' /\ t \in Thread /\ q \in WaitList
  BY <1>1, ReturnsStep
<1>3. ~ServedAt(t, q)
  BY <1>1 DEF ServedAt, ServedIn
<1>4. ASSUME NEW w \in WaitList PROVE Quiet(w)
  <2>1. CASE w # q
    <3>1. \A x \in Thread : <<x, w>> \notin {<<t, q>>}
      BY <2>1
    <3> QED
      BY <1>2, <3>1, QuietOf
  <2>2. CASE w = q
    <3>1. \A x \in Thread \ {t} : Unmoved(kern, call, want, kern', call', want', x, q)
      BY <1>2 DEF Moves, Same
    <3>2. Unmoved(kern, call, want, kern', call', want', t, q)
      <4>1. ~ServedIn(kern, call, want, t, q) /\ ~ServedIn(kern', call', want', t, q)
        BY <1>2, <1>3 DEF ServedAt
      <4> QED
        BY <1>1, <4>1 DEF Unmoved
    <3> QED
      BY <2>2, <3>1, <3>2 DEF Quiet
  <2> QED
    BY <2>1, <2>2
<1>5. NoSleep'
  BY <1>1, <1>2, <1>4, MailLists, SleepStays
<1>6. MailInv'
  <2>1. Turn(t, "app", None) /\ "app" \notin Hands /\ call[t].at \notin Hands
    BY <1>1, WaitOverTurn, Elsewhere DEF Runs
  <2>2. box' \in [Mailbox -> BoxState]
    BY <1>1 DEF MailInv, BoxInv
  <2> QED
    BY <1>1, <1>2, <2>1, <2>2, NoJobIs, MailTurnBox
<1> QED
  BY <1>2, <1>4, <1>5, <1>6 DEF QuietOutside

(* A step in which no call gets a block or lets go of it.                    *)
LEMMA IdleHands ==
  ASSUME MailInv, HandsKept, UNCHANGED job
  PROVE  /\ JobInv' /\ \A q : Holders(q)' = Holders(q) /\ Agree(Holders(q), InHand, InHand')
<1>1. JobInv /\ job' \in [Thread -> Job] /\ \A x \in Thread : job'[x].block = job[x].block
  BY DEF MailInv, JobInv
<1> QED
  BY <1>1, HandsStay

(* rt_mb_send from an interrupt handler.                                    *)
LEMMA BoxPostStep ==
  ASSUME IpcInv, MailInv, NoSleep, NEW m \in Mailbox, NEW v \in Mail, BoxPost(m, v)
  PROVE  IpcInv' /\ MailInv' /\ NoSleep' /\ QuietOutside({m, Private[m]})
<1> DEFINE b == Put(box[m], v)
           n == box[m].entry
           k == Size - n
           p == Private[m]
<1>1. /\ n # Size /\ InHandler(m, m) /\ box' = [box EXCEPT ![m] = b] /\ UNCHANGED <<mq, job>>
  BY DEF BoxPost, Full, MailInv, BoxInv
<1>2. /\ n \in Int /\ k \in Int /\ Size \in Int /\ Enough(n, m) /\ Enough(k, p)
      /\ box[m] \in BoxState /\ m \in WaitList /\ p \in WaitList /\ p # m /\ v \in Mail \cup {None}
  BY BoxIs, MailLists DEF MailInv, BoxInv, NoSleep
<1>3. b \in BoxState /\ b.entry = n + 1 /\ Size - b.entry = k - 1
  BY <1>1, <1>2, PutIs
<1> HIDE DEF b, n
<1>4. IpcInv' /\ Moves(Handed(m)) /\ HandedOver(m) /\ UNCHANGED <<call, want>>
  BY <1>1, <1>2, HandlerStep DEF InHandler, waitVars
<1>5. QuietOutside({m, p}) /\ Quiet(p)
  <2>1. /\ \A x, w : <<x, w>> \in Handed(m) => w \in {m, p}
        /\ \A x \in Thread : <<x, p>> \notin Handed(m)
        /\ \A x \in Thread : <<x, m>> \in Handed(m) => x \in First(m)
    BY <1>2, HandedOnly
  <2> QED
    BY <1>2, <1>4, <2>1, QuietBut, QuietOf
<1>6. ASSUME NEW x, x = b.entry, NEW y, y = Size - b.entry
      PROVE  Enough(x, m)' /\ Enough(y, p)'
  <2>1. Enough(x, m)'
    <3>1. (\A u \in Thread : <<u, m>> \in Handed(m) => u \in First(m)) /\ x \in Int /\ x <= n + 1
      BY <1>2, <1>3, <1>6, HandedOnly
    <3> QED
      BY <1>2, <1>4, <3>1, EnoughHanded
  <2>2. y \in Int /\ y <= k
    BY <1>2, <1>3, <1>6
  <2>3. Enough(y, p)'
    BY <1>2, <1>4, <1>5, <2>2, EnoughQuiet
  <2> QED
    BY <2>1, <2>3
<1>7. NoSleep'
  BY <1>1, <1>3, <1>4, <1>5, <1>6, SleepBox
<1>8. MailInv'
  <2>1. HandsKept /\ UNCHANGED job
    BY <1>1, <1>4, StillKeeps, InsideHands
  <2>2. JobInv' /\ QueueInv'
    BY <1>1, <2>1, IdleHands, QueuesStay DEF MailInv
  <2> QED
    BY <1>1, <1>3, <2>2 DEF MailInv, BoxInv
<1> QED
  BY <1>4, <1>5, <1>7, <1>8

(* A call by a thread outside the IPC code moves no block.                  *)
LEMMA UsesHands ==
  ASSUME IpcInv, NEW t, NEW o, Uses(t, o), NEW k, NEW b, ThenSchedule(t, k, b)
  PROVE  HandsKept
<1>1. (Turn(t, "app", None) \/ Turn(t, "schedule", None)) /\ t \in Thread /\ call[t].at = "app"
  BY UsesFacts, ThenScheduleTurn
<1> QED
  BY <1>1, TurnIs DEF HandsKept, Hands

(* rt_mb_control(RESET).                                                    *)
LEMMA BoxResetStep ==
  ASSUME IpcInv, MailInv, NoSleep, NEW t, NEW m \in Mailbox, BoxReset(t, m)
  PROVE  IpcInv' /\ MailInv' /\ NoSleep' /\ QuietOutside({})
<1> DEFINE p == Private[m]
<1>1. /\ Uses(t, m) /\ ThenSchedule(t, ResumeAll(ResumeAll(kern, m), p), TRUE)
      /\ box' = [box EXCEPT ![m] = EmptyBox] /\ UNCHANGED <<mq, job>>
      /\ m \in WaitList /\ p \in WaitList
  BY MailLists DEF BoxReset
<1> HIDE DEF p
<1>2. IpcInv' /\ Moves({}) /\ ~Waiting(kern', m) /\ ~Waiting(kern', p)
  BY <1>1, ResetBothStep
<1>3. QuietOutside({})
  <2>1. \A x, w : <<x, w>> \in {} => w \in {}
    OBVIOUS
  <2> QED
    BY <1>2, NobodyMoves DEF QuietOutside
<1>4. ASSUME NEW x, NEW y PROVE Enough(x, m)' /\ Enough(y, p)'
  BY <1>2, EnoughOfNobody
<1>5. NoSleep'
  <2>1. QuietOutside({m, Private[m]}) /\ EmptyBox \in BoxState
    BY <1>3, EmptyBoxIs DEF QuietOutside
  <2> QED
    BY <1>1, <1>2, <1>4, <2>1, SleepBox DEF p
<1>6. MailInv'
  <2>1. HandsKept /\ UNCHANGED job
    BY <1>1, UsesHands
  <2>2. JobInv' /\ QueueInv'
    BY <1>1, <2>1, IdleHands, QueuesStay DEF MailInv
  <2> QED
    BY <1>1, <2>2, EmptyBoxIs DEF MailInv, BoxInv
<1> QED
  BY <1>2, <1>3, <1>5, <1>6

-----------------------------------------------------------------------------
(* The calls of message queues *)

(* A call gets a block.                                                      *)
LEMMA HandTaken ==
  ASSUME IpcInv, MailInv, NEW t \in Thread, ~InHands(t), NEW pl \in Hands, NEW q \in Queue,
         Turn(t, pl, q), NEW j \in Job, j.block \in Message, job' = [job EXCEPT ![t] = j]
  PROVE  /\ JobInv' /\ InHand'[t] = j.block /\ t \notin Holders(q)
         /\ Holders(q)' = Holders(q) \cup {t} /\ Agree(Holders(q), InHand, InHand')
         /\ \A p : p # q => Holders(p)' = Holders(p) /\ Agree(Holders(p), InHand, InHand')
<1>1. \A p : t \notin Holders(p) /\ Holders(p) \ {t} = Holders(p)
  BY EmptyHand
<1>2. /\ JobInv' /\ InHand'[t] = j.block
      /\ \A p : /\ Holders(p)' = IF pl \in Hands /\ q = p THEN Holders(p) \cup {t}
                                 ELSE Holders(p) \ {t}
                /\ Agree(Holders(p) \ {t}, InHand, InHand')
  BY OneHand DEF MailInv
<1> QED
  BY <1>1, <1>2

(* A call lets go of its block.                                              *)
LEMMA HandEmptied ==
  ASSUME IpcInv, MailInv, NEW t \in Thread, InHands(t), NEW q, q = want[t], NEW pl, pl \notin Hands,
         NEW v, Turn(t, pl, v), job' = [job EXCEPT ![t] = NoJob]
  PROVE  /\ JobInv' /\ t \in Holders(q) /\ q \in Queue /\ InHand[t] = job[t].block
         /\ job[t] \in Job
         /\ Holders(q)' = Holders(q) \ {t} /\ Agree(Holders(q) \ {t}, InHand, InHand')
         /\ \A p : p # q => Holders(p)' = Holders(p) /\ Agree(Holders(p), InHand, InHand')
<1>1. \A p : p # q => t \notin Holders(p) /\ Holders(p) \ {t} = Holders(p)
  BY DEF Holders
<1>2. NoJob \in Job /\ NoJob.block = NoMessage /\ JobInv
  BY NoJobIs DEF MailInv
<1>3. /\ JobInv'
      /\ \A p : /\ Holders(p)' = IF pl \in Hands /\ v = p THEN Holders(p) \cup {t}
                                 ELSE Holders(p) \ {t}
                /\ Agree(Holders(p) \ {t}, InHand, InHand')
  BY <1>2, OneHand
<1>4. t \in Holders(q) /\ q \in Queue /\ InHand[t] = job[t].block /\ job[t] \in Job
  BY <1>2 DEF Holders, InHand, JobInv
<1> QED
  BY <1>1, <1>3, <1>4

(* The first element of a sequence.                                         *)
LEMMA HeadIs ==
  ASSUME NEW S, NEW s \in Seq(S), s # << >>
  PROVE  Head(s) \in S
  OBVIOUS

(* The first part of rt_mq_send and rt_mq_urgent: a block is taken off the  *)
(* free list.                                                               *)
LEMMA QueueSendStep ==
  ASSUME IpcInv, MailInv, NoSleep, NEW t, NEW q \in Queue, NEW v \in Mail, QueueSend(t, q, v)
  PROVE  IpcInv' /\ MailInv' /\ NoSleep' /\ QuietOutside({q})
<1> SUFFICES ASSUME NEW b, b = Head(mq[q].free),
                    NEW j, j = [NoJob EXCEPT !.mail = v, !.block = b]
             PROVE  IpcInv' /\ MailInv' /\ NoSleep' /\ QuietOutside({q})
  OBVIOUS
<1> DEFINE r == mq[q]
           s == Allocated(r)
<1>1. /\ Uses(t, q) /\ r.free # << >> /\ mq' = [mq EXCEPT ![q] = s] /\ kern' = kern
      /\ job' = [job EXCEPT ![t] = j] /\ isr' = isr /\ alive' = alive /\ wild' = wild
      /\ UNCHANGED box /\ Turn(t, "fill", q)
  BY DEF QueueSend, Starts, Turn, Puts, Goto, MailInv, QueueInv
<1>2. /\ r \in QueueRec /\ Blocks(r, Holders(q), InHand) /\ b \in Message
  <2>1. r \in QueueRec /\ Blocks(r, Holders(q), InHand)
    BY DEF MailInv, QueueInv
  <2>2. r.free \in Seq(Message)
    BY <2>1, QueueFields
  <2> QED
    BY <1>1, <2>1, <2>2, HeadIs
<1>3. j \in Job /\ j.block = b /\ j.block \in Message
  BY <1>2, JobHolds
<1>4. t \in Thread /\ ~InHands(t) /\ q \in WaitList /\ "fill" \in Hands /\ "fill" \in Inside
  BY <1>1, UsesFacts, MailLists DEF InHands, Hands, Inside
<1>5. IpcInv' /\ Moves({<<t, q>>}) /\ ~ServedAt(t, q)'
  BY <1>1, <1>4, EntersStep
<1>6. s.entry = r.entry
  BY <1>2 DEF Allocated, QueueRec
<1> HIDE DEF s
<1>7. /\ JobInv' /\ InHand'[t] = j.block /\ t \notin Holders(q)
      /\ Holders(q)' = Holders(q) \cup {t} /\ Agree(Holders(q), InHand, InHand')
      /\ \A p : p # q => Holders(p)' = Holders(p) /\ Agree(Holders(p), InHand, InHand')
  BY <1>1, <1>3, <1>4, HandTaken
<1>8. Blocks(s, Holders(q)', InHand')
  <2>1. ASSUME NEW g, g[t] = b, Agree(Holders(q), InHand, g)
        PROVE  Blocks(s, Holders(q) \cup {t}, g)
    BY <1>1, <1>2, <1>7, <2>1, BlockTaken DEF s
  <2> QED
    BY <1>3, <1>7, <2>1
<1>9. MailInv'
  BY <1>1, <1>7, <1>8, QueueChanges DEF MailInv, BoxInv
<1>10. QuietOutside({q})
  <2>1. \A x, w : <<x, w>> \in {<<t, q>>} => w \in {q}
    OBVIOUS
  <2> QED
    BY <1>5, <2>1, QuietBut
<1>11. NoSleep'
  <2>1. ASSUME NEW n, n = s.entry PROVE Enough(n, q)'
    <3>1. n \in Int /\ Enough(n, q) /\ n <= n
      BY <1>2, <1>6, <2>1, QueueFields DEF NoSleep
    <3>2. t \notin Coming(q)
      BY <1>1, UsesFacts, AppNotComing DEF Asleep
    <3>3. ~OnWait(kern', q, t)
      BY <1>1, <1>4, RunsFacts DEF Uses
    <3>4. \A x \in Thread : <<x, q>> \in {<<t, q>>} => x = t
      OBVIOUS
    <3> QED
      BY <1>4, <1>5, <3>1, <3>2, <3>3, <3>4, EnoughLeft
  <2>2. s \in QueueRec
    BY <1>8 DEF Blocks
  <2> QED
    BY <1>1, <1>5, <1>10, <2>1, <2>2, SleepQueue
<1> QED
  BY <1>5, <1>9, <1>10, <1>11

(* The second part of rt_mq_send and rt_mq_urgent: the filled block is      *)
(* linked and the first receiver is woken.                                  *)
LEMMA QueueLinkStep ==
  ASSUME IpcInv, MailInv, NoSleep, NEW t, NEW q \in Queue, QueueLink(t, q)
  PROVE  IpcInv' /\ MailInv' /\ NoSleep' /\ QuietOutside({q})
<1> DEFINE r == mq[q]
           b == job[t].block
           v == job[t].mail
           s == LinkedIn(r, b, v)
<1>1. /\ Runs(t, "fill") /\ q = want[t] /\ mq' = [mq EXCEPT ![q] = s]
      /\ ThenSchedule(t, Woke(kern, q), Waiting(kern, q))
      /\ job' = [job EXCEPT ![t] = NoJob] /\ UNCHANGED box
  BY DEF QueueLink, Ends, MailInv, QueueInv
<1>2. t \in Thread /\ InHands(t) /\ "fill" \in Inside /\ q \in WaitList
  BY <1>1, RunsFacts, MailLists DEF InHands, Hands, Inside
<1>3. IpcInv' /\ Moves(Handed(q)) /\ HandedOver(q)
  BY <1>1, <1>2, EitherWay, LeavesHands
<1>4. PICK pl : pl \notin Hands /\ Turn(t, pl, None)
  BY <1>1, ScheduleTurn
<1>5. /\ JobInv' /\ t \in Holders(q) /\ InHand[t] = b /\ v \in Mail \cup {None}
      /\ Holders(q)' = Holders(q) \ {t} /\ Agree(Holders(q) \ {t}, InHand, InHand')
      /\ \A p : p # q => Holders(p)' = Holders(p) /\ Agree(Holders(p), InHand, InHand')
  <2>1. /\ JobInv' /\ t \in Holders(q) /\ InHand[t] = b /\ job[t] \in Job
        /\ Holders(q)' = Holders(q) \ {t} /\ Agree(Holders(q) \ {t}, InHand, InHand')
        /\ \A p : p # q => Holders(p)' = Holders(p) /\ Agree(Holders(p), InHand, InHand')
    BY <1>1, <1>2, <1>4, HandEmptied
  <2>2. v \in Mail \cup {None}
    BY <2>1 DEF Job
  <2> QED
    BY <2>1, <2>2
<1>6. r \in QueueRec /\ Blocks(r, Holders(q), InHand)
  BY DEF MailInv, QueueInv
<1>7. Blocks(s, Holders(q)', InHand') /\ s.entry = r.entry + 1
  <2>1. ASSUME NEW G, G = Holders(q) \ {t}, NEW g, Agree(G, InHand, g)
        PROVE  Blocks(s, G, g) /\ s.entry = r.entry + 1
    BY <1>5, <1>6, <2>1, BlockLinked
  <2> HIDE DEF s, r
  <2> QED
    BY <1>5, <2>1
<1> HIDE DEF s
<1>8. MailInv'
  BY <1>1, <1>5, <1>7, QueueChanges DEF MailInv, BoxInv
<1>9. QuietOutside({q})
  <2>1. \A x, w : <<x, w>> \in Handed(q) => w \in {q}
    BY HandedOnly
  <2> QED
    BY <1>3, <2>1, QuietBut
<1>10. NoSleep'
  <2>1. ASSUME NEW n, n = s.entry PROVE Enough(n, q)'
    <3>1. r.entry \in Int /\ n \in Int /\ n <= r.entry + 1 /\ Enough(r.entry, q)
      BY <1>6, <1>7, <2>1, QueueFields DEF NoSleep
    <3>2. \A x \in Thread : <<x, q>> \in Handed(q) => x \in First(q)
      BY HandedOnly
    <3> QED
      BY <1>2, <1>3, <3>1, <3>2, EnoughHanded
  <2>2. s \in QueueRec
    BY <1>7 DEF Blocks
  <2> QED
    BY <1>1, <1>3, <1>9, <2>1, <2>2, SleepQueue
<1> QED
  BY <1>3, <1>8, <1>9, <1>10

(* rt_mq_send from an interrupt handler.                                    *)
LEMMA QueuePostStep ==
  ASSUME IpcInv, MailInv, NoSleep, NEW q \in Queue, NEW v \in Mail, QueuePost(q, v), None \notin Thread
  PROVE  IpcInv' /\ MailInv' /\ NoSleep' /\ QuietOutside({q})
<1> DEFINE r == mq[q]
           s == LinkedIn(Allocated(r), Head(r.free), v)
<1>1. /\ r.free # << >> /\ InHandler(q, q) /\ mq' = [mq EXCEPT ![q] = s] /\ UNCHANGED <<box, job>>
      /\ q \in WaitList /\ UNCHANGED <<call, want>> /\ v \in Mail \cup {None}
  BY MailLists DEF QueuePost, MailInv, QueueInv, InHandler, waitVars
<1>2. IpcInv' /\ Moves(Handed(q)) /\ HandedOver(q)
  BY <1>1, HandlerStep
<1>3. r \in QueueRec /\ Blocks(r, Holders(q), InHand) /\ Holders(q) \subseteq Thread
  BY DEF MailInv, QueueInv, Holders
<1>4. Blocks(s, Holders(q), InHand) /\ s.entry = r.entry + 1
  BY <1>1, <1>3, BlockPosted
<1> HIDE DEF s
<1>5. JobInv' /\ \A p : Holders(p)' = Holders(p) /\ Agree(Holders(p), InHand, InHand')
  BY <1>1, StillKeeps, InsideHands, IdleHands
<1>6. Blocks(s, Holders(q), InHand')
  BY <1>4, <1>5, BlocksAgree
<1>7. MailInv'
  BY <1>1, <1>5, <1>6, QueueChanges DEF MailInv, BoxInv
<1>8. QuietOutside({q})
  <2>1. \A x, w : <<x, w>> \in Handed(q) => w \in {q}
    BY HandedOnly
  <2> QED
    BY <1>2, <2>1, QuietBut
<1>9. NoSleep'
  <2>1. ASSUME NEW n, n = s.entry PROVE Enough(n, q)'
    <3>1. r.entry \in Int /\ n \in Int /\ n <= r.entry + 1 /\ Enough(r.entry, q)
      BY <1>3, <1>4, <2>1, QueueFields DEF NoSleep
    <3>2. \A x \in Thread : <<x, q>> \in Handed(q) => x \in First(q)
      BY HandedOnly
    <3> QED
      BY <1>1, <1>2, <3>1, <3>2, EnoughHanded
  <2>2. s \in QueueRec
    BY <1>4 DEF Blocks
  <2> QED
    BY <1>1, <1>2, <1>8, <2>1, <2>2, SleepQueue
<1> QED
  BY <1>2, <1>7, <1>8, <1>9

(* rt_mq_recv that found a message: it is taken off the queue to be copied. *)
LEMMA FetchStep ==
  ASSUME IpcInv, MailInv, NoSleep, NEW t, NEW q \in Queue, Fetch(t, q), Uses(t, q) \/ Tries(t, q)
  PROVE  IpcInv' /\ MailInv' /\ NoSleep' /\ QuietOutside({q})
<1> SUFFICES ASSUME NEW b, b = Head(mq[q].queue),
                    NEW j, j = [NoJob EXCEPT !.block = b]
             PROVE  IpcInv' /\ MailInv' /\ NoSleep' /\ QuietOutside({q})
  OBVIOUS
<1> DEFINE r == mq[q]
           s == Unlinked(r)
<1>1. /\ r.entry > 0 /\ mq' = [mq EXCEPT ![q] = s] /\ kern' = kern
      /\ job' = [job EXCEPT ![t] = j] /\ isr' = isr /\ alive' = alive /\ wild' = wild
      /\ UNCHANGED box /\ Turn(t, "copy", q)
  BY DEF Fetch, Starts, Turn, Puts, Goto, MailInv, QueueInv
<1>2. /\ r \in QueueRec /\ Blocks(r, Holders(q), InHand) /\ b \in Message
  <2>1. r \in QueueRec /\ Blocks(r, Holders(q), InHand)
    BY DEF MailInv, QueueInv
  <2>2. r.queue \in Seq(Message) /\ r.queue # << >>
    BY <1>1, <2>1, QueueFields DEF Blocks
  <2> QED
    BY <2>1, <2>2, HeadIs
<1>3. j \in Job /\ j.block = b /\ j.block \in Message
  BY <1>2, NoJobIs DEF NoJob, Job
<1>4. /\ t \in Thread /\ ~InHands(t) /\ q \in WaitList /\ "copy" \in Hands /\ "copy" \in Inside
      /\ ~OnWait(kern, q, t) /\ t = kern.cur
      /\ t \in Coming(q) \/ t \notin Coming(q)
  <2>1. q \in WaitList /\ "copy" \in Hands /\ "copy" \in Inside
    BY MailLists DEF Hands, Inside
  <2>2. CASE Uses(t, q)
    <3>1. Runs(t, "app") /\ call[t].at = "app"
      BY <2>2, UsesFacts
    <3> QED
      BY <2>1, <3>1, RunsFacts DEF InHands, Hands
  <2>3. CASE Tries(t, q)
    <3>1. Runs(t, "woken") /\ call[t].at = "woken"
      BY <2>3 DEF Tries, Woken, Runs
    <3> QED
      BY <2>1, <3>1, RunsFacts DEF InHands, Hands
  <2> QED
    BY <2>2, <2>3
<1>5. IpcInv' /\ Moves({<<t, q>>}) /\ ~ServedAt(t, q)'
  BY <1>1, <1>4, EntersStep
<1>6. /\ JobInv' /\ InHand'[t] = j.block /\ t \notin Holders(q)
      /\ Holders(q)' = Holders(q) \cup {t} /\ Agree(Holders(q), InHand, InHand')
      /\ \A p : p # q => Holders(p)' = Holders(p) /\ Agree(Holders(p), InHand, InHand')
  BY <1>1, <1>3, <1>4, HandTaken
<1>7. Blocks(s, Holders(q)', InHand') /\ s.entry = r.entry - 1
  <2>1. ASSUME NEW g, g[t] = b, Agree(Holders(q), InHand, g)
        PROVE  Blocks(s, Holders(q) \cup {t}, g) /\ s.entry = r.entry - 1
    BY <1>1, <1>2, <1>6, <2>1, BlockFetched
  <2> HIDE DEF s, r
  <2> QED
    BY <1>3, <1>6, <2>1
<1> HIDE DEF s
<1>8. MailInv'
  BY <1>1, <1>6, <1>7, QueueChanges DEF MailInv, BoxInv
<1>9. QuietOutside({q})
  <2>1. \A x, w : <<x, w>> \in {<<t, q>>} => w \in {q}
    OBVIOUS
  <2> QED
    BY <1>5, <2>1, QuietBut
<1>10. NoSleep'
  <2>1. ASSUME NEW n, n = s.entry PROVE Enough(n, q)'
    <3>1. r.entry \in Int /\ Enough(r.entry, q) /\ n \in Int /\ n <= r.entry /\ n <= r.entry - 1
      BY <1>2, <1>7, <2>1, QueueFields DEF NoSleep
    <3>2. ~OnWait(kern', q, t)
      BY <1>1, <1>4
    <3>3. \A x \in Thread : <<x, q>> \in {<<t, q>>} => x = t
      OBVIOUS
    <3> QED
      BY <1>4, <1>5, <3>1, <3>2, <3>3, EnoughLeft
  <2>2. s \in QueueRec
    BY <1>7 DEF Blocks
  <2> QED
    BY <1>1, <1>5, <1>9, <2>1, <2>2, SleepQueue
<1> QED
  BY <1>5, <1>8, <1>9, <1>10

(* rt_mq_recv.                                                              *)
LEMMA QueueReceiveStep ==
  ASSUME IpcInv, MailInv, NoSleep, NEW t, NEW q \in Queue, NEW n \in WaitTime,
         QueueReceive(t, q, n)
  PROVE  IpcInv' /\ MailInv' /\ NoSleep' /\ QuietOutside({q})
<1>1. q \in MailList /\ n \in 0 .. Forever /\ "timeout" \in Error
  BY MailLists, ForeverIs DEF Error
<1>2. mq[q].entry = 0 => Nothing(q)
  BY DEF Nothing
<1>3. CASE QueueReceive(t, q, n)
  <2>1. Uses(t, q)
    BY <1>3 DEF QueueReceive
  <2>2. CASE Fetch(t, q)
    BY <2>1, <2>2, FetchStep
  <2>3. CASE mq[q].entry = 0 /\ WaitMail(t, q, n, NoJob)
    <3>1. IpcInv' /\ MailInv' /\ QuietOutside({q})
      BY <1>1, <2>1, <2>3, NoJobIs, WaitsMove
    <3>2. UNCHANGED <<box, mq>>
      BY <2>3 DEF WaitMail
    <3> QED
      BY <1>2, <2>3, <3>1, <3>2, SleepNothing
  <2> QED
    BY <1>3, <2>2, <2>3 DEF QueueReceive
<1> QED
  BY <1>3

(* rt_mq_recv after it was woken.                                           *)
LEMMA QueueReceiveAgainStep ==
  ASSUME IpcInv, MailInv, NoSleep, NEW t, NEW q \in Queue,
         QueueReceiveAgain(t, q)
  PROVE  IpcInv' /\ MailInv' /\ NoSleep' /\ QuietOutside({q})
<1>1. q \in MailList /\ "timeout" \in Error
  BY MailLists, ForeverIs DEF Error
<1>2. mq[q].entry = 0 => Nothing(q)
  BY DEF Nothing
<1>4. CASE QueueReceiveAgain(t, q)
  <2>1. Tries(t, q) /\ t \in Thread /\ call[t].at = "woken"
    BY <1>4, TriesComing DEF QueueReceiveAgain
  <2>2. job[t] \in Job /\ job[t].block = NoMessage /\ Remaining(t) \in 0 .. Forever
    BY <2>1, RemainingIs, Elsewhere DEF MailInv, JobInv, InHands
  <2>3. CASE Fetch(t, q)
    BY <2>1, <2>3, FetchStep
  <2>4. CASE mq[q].entry = 0 /\ Exhausted(t, "timeout")
    <3>1. IpcInv' /\ MailInv' /\ QuietOutside({q})
      BY <1>1, <2>1, <2>4, EndsMove
    <3>2. UNCHANGED <<box, mq>>
      BY <2>4 DEF Exhausted
    <3> QED
      BY <1>2, <2>4, <3>1, <3>2, SleepNothing
  <2>5. CASE mq[q].entry = 0 /\ WaitMail(t, q, Remaining(t), job[t])
    <3>1. IpcInv' /\ MailInv' /\ QuietOutside({q})
      BY <1>1, <2>1, <2>2, <2>5, WaitsMove
    <3>2. UNCHANGED <<box, mq>>
      BY <2>5 DEF WaitMail
    <3> QED
      BY <1>2, <2>5, <3>1, <3>2, SleepNothing
  <2> QED
    BY <1>4, <2>3, <2>4, <2>5 DEF QueueReceiveAgain
<1> QED
  BY <1>4

(* A step that moves nobody leaves every list quiet.                        *)
LEMMA QuietAll ==
  ASSUME Moves({}) PROVE QuietOutside({}) /\ \A w \in WaitList : Quiet(w)
  BY NobodyMoves DEF QuietOutside

(* rt_mq_recv gives the block it has copied back to the free list.          *)
LEMMA QueueReadStep ==
  ASSUME IpcInv, MailInv, NoSleep, NEW t, NEW q \in Queue, QueueRead(t, q)
  PROVE  IpcInv' /\ MailInv' /\ NoSleep' /\ QuietOutside({q})
<1> SUFFICES ASSUME NEW b, b = job[t].block
             PROVE  IpcInv' /\ MailInv' /\ NoSleep' /\ QuietOutside({q})
  OBVIOUS
<1> DEFINE r == mq[q]
           s == Freed(r, b)
<1>1. /\ Runs(t, "copy") /\ q = want[t] /\ kern' = kern /\ isr' = isr /\ alive' = alive
      /\ wild' = wild /\ job' = [job EXCEPT ![t] = NoJob] /\ UNCHANGED box
      /\ Turn(t, "app", None)
  BY DEF QueueRead, Ends, Turn, Puts, Return, InApp, To
<1>2. mq' = [mq EXCEPT ![q] = s]
  BY DEF QueueRead, MailInv, QueueInv, Freed
<1>3. r \in QueueRec /\ Blocks(r, Holders(q), InHand)
  BY DEF MailInv, QueueInv
<1>4. t \in Thread /\ InHands(t) /\ "copy" \in Inside /\ q \in WaitList /\ "app" \notin Hands
  BY <1>1, RunsFacts, MailLists DEF InHands, Hands, Inside
<1>5. IpcInv' /\ Moves({})
  BY <1>1, <1>4, LeavesStep
<1>6. /\ JobInv' /\ t \in Holders(q) /\ InHand[t] = b
      /\ Holders(q)' = Holders(q) \ {t} /\ Agree(Holders(q) \ {t}, InHand, InHand')
      /\ \A p : p # q => Holders(p)' = Holders(p) /\ Agree(Holders(p), InHand, InHand')
  BY <1>1, <1>4, HandEmptied
<1>7. Blocks(s, Holders(q)', InHand') /\ s.entry = r.entry
  <2>1. ASSUME NEW g, NEW f, f = InHand, NEW H, H = Holders(q), NEW u, u = r, NEW d, d = s,
               NEW G, G = H \ {t}, Agree(G, f, g)
        PROVE  Blocks(d, G, g) /\ d.entry = u.entry
    <3>1. /\ b = f[t] /\ Blocks(u, H, f) /\ t \in H /\ d = Freed(u, b)
      BY <1>3, <1>6, <2>1
    <3> QED
      BY <2>1, <3>1, BlockFreed
  <2> HIDE DEF s, r
  <2> QED
    BY <1>6, <2>1
<1> HIDE DEF s
<1>8. MailInv'
  BY <1>1, <1>2, <1>6, <1>7, QueueChanges DEF MailInv, BoxInv
<1>9. QuietOutside({q}) /\ Quiet(q)
  BY <1>4, <1>5, QuietAll DEF QuietOutside
<1>10. NoSleep'
  <2>1. ASSUME NEW n, n = s.entry PROVE Enough(n, q)'
    <3>1. n \in Int /\ Enough(n, q) /\ n <= n
      BY <1>3, <1>7, <2>1, QueueFields DEF NoSleep
    <3> QED
      BY <1>4, <1>5, <1>9, <3>1, EnoughQuiet
  <2>2. s \in QueueRec
    BY <1>7 DEF Blocks
  <2> QED
    BY <1>1, <1>2, <1>5, <1>9, <2>1, <2>2, SleepQueue
<1> QED
  BY <1>5, <1>8, <1>9, <1>10

(* rt_mq_control(RESET).                                                    *)
LEMMA QueueResetStep ==
  ASSUME IpcInv, MailInv, NoSleep, NEW t, NEW q \in Queue, QueueReset(t, q)
  PROVE  IpcInv' /\ MailInv' /\ NoSleep' /\ QuietOutside({q})
<1> DEFINE r == mq[q]
           s == Emptied(r)
<1>1. /\ Uses(t, q) /\ ThenSchedule(t, ResumeAll(kern, q), TRUE) /\ UNCHANGED <<box, job>>
      /\ q \in WaitList
  BY MailLists DEF QueueReset
<1>2. r \in QueueRec /\ Blocks(r, Holders(q), InHand)
  BY DEF MailInv, QueueInv
<1>3. mq' = [mq EXCEPT ![q] = s]
  BY DEF QueueReset, MailInv, QueueInv, Emptied
<1>4. Blocks(s, Holders(q), InHand)
  BY <1>2, BlocksReset
<1> HIDE DEF s
<1>5. IpcInv' /\ Moves({}) /\ ~Waiting(kern', q)
  BY <1>1, ResetOneStep
<1>6. JobInv' /\ \A p : Holders(p)' = Holders(p) /\ Agree(Holders(p), InHand, InHand')
  BY <1>1, UsesHands, IdleHands
<1>7. Blocks(s, Holders(q), InHand')
  BY <1>4, <1>6, BlocksAgree
<1>8. MailInv'
  BY <1>1, <1>3, <1>6, <1>7, QueueChanges DEF MailInv, BoxInv
<1>9. QuietOutside({q})
  BY <1>5, QuietAll DEF QuietOutside
<1>10. NoSleep'
  <2>1. ASSUME NEW n, n = s.entry PROVE Enough(n, q)'
    BY <1>5, EnoughOfNobody
  <2>2. s \in QueueRec
    BY <1>4 DEF Blocks
  <2> QED
    BY <1>1, <1>3, <1>5, <1>9, <2>1, <2>2, SleepQueue
<1> QED
  BY <1>5, <1>8, <1>9, <1>10

(* Nothing happens to a mailbox or a queue.                                  *)
LEMMA MailIdle ==
  ASSUME IpcInv, IpcInv', MailInv, NoSleep, HandsKept, UNCHANGED <<box, mq>>,
         job' \in [Thread -> Job], \A x \in Thread : job'[x].block = job[x].block,
         \A w \in MailList : Quiet(w)
  PROVE  MailInv' /\ NoSleep'
<1>1. JobInv' /\ \A q : Holders(q)' = Holders(q) /\ Agree(Holders(q), InHand, InHand')
  BY HandsStay DEF MailInv
<1>2. MailInv'
  BY <1>1, QueuesStay DEF MailInv, BoxInv
<1> QED
  BY <1>2, SleepStays

(* rt_mb_delete and rt_mq_delete.                                           *)
LEMMA MailDeleteStep ==
  ASSUME IpcInv, MailInv, NoSleep, NEW t, NEW o, MailDelete(t, o)
  PROVE  IpcInv' /\ MailInv' /\ NoSleep' /\ QuietOutside({})
<1>1. DeleteBegin(t, o) /\ UNCHANGED <<box, mq, job>> /\ t \in Thread
  BY UsesFacts DEF MailDelete, mailVars, DeleteBegin
<1>2. IpcInv' /\ Moves({}) /\ HandsKept
  <2>1. Deletes({o})
    BY <1>1 DEF Deletes
  <2> QED
    BY <1>1, <2>1, DeleteBeginStep, DeletesKeep
<1>3. job' \in [Thread -> Job] /\ \A x \in Thread : job'[x].block = job[x].block
  BY <1>1 DEF MailInv, JobInv
<1> QED
  BY <1>1, <1>2, <1>3, QuietAll, MailLists, MailIdle

(* A tick, with the rest of the timeouts of the calls about mail.           *)
LEMMA MailTickStep ==
  ASSUME IpcInv, MailInv, NoSleep, MailTick
  PROVE  IpcInv' /\ MailInv' /\ NoSleep' /\ QuietOutside({})
<1>1. IpcTick /\ UNCHANGED <<box, mq>>
  BY DEF MailTick
<1>2. IpcInv' /\ Moves({}) /\ HandsKept
  <2>1. UNCHANGED <<call, want>>
    BY <1>1 DEF IpcTick, Interrupt, Tick, TimerFires, TickDone, waitVars
  <2> QED
    BY <1>1, <2>1, InterruptStep, StillKeeps, InsideHands
<1>3. job' \in [Thread -> Job] /\ \A x \in Thread : job'[x].block = job[x].block
  <2>1. ASSUME NEW j \in Job, j.waited < MaxDelay
        PROVE  [j EXCEPT !.waited = @ + 1] \in Job /\ [j EXCEPT !.waited = @ + 1].block = j.block
    <3>1. j.waited \in 0 .. MaxDelay /\ MaxDelay \in Nat
      BY BoundAssumption DEF Job
    <3>2. j.waited + 1 \in 0 .. MaxDelay
      BY <2>1, <3>1
    <3> QED
      BY <3>2 DEF Job
  <2>2. job \in [Thread -> Job]
    BY DEF MailInv, JobInv
  <2>3. CASE isr # "none"
    BY <2>2, <2>3 DEF MailTick
  <2>4. CASE isr = "none"
    <3>1. job' = [t \in Thread |-> IF want[t] # None /\ job[t].time \in 1 .. MaxDelay
                                      /\ job[t].waited < MaxDelay
                                   THEN [job[t] EXCEPT !.waited = @ + 1] ELSE job[t]]
      BY <2>4 DEF MailTick
    <3>2. ASSUME NEW x \in Thread
          PROVE  job'[x] \in Job /\ job'[x].block = job[x].block
      <4>1. CASE want[x] # None /\ job[x].time \in 1 .. MaxDelay /\ job[x].waited < MaxDelay
        BY <2>1, <2>2, <3>1, <4>1
      <4>2. CASE ~(want[x] # None /\ job[x].time \in 1 .. MaxDelay /\ job[x].waited < MaxDelay)
        BY <2>2, <3>1, <4>2
      <4> QED
        BY <4>1, <4>2
    <3> QED
      BY <3>1, <3>2
  <2> QED
    BY <2>3, <2>4
<1> QED
  BY <1>1, <1>2, <1>3, QuietAll, MailLists, MailIdle

(* Every step of a mailbox or a message queue keeps its part of the         *)
(* invariant and leaves the lists of the other objects quiet.               *)
LEMMA MailStepMoves ==
  ASSUME IpcInv, MailInv, NoSleep, MailStep
  PROVE  IpcInv' /\ MailInv' /\ NoSleep' /\ QuietOutside(MailList)
<1>1. ASSUME NEW m \in Mailbox, QuietOutside({m, Private[m]}) PROVE QuietOutside(MailList)
  <2>1. {m, Private[m]} \subseteq MailList
    BY MailLists
  <2> QED
    BY <1>1, <2>1, QuietIn
<1>2. ASSUME NEW q \in Queue, QuietOutside({q}) PROVE QuietOutside(MailList)
  <2>1. {q} \subseteq MailList
    BY MailLists
  <2> QED
    BY <1>2, <2>1, QuietIn
<1>3. ASSUME QuietOutside({}) PROVE QuietOutside(MailList)
  BY <1>3, QuietIn
<1>4. ASSUME NEW t \in Thread, MailCall(t)
      PROVE  IpcInv' /\ MailInv' /\ NoSleep' /\ QuietOutside(MailList)
  <2>1. ASSUME NEW m \in Mailbox, NEW n \in WaitTime, NEW v \in Mail, BoxSend(t, m, v, n)
        PROVE  IpcInv' /\ MailInv' /\ NoSleep' /\ QuietOutside(MailList)
    BY <1>1, <2>1, BoxSendStep
  <2>2. ASSUME NEW m \in Mailbox, NEW n \in WaitTime, BoxReceive(t, m, n)
        PROVE  IpcInv' /\ MailInv' /\ NoSleep' /\ QuietOutside(MailList)
    BY <1>1, <2>2, BoxReceiveStep
  <2>3. ASSUME NEW m \in Mailbox, BoxReset(t, m)
        PROVE  IpcInv' /\ MailInv' /\ NoSleep' /\ QuietOutside(MailList)
    BY <1>3, <2>3, BoxResetStep
  <2>4. ASSUME NEW q \in Queue, NEW v \in Mail, QueueSend(t, q, v)
        PROVE  IpcInv' /\ MailInv' /\ NoSleep' /\ QuietOutside(MailList)
    BY <1>2, <2>4, QueueSendStep
  <2>5. ASSUME NEW q \in Queue, NEW n \in WaitTime, QueueReceive(t, q, n)
        PROVE  IpcInv' /\ MailInv' /\ NoSleep' /\ QuietOutside(MailList)
    BY <1>2, <2>5, QueueReceiveStep
  <2>6. ASSUME NEW q \in Queue, QueueReset(t, q)
        PROVE  IpcInv' /\ MailInv' /\ NoSleep' /\ QuietOutside(MailList)
    BY <1>2, <2>6, QueueResetStep
  <2>7. ASSUME NEW o, MailDelete(t, o)
        PROVE  IpcInv' /\ MailInv' /\ NoSleep' /\ QuietOutside(MailList)
    BY <1>3, <2>7, MailDeleteStep
  <2> QED
    BY <1>4, <2>1, <2>2, <2>3, <2>4, <2>5, <2>6, <2>7 DEF MailCall
<1>5. ASSUME NEW t \in Thread, MailInside(t)
      PROVE  IpcInv' /\ MailInv' /\ NoSleep' /\ QuietOutside(MailList)
  <2>2. ASSUME NEW m \in Mailbox, BoxSendAgain(t, m) \/ BoxReceiveAgain(t, m)
        PROVE  IpcInv' /\ MailInv' /\ NoSleep' /\ QuietOutside(MailList)
    BY <1>1, <2>2, BoxSendAgainStep, BoxReceiveAgainStep
  <2>3. ASSUME NEW q \in Queue, QueueLink(t, q)
        PROVE  IpcInv' /\ MailInv' /\ NoSleep' /\ QuietOutside(MailList)
    BY <1>2, <2>3, QueueLinkStep
  <2>4. ASSUME NEW q \in Queue, QueueRead(t, q)
        PROVE  IpcInv' /\ MailInv' /\ NoSleep' /\ QuietOutside(MailList)
    BY <1>2, <2>4, QueueReadStep
  <2>5. ASSUME NEW q \in Queue, QueueReceiveAgain(t, q)
        PROVE  IpcInv' /\ MailInv' /\ NoSleep' /\ QuietOutside(MailList)
    BY <1>2, <2>5, QueueReceiveAgainStep
  <2>6. CASE WaitFailed(t)
    BY <1>3, <2>6, WaitFailedStep
  <2> QED
    BY <1>5, <2>2, <2>3, <2>4, <2>5, <2>6 DEF MailInside
<1>6. ASSUME MailHandler
      PROVE  IpcInv' /\ MailInv' /\ NoSleep' /\ QuietOutside(MailList)
  <2>1. ASSUME NEW m \in Mailbox, NEW v \in Mail, BoxPost(m, v)
        PROVE  IpcInv' /\ MailInv' /\ NoSleep' /\ QuietOutside(MailList)
    BY <1>1, <2>1, BoxPostStep
  <2>2. ASSUME NEW q \in Queue, NEW v \in Mail, QueuePost(q, v)
        PROVE  IpcInv' /\ MailInv' /\ NoSleep' /\ QuietOutside(MailList)
    BY <1>2, <2>2, QueuePostStep, MutexAssumption
  <2> QED
    BY <1>6, <2>1, <2>2 DEF MailHandler
<1>7. ASSUME MailTick
      PROVE  IpcInv' /\ MailInv' /\ NoSleep' /\ QuietOutside(MailList)
  BY <1>3, <1>7, MailTickStep
<1> QED
  BY <1>4, <1>5, <1>6, <1>7 DEF MailStep

(* A step about other objects.                                               *)
LEMMA MailStays ==
  ASSUME IpcInv, IpcInv', MailInv, NoSleep, UNCHANGED mailVars, HandsKept,
         NEW S, QuietOutside(S), S \cap MailList = {}
  PROVE  MailInv' /\ NoSleep'
<1>1. UNCHANGED <<box, mq>> /\ job' \in [Thread -> Job]
      /\ \A x \in Thread : job'[x].block = job[x].block
  BY DEF mailVars, MailInv, JobInv
<1>2. \A w \in MailList : Quiet(w)
  BY MailLists DEF QuietOutside
<1> QED
  BY <1>1, <1>2, MailIdle

-----------------------------------------------------------------------------
(* Event sets *)

-----------------------------------------------------------------------------
(* Events *)

(* Fewer events satisfy less.                                                *)
LEMMA SatisfiedGrows ==
  ASSUME NEW s, NEW r, s \subseteq r, NEW w, Satisfied(s, w)
  PROVE  Satisfied(r, w)
  BY DEF Satisfied

\* where rt_event_send is in its loop: see Told
Delivery == [k : KernelState, set : SUBSET Event, info : [Thread -> Interest]]

(* What rt_event_recv writes into the thread is of its type.                *)
LEMMA MatchedIs ==
  ASSUME NEW w \in Interest, NEW s \in SUBSET Event
  PROVE  [w EXCEPT !.set = Matched(s, w)] \in Interest
  BY DEF Interest, Matched

(* One iteration of rt_event_send keeps the types.                          *)
LEMMA ToldType ==
  ASSUME NEW a \in Delivery, NEW t \in Thread
  PROVE  Told(a, t) \in Delivery
<1> DEFINE w == a.info[t]
           m == Matched(a.set, w)
           k == Resume(a.k, t)
           s == IF w.clear THEN a.set \ m ELSE a.set
           i == [a.info EXCEPT ![t].set = m]
<1>1. a.k \in KernelState /\ a.set \in SUBSET Event /\ a.info \in [Thread -> Interest]
      /\ w \in Interest
  BY DEF Delivery
<1>2. k \in KernelState
  BY <1>1, ResumeType
<1>3. s \in SUBSET Event
  BY <1>1
<1>4. i \in [Thread -> Interest]
  <2>1. i = [a.info EXCEPT ![t] = [w EXCEPT !.set = m]]
    BY <1>1
  <2> QED
    BY <1>1, <2>1, MatchedIs
<1>5. Told(a, t) = IF Satisfied(a.set, w) THEN [k |-> k, set |-> s, info |-> i] ELSE a
  BY DEF Told
<1> HIDE DEF k, s, i, w
<1> QED
  BY <1>2, <1>3, <1>4, <1>5 DEF Delivery

\* the waiters R, of those rt_event_send has looked at, are the ones resumed
Resumed(W, R, a) ==
  /\ Wakes(R, kern, a.k) /\ a.k.cur = kern.cur /\ a.k.error = kern.error
  /\ Thins(kern, a.k)
  /\ \A x \in Thread \ R : a.info[x] = interest[x]
  /\ \A x \in W \ R : ~Satisfied(a.set, interest[x])
  /\ \A x \in R : interest[x].clear => a.info[x].set \cap a.set = {}
  /\ \A x, y \in R : x # y /\ interest[x].clear /\ interest[y].clear
                      => a.info[x].set \cap a.info[y].set = {}

(* The loop of rt_event_send has looked at the threads in W, with outcome   *)
(* a.                                                                       *)
Handled(W, a) == a \in Delivery /\ \E R \in SUBSET W : Resumed(W, R, a)

(* One iteration of rt_event_send: one thread more has been looked at.      *)
LEMMA ToldHandles ==
  ASSUME KInv(kern), interest \in [Thread -> Interest], NEW W \in SUBSET Thread,
         NEW a, Handled(W, a), NEW t \in Thread \ W, kern.stat[t] = "suspend"
  PROVE  Handled(W \cup {t}, Told(a, t))
<1>1. PICK R \in SUBSET W : Resumed(W, R, a)
  BY DEF Handled
<1>2. a \in Delivery /\ a.k \in KernelState /\ a.set \in SUBSET Event
      /\ a.info \in [Thread -> Interest] /\ a.info[t] = interest[t] /\ t \notin R
      /\ Wakes(R, kern, a.k) /\ R \in SUBSET Thread
  BY <1>1 DEF Handled, Delivery, Resumed
<1>3. Told(a, t) \in Delivery
  BY <1>2, ToldType
<1> DEFINE w == interest[t]
           m == Matched(a.set, w)
           b == Told(a, t)
<1>4. CASE Satisfied(a.set, w)
  <2> DEFINE k == Resume(a.k, t)
             s == IF w.clear THEN a.set \ m ELSE a.set
             i == [a.info EXCEPT ![t].set = m]
             S == R \cup {t}
  <2>1. b.k = k /\ b.set = s /\ b.info = i
    BY <1>2, <1>4 DEF Told
  <2>2. a.k.stat[t] = "suspend" /\ KInv(a.k)
    BY <1>2 DEF Wakes
  <2>3. Wakes({t}, a.k, k) /\ k.error = a.k.error /\ k.cur = a.k.cur /\ Thins(a.k, k)
    BY <2>2, ResumeWakes, ResumeThins
  <2>4. Wakes(S, kern, k) /\ {t} \in SUBSET Thread /\ Thins(kern, k)
    <3>1. Thins(kern, a.k)
      BY <1>1 DEF Resumed
    <3> QED
      BY <1>2, <2>3, <3>1, WakesThen, ThinsThen
  <2>5. /\ \A x \in Thread \ {t} : i[x] = a.info[x]
        /\ i[t].set = m
    <3>1. i = [a.info EXCEPT ![t] = [w EXCEPT !.set = m]]
      BY <1>2
    <3> QED
      BY <1>2, <3>1, MatchedIs DEF Interest
  <2>6. s \subseteq a.set /\ m \subseteq a.set /\ (w.clear => s \cap m = {})
    BY DEF Matched
  <2> HIDE DEF k, s, i, m, b
  <2>7. Resumed(W \cup {t}, S, b)
    <3>1. \A x \in Thread \ S : b.info[x] = interest[x]
      BY <1>1, <2>1, <2>5 DEF Resumed
    <3>2. \A x \in (W \cup {t}) \ S : ~Satisfied(b.set, interest[x])
      BY <1>1, <2>1, <2>6, SatisfiedGrows DEF Resumed
    <3>3. \A x \in S : interest[x].clear => b.info[x].set \cap b.set = {}
      <4>1. ASSUME NEW x \in S, interest[x].clear PROVE i[x].set \cap s = {}
        <5>1. CASE x = t
          BY <2>5, <2>6, <4>1, <5>1
        <5>2. CASE x # t
          <6>1. x \in R /\ i[x] = a.info[x] /\ a.info[x].set \cap a.set = {}
            BY <1>1, <1>2, <2>5, <4>1, <5>2 DEF Resumed
          <6> QED
            BY <2>6, <6>1
        <5> QED
          BY <5>1, <5>2
      <4> QED
        BY <2>1, <4>1
    <3>4. \A x, y \in S : x # y /\ interest[x].clear /\ interest[y].clear
                          => b.info[x].set \cap b.info[y].set = {}
      <4>1. ASSUME NEW x \in R, interest[x].clear PROVE i[x].set \cap m = {} /\ i[x] = a.info[x]
        <5>1. i[x] = a.info[x] /\ a.info[x].set \cap a.set = {}
          BY <1>1, <1>2, <2>5, <4>1 DEF Resumed
        <5> QED
          BY <2>6, <5>1
      <4> QED
        BY <1>1, <2>1, <2>5, <4>1 DEF Resumed
    <3> QED
      BY <1>1, <2>1, <2>3, <2>4, <3>1, <3>2, <3>3, <3>4 DEF Resumed
  <2> QED
    BY <1>3, <2>7 DEF Handled, b
<1>5. CASE ~Satisfied(a.set, w)
  <2>1. b = a
    BY <1>2, <1>5 DEF Told
  <2>2. Resumed(W \cup {t}, R, a)
    BY <1>1, <1>5 DEF Resumed
  <2> QED
    BY <1>2, <2>1, <2>2 DEF Handled
<1> QED
  BY <1>4, <1>5

(* The types of the event sets and of what the threads wait for.            *)
EventTyping == events \in [EventSet -> SUBSET Event] /\ interest \in [Thread -> Interest]

(* Event sets are objects with one waiting list.                            *)
LEMMA EventLists == EventSet \subseteq WaitList /\ EventSet \subseteq Object
  BY EventAssumption, IpcAssumption

(* One waiter after the other.                                               *)
LEMMA DeliveredIs ==
  ASSUME KInv(kern), EventTyping, NEW e \in EventSet, NEW s \in SUBSET Event
  PROVE  Handled({x \in Thread : OnWait(kern, e, x)}, Delivered(e, s))
<1> DEFINE w == kern.list[Wait(e)]
           k == [k |-> kern, set |-> events[e] \cup s, info |-> interest]
           S == DOMAIN w
           E(f) == f = [x \in SUBSET S |-> IF x = {} THEN k
                          ELSE Told(f[x \ {Max(x)}], w[Max(x)])]
           F == CHOOSE f : E(f)
<1>1. Delivered(e, s) = F[S]
  BY DEF Delivered, FoldLeft, MapThenFoldSet
<1>2. /\ w \in Seq(Thread) /\ IsInjective(w) /\ k \in Delivery
      /\ S = 1 .. Len(w) /\ Len(w) \in Nat
  <2>1. Wait(e) \in List
    BY ListKeys, EventLists
  <2>2. w \in Seq(Thread) /\ IsInjective(w)
    BY <2>1 DEF KInv, KernelState, Disjoint
  <2>3. k \in Delivery
    BY DEF Delivery, KInv, EventTyping
  <2> HIDE DEF k
  <2> QED
    BY <2>2, <2>3
<1> DEFINE c == [x \in SUBSET S |-> Max(x)]
           G == [a \in S \X Delivery |-> Told(a[2], w[a[1]])]
<1>3. /\ IsFiniteSet(S)
      /\ \A x \in SUBSET S : x # {} => c[x] \in x
      /\ \A x \in S, v \in Delivery : G[<<x, v>>] \in Delivery
  <2> HIDE DEF k
  <2>1. IsFiniteSet(S)
    BY <1>2, FS_Interval
  <2>2. \A x \in SUBSET S : x # {} => c[x] \in x
    BY <1>2, GreatestExists
  <2>3. \A x \in S, v \in Delivery : G[<<x, v>>] \in Delivery
    <3> TAKE x \in S, v \in Delivery
    <3>1. w[x] \in Thread
      BY <1>2
    <3>2. Told(v, w[x]) \in Delivery
      BY <3>1, ToldType
    <3> QED
      BY <3>2
  <2> QED
    BY <2>1, <2>2, <2>3
<1> HIDE DEF k
<1>4. \E f : E(f)
  <2>1. PICK f \in [SUBSET S -> Delivery] : Folds(S, c, G, k, f)
    <3> HIDE DEF S, c, G, w
    <3> QED
      BY <1>2, <1>3, FoldsExist
  <2>2. ASSUME NEW x \in SUBSET S, x # {}
        PROVE  G[<<c[x], f[x \ {c[x]}]>>] = Told(f[x \ {Max(x)}], w[Max(x)])
    <3>1. c[x] = Max(x) /\ c[x] \in S
      BY <1>3, <2>2
    <3>2. f[x \ {c[x]}] \in Delivery
      BY <2>1
    <3> HIDE DEF S, c, w
    <3> QED
      BY <3>1, <3>2
  <2>3. [x \in SUBSET S |-> IF x = {} THEN k ELSE G[<<c[x], f[x \ {c[x]}]>>]]
          = [x \in SUBSET S |-> IF x = {} THEN k ELSE Told(f[x \ {Max(x)}], w[Max(x)])]
    <3> HIDE DEF G, c, S, w
    <3> QED
      BY <2>2
  <2>4. E(f)
    <3> HIDE DEF G, c, S, w
    <3> QED
      BY <2>1, <2>3 DEF Folds
  <2> HIDE DEF E
  <2> QED
    BY <2>4
<1>5. E(F)
  <2> HIDE DEF E
  <2> QED
    BY <1>4
<1> HIDE DEF c, G, F
<1>6. /\ F[1 .. 0] = k
      /\ \A i \in 0 .. Len(w) : i < Len(w) => F[1 .. i + 1] = Told(F[1 .. i], w[i + 1])
  <2>1. F[1 .. 0] = k
    BY <1>5
  <2>2. ASSUME NEW i \in 0 .. Len(w), i < Len(w)
        PROVE  F[1 .. i + 1] = Told(F[1 .. i], w[i + 1])
    <3> DEFINE x == 1 .. i + 1
    <3>1. x \in SUBSET S /\ x # {} /\ Max(x) = i + 1 /\ x \ {i + 1} = 1 .. i
      <4>1. x \in SUBSET S /\ i + 1 \in x
        BY <1>2, <2>2
      <4>2. i \in Nat
        BY <2>2
      <4> QED
        BY <4>1, <4>2, MaxUpTo
    <3> HIDE DEF x, S, w
    <3>2. F[x] = Told(F[x \ {Max(x)}], w[Max(x)])
      BY <1>5, <3>1
    <3> QED
      BY <3>1, <3>2 DEF x
  <2> QED
    BY <2>1, <2>2
<1> HIDE DEF E
<1> DEFINE Upto(i) == {w[j] : j \in 1 .. i}
           Done(i) == Handled(Upto(i), F[1 .. i])
           P == {i \in 0 .. Len(w) : Done(i)}
<1>7. Done(0)
  <2>1. Upto(0) = {}
    OBVIOUS
  <2> HIDE DEF Upto
  <2>2. k.k = kern /\ k.info = interest
    BY DEF k
  <2>3. Wakes({}, kern, k.k) /\ Thins(kern, k.k)
    BY <2>2, WakesNobody, SameThins DEF KInv
  <2>4. Resumed({}, {}, k)
    BY <2>2, <2>3 DEF Resumed
  <2> QED
    BY <1>2, <1>6, <2>1, <2>4 DEF Handled
<1>8. ASSUME NEW i \in 0 .. Len(w), Done(i), i < Len(w) PROVE Done(i + 1)
  <2> DEFINE m == F[1 .. i]
             t == w[i + 1]
  <2>1. /\ t \in Thread \ Upto(i) /\ Upto(i + 1) = Upto(i) \cup {t}
        /\ Upto(i) \in SUBSET Thread
    <3>1. \A j \in 1 .. i : j \in 1 .. Len(w) /\ j # i + 1 /\ i + 1 \in 1 .. Len(w)
      BY <1>2, <1>8
    <3>2. i + 1 \in 1 .. Len(w) /\ (1 .. i + 1) = (1 .. i) \cup {i + 1}
      BY <1>2, <1>8
    <3>3. \A j \in 1 .. i : w[j] # t /\ w[j] \in Thread
      BY <1>2, <3>1 DEF IsInjective
    <3>4. t \in Thread
      BY <1>2, <3>2
    <3> HIDE DEF w
    <3> QED
      BY <3>2, <3>3, <3>4
  <2>2. kern.stat[t] = "suspend"
    <3>1. Contains(w, t)
      BY <1>2, <1>8 DEF Contains
    <3> QED
      BY <2>1, <3>1, EventLists DEF KInv, StatAgrees
  <2>3. F[1 .. i + 1] = Told(m, t)
    BY <1>6, <1>8
  <2>4. Handled(Upto(i), m) /\ interest \in [Thread -> Interest]
    BY <1>8 DEF EventTyping
  <2> HIDE DEF m, t, Upto
  <2>5. Handled(Upto(i) \cup {t}, Told(m, t))
    BY <2>1, <2>2, <2>4, ToldHandles
  <2> QED
    BY <2>1, <2>3, <2>5
<1> HIDE DEF Done
<1>9. Done(Len(w))
  <2>1. 0 \in P /\ P \subseteq 0 .. Len(w)
    BY <1>2, <1>7
  <2>2. \A i \in 0 .. Len(w) : i \in P /\ i < Len(w) => i + 1 \in P
    BY <1>2, <1>8
  <2>3. Len(w) \in P
    <3> HIDE DEF P, w
    <3> QED
      BY <1>2, <2>1, <2>2, InitialSegment
  <2> QED
    BY <2>3
<1>10. Upto(Len(w)) = {x \in Thread : OnWait(kern, e, x)}
  BY <1>2 DEF OnWait, Contains
<1> QED
  <2> HIDE DEF Upto
  <2> QED
    BY <1>1, <1>2, <1>9, <1>10 DEF Done

(* Nobody waits for what his event set already holds.                       *)
NoneSatisfied ==
  \A e \in EventSet, t \in Thread : OnWait(kern, e, t) => ~Satisfied(events[e], interest[t])

(* The part of the invariant that is about event sets.                      *)
EventInv == EventTyping /\ NoneSatisfied

(* The lists of the other objects are quiet.                                *)
QuietEvents == QuietOutside(EventSet)

(* The waiters of a list that is quiet had been there before.                *)
LEMMA StillWaits ==
  ASSUME NEW q, Quiet(q), NEW x \in Thread, OnWait(kern', q, x)
  PROVE  OnWait(kern, q, x)
  BY DEF Quiet, Unmoved

(* Nothing happens to an event object.                                       *)
LEMMA EventsStay ==
  ASSUME EventInv, UNCHANGED eventVars, \A e \in EventSet : Quiet(e)
  PROVE  EventInv'
  BY StillWaits DEF EventInv, EventTyping, NoneSatisfied, eventVars

(* A thread on a waiting list is asleep on it.                              *)
LEMMA WaitersOf ==
  ASSUME IpcInv, NEW x \in Thread, NEW q \in WaitList, OnWait(kern, q, x)
  PROVE  want[x] = q /\ call[x].at \in Asleep
  BY DEF IpcInv, Ipc, Stands

\* the waiters R on e are resumed in kernel state k, the others wait on
LEMMA ResumedMove ==
  ASSUME IpcInv, NEW e \in EventSet, NEW R, R \subseteq {x \in Thread : OnWait(kern, e, x)}
  PROVE  /\ R \in SUBSET Thread
         /\ \A x \in R : <<x, want[x]>> \in R \X {e}
         /\ \A x, w : <<x, w>> \in R \X {e} => w \in {e}
<1>1. \A x \in R : want[x] = e /\ x \in Thread
  BY WaitersOf, EventLists
<1> QED
  BY <1>1

(* Whoever waits after some were woken waited before and is not among them. *)
LEMMA ResumedWait ==
  ASSUME NEW k, NEW R \in SUBSET Thread, Wakes(R, kern, k), NEW q \in WaitList,
         NEW x \in Thread, OnWait(k, q, x)
  PROVE  x \notin R /\ OnWait(kern, q, x)
<1>1. KInv(k)
  BY DEF Wakes
<1>2. x \notin R
  <2>1. ASSUME x \in R PROVE k.stat[x] = "ready"
    BY <2>1 DEF Wakes
  <2> QED
    BY <1>1, <2>1, ReadyWaitsNot
<1> QED
  BY <1>2 DEF Wakes

\* events' and interest' are what a delivery on e leaves
LEMMA DeliveryLeaves ==
  ASSUME EventInv, NEW e \in EventSet, NEW W, W = {x \in Thread : OnWait(kern, e, x)},
         NEW R \in SUBSET W, NEW d \in Delivery, Resumed(W, R, d),
         \A q \in WaitList : \A x \in Thread : OnWait(kern', q, x) => OnWait(d.k, q, x),
         events' = [events EXCEPT ![e] = d.set], interest' = d.info
  PROVE  EventInv'
<1>1. EventTyping'
  BY DEF EventInv, EventTyping, Delivery
<1>2. ASSUME NEW f \in EventSet, NEW x \in Thread, OnWait(kern', f, x)
      PROVE  ~Satisfied(events'[f], interest'[x])
  <2>1. x \notin R /\ OnWait(kern, f, x)
    <3>1. Wakes(R, kern, d.k) /\ R \in SUBSET Thread
      BY DEF Resumed
    <3> QED
      BY <1>2, <3>1, ResumedWait, EventLists
  <2>2. interest'[x] = interest[x]
    BY <2>1 DEF Resumed
  <2>3. CASE f = e
    <3>1. ~Satisfied(d.set, interest[x])
      BY <2>1, <2>3 DEF Resumed
    <3>2. events'[f] = d.set
      BY <2>3 DEF EventInv, EventTyping
    <3> QED
      BY <2>2, <3>1, <3>2
  <2>4. CASE f # e
    <3>1. events'[f] = events[f]
      BY <2>4 DEF EventInv, EventTyping
    <3> QED
      BY <2>1, <2>2, <3>1 DEF EventInv, NoneSatisfied
  <2> QED
    BY <2>3, <2>4
<1> QED
  BY <1>1, <1>2 DEF EventInv, NoneSatisfied

(* A step about one event set leaves the lists of the other objects quiet.  *)
LEMMA OneEventSet ==
  ASSUME NEW e \in EventSet, QuietOutside({e}) PROVE QuietEvents
<1>1. {e} \subseteq EventSet
  OBVIOUS
<1> QED
  BY <1>1, QuietIn DEF QuietEvents

(* rt_event_send by a thread.                                               *)
LEMMA EventSendStep ==
  ASSUME IpcInv, EventInv, NEW t, NEW e \in EventSet, NEW s \in SUBSET Event, EventSend(t, e, s)
  PROVE  IpcInv' /\ EventInv' /\ QuietOutside({e})
<1> SUFFICES ASSUME NEW d, d = Delivered(e, s), NEW W, W = {x \in Thread : OnWait(kern, e, x)}
             PROVE  IpcInv' /\ EventInv' /\ QuietOutside({e})
  OBVIOUS
<1>1. /\ Uses(t, e) /\ ThenSchedule(t, d.k, d.k # kern)
      /\ events' = [events EXCEPT ![e] = d.set] /\ interest' = d.info
  BY DEF EventSend
<1>2. Handled(W, d)
  BY DeliveredIs DEF EventInv, IpcInv, Ipc
<1>3. PICK R \in SUBSET W : Resumed(W, R, d)
  BY <1>2 DEF Handled
<1> DEFINE M == R \X {e}
<1>4. /\ R \in SUBSET Thread
      /\ \A x \in R : <<x, want[x]>> \in M
      /\ \A x, w : <<x, w>> \in M => w \in {e}
  BY ResumedMove
<1> HIDE DEF M
<1>5. /\ Runs(t, "app") /\ t # Idle /\ (ThenSchedule(t, d.k, TRUE) \/ ThenSchedule(t, d.k, FALSE))
      /\ Counts(M, t, "app") /\ kern' = d.k
  BY <1>1, UsesFacts DEF ThenSchedule, Counts
<1>6. IpcInv' /\ Moves(M)
  <2>1. Wakes(R, kern, d.k) /\ d.k.cur = kern.cur /\ d.k.error = kern.error
    BY <1>3 DEF Resumed
  <2>2. /\ \A x \in Thread \ R : d.k.error[x] = kern.error[x]
        /\ \A x \in R : d.k.error[x] = "ok" => <<x, want[x]>> \in M
    BY <1>4, <2>1
  <2>3. ASSUME NEW k, k = d.k PROVE IpcInv' /\ Moves(M)
    <3>1. /\ Wakes(R, kern, k) /\ k.cur = kern.cur
          /\ (ThenSchedule(t, k, TRUE) \/ ThenSchedule(t, k, FALSE))
          /\ \A x \in Thread \ R : k.error[x] = kern.error[x]
          /\ \A x \in R : k.error[x] = "ok" => <<x, want[x]>> \in M
      BY <1>5, <2>1, <2>2, <2>3
    <3> QED
      BY <1>4, <1>5, <3>1, ThenScheduleStep
  <2> QED
    BY <2>3
<1>7. EventInv'
  BY <1>1, <1>2, <1>3, <1>5, DeliveryLeaves DEF Handled
<1>8. QuietOutside({e})
  BY <1>4, <1>6, QuietBut
<1> QED
  BY <1>6, <1>7, <1>8

(* rt_event_send from an interrupt handler.                                 *)
LEMMA EventPostStep ==
  ASSUME IpcInv, EventInv, NEW e \in EventSet, NEW s \in SUBSET Event, EventPost(e, s)
  PROVE  IpcInv' /\ EventInv' /\ QuietOutside({e})
<1> SUFFICES ASSUME NEW d, d = Delivered(e, s), NEW W, W = {x \in Thread : OnWait(kern, e, x)}
             PROVE  IpcInv' /\ EventInv' /\ QuietOutside({e})
  OBVIOUS
<1>1. /\ isr = "none" /\ kern' = IF d.k # kern THEN Schedule(d.k) ELSE kern
      /\ events' = [events EXCEPT ![e] = d.set] /\ interest' = d.info
      /\ UNCHANGED <<call, isr, want, alive, wild>>
  BY DEF EventPost, waitVars
<1>2. Handled(W, d) /\ kern.nest = 0 /\ KInv(kern)
  BY DeliveredIs DEF EventInv, IpcInv, Ipc
<1>3. PICK R \in SUBSET W : Resumed(W, R, d)
  BY <1>2 DEF Handled
<1> DEFINE M == R \X {e}
<1>4. /\ R \in SUBSET Thread
      /\ \A x \in R : <<x, want[x]>> \in M
      /\ \A x, w : <<x, w>> \in M => w \in {e}
  BY ResumedMove
<1> HIDE DEF M
<1>5. /\ Wakes(R, kern, d.k) /\ d.k.cur = kern.cur /\ d.k.error = kern.error
      /\ KInv(d.k) /\ d.k.nest = 0
  BY <1>2, <1>3 DEF Resumed, Wakes
<1>6. /\ Wakes(R, kern, kern') /\ (kern'.cur = kern.cur \/ Queued(kern', kern'.cur))
      /\ kern'.error = kern.error
      /\ \A q \in WaitList : \A x \in Thread : OnWait(kern', q, x) => OnWait(d.k, q, x)
  <2>1. CASE d.k = kern
    BY <1>1, <1>5, <2>1
  <2>2. CASE d.k # kern
    <3> DEFINE r == Schedule(d.k)
    <3>1. kern' = r
      BY <1>1, <2>2
    <3>2. Wakes({}, d.k, r) /\ r.error = d.k.error /\ r.list = d.k.list /\ Queued(r, r.cur)
      BY <1>5, ScheduleWakes
    <3> HIDE DEF r
    <3>3. Wakes(R \cup {}, kern, r)
      <4>1. {} \in SUBSET Thread
        OBVIOUS
      <4> QED
        BY <1>4, <1>5, <3>2, <4>1, WakesThen
    <3>4. R \cup {} = R
      OBVIOUS
    <3> QED
      BY <1>5, <3>1, <3>2, <3>3, <3>4 DEF OnWait
  <2> QED
    BY <2>1, <2>2
<1>7. IpcInv' /\ Moves(M)
  <2>1. /\ \A x \in Thread \ R : kern'.error[x] = kern.error[x] \/ call[x].at \notin Asleep
        /\ \A x \in R : kern'.error[x] = "ok" => <<x, want[x]>> \in M
        /\ UNCHANGED <<call, want>> /\ isr' \in {"none", "timers"}
        /\ alive' \subseteq alive /\ wild' \in BOOLEAN
    BY <1>1, <1>4, <1>6 DEF IpcInv
  <2> QED
    BY <1>4, <1>6, <2>1, StaysStep
<1>8. EventInv'
  BY <1>1, <1>2, <1>3, <1>6, DeliveryLeaves DEF Handled
<1>9. QuietOutside({e})
  BY <1>4, <1>7, QuietBut
<1> QED
  BY <1>7, <1>8, <1>9

(* A step that moves nobody is quiet for every event set.                   *)
LEMMA QuietEverywhere ==
  ASSUME Moves({}) PROVE QuietEvents /\ \A e \in EventSet : Quiet(e)
  BY QuietAll, EventLists DEF QuietOutside, QuietEvents

(* rt_event_recv that finds its events in the set.                          *)
LEMMA EventNowStep ==
  ASSUME IpcInv, EventInv, NEW t, NEW e \in EventSet, NEW w \in Interest, EventNow(t, e, w)
  PROVE  IpcInv' /\ EventInv' /\ QuietEvents
<1>1. IpcInv' /\ Moves({})
  BY ErrorStep DEF EventNow, Error
<1>2. EventTyping' /\ interest' = interest /\ \A f \in EventSet : events'[f] \subseteq events[f]
  BY DEF EventNow, EventInv, EventTyping
<1>3. NoneSatisfied'
  <2>1. ASSUME NEW f \in EventSet, NEW x \in Thread, OnWait(kern', f, x)
        PROVE  ~Satisfied(events'[f], interest'[x])
    <3>1. ~Satisfied(events[f], interest[x])
      BY <1>1, <2>1, QuietEverywhere, StillWaits DEF EventInv, NoneSatisfied
    <3> QED
      BY <1>2, <3>1, SatisfiedGrows
  <2> QED
    BY <2>1 DEF NoneSatisfied
<1> QED
  BY <1>1, <1>2, <1>3, QuietEverywhere DEF EventInv

(* rt_event_recv that finds nothing and must not wait.                      *)
LEMMA EventRefusedStep ==
  ASSUME IpcInv, EventInv, NEW t, NEW e \in EventSet, NEW w, EventRefused(t, e, w)
  PROVE  IpcInv' /\ EventInv' /\ QuietEvents
<1>1. IpcInv' /\ Moves({})
  BY ErrorStep DEF EventRefused, Error
<1> QED
  BY <1>1, QuietEverywhere, EventsStay DEF EventRefused

(* rt_event_recv that goes to sleep.                                        *)
LEMMA EventWaitStep ==
  ASSUME IpcInv, EventInv, NEW t, NEW e \in EventSet, NEW w \in Interest, NEW n \in WaitTime,
         EventWait(t, e, w, n)
  PROVE  IpcInv' /\ EventInv' /\ QuietOutside({e})
<1>1. Uses(t, e) /\ ~Satisfied(events[e], w) /\ WaitOn(kern, t, e, n) /\ n \in Nat
      /\ interest' = [interest EXCEPT ![t] = w] /\ events' = events /\ t \in Thread
  BY UsesFacts, TimesAreNat DEF EventWait
<1>2. IpcInv' /\ Moves({<<t, e>>})
  BY <1>1, AlikeSelf, WaitsStep, EventLists DEF Alike
<1>3. QuietOutside({e})
  <2>1. \A x, q : <<x, q>> \in {<<t, e>>} => q \in {e}
    OBVIOUS
  <2> QED
    BY <1>2, <2>1, QuietBut
<1>4. EventTyping'
  BY <1>1 DEF EventInv, EventTyping
<1>5. ASSUME NEW f \in EventSet, NEW x \in Thread, OnWait(kern', f, x)
      PROVE  ~Satisfied(events'[f], interest'[x])
  <2>1. CASE x = t
    <3>1. want'[t] = f /\ want'[t] = e
      <4>1. want'[t] = f
        BY <1>2, <1>5, <2>1, EventLists DEF IpcInv, Ipc, Stands
      <4>2. want'[t] = e
        BY <1>1 DEF WaitOn, IpcInv, Ipc
      <4> QED
        BY <4>1, <4>2
    <3> QED
      BY <1>1, <2>1, <3>1 DEF EventInv, EventTyping
  <2>2. CASE x # t
    <3>1. Unmoved(kern, call, want, kern', call', want', x, f)
      BY <1>2, <2>2, EventLists DEF Moves, Same
    <3>2. OnWait(kern, f, x)
      BY <1>5, <3>1 DEF Unmoved
    <3> QED
      BY <1>1, <2>2, <3>2 DEF EventInv, EventTyping, NoneSatisfied
  <2> QED
    BY <2>1, <2>2
<1> QED
  BY <1>2, <1>3, <1>4, <1>5 DEF EventInv, NoneSatisfied

(* rt_event_recv returns from its sleep.                                    *)
LEMMA EventReturnStep ==
  ASSUME IpcInv, EventInv, NEW t, EventReturn(t)
  PROVE  IpcInv' /\ EventInv' /\ QuietEvents
<1> SUFFICES ASSUME NEW q, q = want[t]
             PROVE  IpcInv' /\ EventInv' /\ QuietEvents
  OBVIOUS
<1>1. /\ Woken(t) /\ Runs(t, "woken") /\ WaitOver(t) /\ kern' = kern /\ q \in EventSet
      /\ events' = events /\ interest' = [interest EXCEPT ![t] = NoInterest]
  BY DEF EventReturn, Woken
<1>2. IpcInv' /\ Moves({<<t, q>>}) /\ t \in Thread
  BY <1>1, ReturnsStep
<1>3. QuietEvents
  <2>1. \A x, w : <<x, w>> \in {<<t, q>>} => w \in EventSet
    BY <1>1
  <2> QED
    BY <1>2, <2>1, QuietBut DEF QuietEvents
<1>4. EventTyping'
  BY <1>1 DEF EventInv, EventTyping, NoInterest, Interest
<1>5. \A f \in EventSet : ~OnWait(kern, f, t)
  BY <1>1, RunsFacts, EventLists
<1>6. NoneSatisfied'
  BY <1>1, <1>5 DEF EventInv, EventTyping, NoneSatisfied
<1> QED
  BY <1>2, <1>3, <1>4, <1>6 DEF EventInv

(* rt_event_control(RESET).                                                 *)
LEMMA EventResetStep ==
  ASSUME IpcInv, EventInv, NEW t, NEW e \in EventSet, EventReset(t, e)
  PROVE  IpcInv' /\ EventInv' /\ QuietEvents
<1>1. /\ Uses(t, e) /\ ThenSchedule(t, ResumeAll(kern, e), TRUE) /\ interest' = interest
      /\ events' = [events EXCEPT ![e] = {}]
  BY DEF EventReset
<1>2. IpcInv' /\ Moves({}) /\ ~Waiting(kern', e)
  BY <1>1, ResetOneStep
<1>3. EventTyping'
  BY <1>1 DEF EventInv, EventTyping
<1>4. ASSUME NEW f \in EventSet, NEW x \in Thread, OnWait(kern', f, x)
      PROVE  ~Satisfied(events'[f], interest'[x])
  <2>1. f # e
    <3>1. KInv(kern')
      BY <1>2 DEF IpcInv, Ipc
    <3>2. Waiting(kern', e) <=> \E y \in Thread : OnWait(kern', e, y)
      BY <3>1, FirstWaiter, EventLists
    <3> QED
      BY <1>2, <1>4, <3>2
  <2>2. OnWait(kern, f, x)
    BY <1>2, <1>4, QuietEverywhere, StillWaits
  <2> QED
    BY <1>1, <2>1, <2>2 DEF EventInv, EventTyping, NoneSatisfied
<1> QED
  BY <1>2, <1>3, <1>4, QuietEverywhere DEF EventInv, NoneSatisfied

(* Every step of an event set keeps its part of the invariant and leaves    *)
(* the lists of the other objects quiet.                                    *)
LEMMA EventStepMoves ==
  ASSUME IpcInv, EventInv, EventStep
  PROVE  IpcInv' /\ EventInv' /\ QuietEvents
<1>1. ASSUME NEW t \in Thread, EventCall(t) PROVE IpcInv' /\ EventInv' /\ QuietEvents
  <2>1. PICK e \in EventSet :
          \/ \E s \in SUBSET Event \ {{}} : EventSend(t, e, s)
          \/ \E w \in {i \in Interest : i.set # {}} :
               \/ EventNow(t, e, w) \/ EventRefused(t, e, w)
               \/ \E n \in WaitTime : EventWait(t, e, w, n)
          \/ EventReset(t, e)
          \/ (DeleteBegin(t, e) /\ UNCHANGED eventVars)
    BY <1>1 DEF EventCall
  <2>2. CASE DeleteBegin(t, e) /\ UNCHANGED eventVars
    BY <2>2, DeleteBeginStep, QuietEverywhere, EventsStay
  <2> QED
    BY <2>1, <2>2, OneEventSet, EventSendStep, EventNowStep, EventRefusedStep, EventWaitStep, EventResetStep
<1>2. ASSUME NEW t \in Thread, EventReturn(t) PROVE IpcInv' /\ EventInv' /\ QuietEvents
  BY <1>2, EventReturnStep
<1>3. CASE EventHandler
  BY <1>3, EventPostStep, OneEventSet DEF EventHandler
<1> QED
  BY <1>1, <1>2, <1>3 DEF EventStep

(* A step about other objects.                                               *)
LEMMA EventsKept ==
  ASSUME EventInv, UNCHANGED eventVars, NEW S, QuietOutside(S), S \cap EventSet = {}
  PROVE  EventInv'
<1>1. \A e \in EventSet : Quiet(e)
  BY EventLists DEF QuietOutside
<1> QED
  BY <1>1, EventsStay

-----------------------------------------------------------------------------
(* The invariant of all objects together *)

(* The inductive invariant of the composed objects.                         *)
ObjInv == IpcInv /\ MutexInv /\ MailInv /\ NoSleep /\ EventInv

(* The state in which the application starts: every thread is in the        *)
(* application and every waiting list is empty.                             *)
LEMMA NobodyMoving ==
  ASSUME IpcIdle(Users[alive]), alive \in Worlds
  PROVE  /\ IpcInv
         /\ \A q \in WaitList : ~Waiting(kern, q)
         /\ \A t \in Thread : /\ call[t].at = "app" /\ want[t] = None
                              /\ \A q \in WaitList : ~OnWait(kern, q, t)
PROOF
<1>1. Users[alive] \in SUBSET Thread /\ IsFiniteSet(Users[alive]) /\ Idle \in Users[alive]
      /\ alive \subseteq Object
  BY ObjectsAssumption, FS_Subset
<1> DEFINE S == Users[alive]
<1>2. /\ KInv(kern) /\ kern.nest = 0 /\ kern.slice = InitTick
      /\ Queued(kern, kern.cur)
      /\ \A x \in Thread : /\ kern.stat[x] \in {"init", "ready"} /\ kern.error[x] = "ok"
                           /\ kern.stat[x] = "ready" => Queued(kern, x)
                           /\ \A q \in WaitList : ~OnWait(kern, q, x)
  <2>1. kern = Up(S)  BY DEF IpcIdle
  <2>2. S \in SUBSET Thread /\ IsFiniteSet(S) /\ Idle \in S  BY <1>1
  <2> HIDE DEF S
  <2> QED BY <2>1, <2>2, UpInv
<1>3. \A t \in Thread : kern.slice[t] > 0  BY <1>2, TickAssumption
<1>4. /\ call = [t \in Thread |-> InApp] /\ want = [t \in Thread |-> None]
      /\ isr = "none" /\ wild = FALSE
  BY DEF IpcIdle
<1>5. InApp = [at |-> "app", on |-> Idle]  BY DEF InApp, To
<1>6. call \in ObjCalls /\ want \in [Thread -> WaitList \cup {None}]
  BY <1>4, <1>5 DEF ObjCalls, ObjPlace
<1>7. \A t \in Thread : call[t].at = "app" /\ want[t] = None  BY <1>4, <1>5
<1>8. \A t \in Thread : Stands(kern, call, want, t)
  BY <1>2, <1>7 DEF Stands, Inside, Asleep
<1>9. call[Idle].at = "app"  BY <1>7, ThreadAssumption
<1>10. Ipc(kern, call, want)
  BY <1>2, <1>3, <1>6, <1>8, <1>9 DEF Ipc
<1>11. IpcInv  BY <1>1, <1>4, <1>10 DEF IpcInv
<1>12. \A q \in WaitList : ~Waiting(kern, q)
  BY <1>2, FirstWaiter
<1> QED BY <1>2, <1>7, <1>11, <1>12

(* A message queue as rt_mq_init leaves it: every block is on the free      *)
(* list.                                                                    *)
LEMMA EmptyQueueIs ==
  ASSUME NEW f
  PROVE  EmptyQueue \in QueueRec /\ Blocks(EmptyQueue, {}, f) /\ EmptyQueue.entry = 0
PROOF
<1>1. Size \in Nat \ {0}  BY MailAssumption
<1> DEFINE w == [i \in Message |-> Size + 1 - i]
           x == [b \in Message |-> None]
<1>2. w \in Seq(Message) /\ Len(w) = Size
  <2>1. \A i \in 1 .. Size : Size + 1 - i \in 1 .. Size  BY <1>1
  <2>2. w \in [1 .. Size -> Message]  BY <2>1 DEF Message
  <2> QED BY <1>1, <2>2
<1>3. x \in [Message -> Mail \cup {None}]  OBVIOUS
<1>4. IsInjective(w)
  BY <1>1 DEF IsInjective, Message
<1>5. \A b \in Message : Contains(w, b)
  <2> SUFFICES ASSUME NEW b \in Message PROVE Contains(w, b)  OBVIOUS
  <2>1. Size + 1 - b \in 1 .. Size /\ w[Size + 1 - b] = b  BY <1>1 DEF Message
  <2> QED BY <1>2, <2>1 DEF Contains
<1>6. EmptyQueue = [free |-> w, queue |-> << >>, entry |-> 0, text |-> x]  BY DEF EmptyQueue
<1> HIDE DEF w, x
<1>7. EmptyQueue \in QueueRec /\ EmptyQueue.entry = 0  BY <1>2, <1>3, <1>6 DEF QueueRec
<1>8. EmptyQueue.free = w /\ EmptyQueue.queue = << >>  BY <1>6
<1>9. IsFiniteSet({}) /\ Cardinality({}) = 0  BY FS_EmptySet
<1>10. \A b : ~Contains(<< >>, b)  BY DEF Contains
<1>11. IsInjective(<< >>)  BY DEF IsInjective
<1>12. Len(w) + Len(<< >>) + Cardinality({}) = Size  BY <1>1, <1>2, <1>9
<1>13. EmptyQueue.entry = Len(EmptyQueue.queue)  BY <1>7, <1>8
<1> QED BY <1>1, <1>4, <1>7, <1>8, <1>9, <1>10, <1>11, <1>12, <1>13 DEF Blocks

(* The invariant holds at first.                                            *)
LEMMA ObjectsInitInv ==
  ObjectsInit => ObjInv
PROOF
<1> SUFFICES ASSUME ObjectsInit PROVE ObjInv  OBVIOUS
<1>1. /\ IpcInv
      /\ \A q \in WaitList : ~Waiting(kern, q)
      /\ \A t \in Thread : /\ call[t].at = "app" /\ want[t] = None
                           /\ \A q \in WaitList : ~OnWait(kern, q, t)
  BY NobodyMoving DEF ObjectsInit
<1>2. MutexInv
  <2>1. mutex = [m \in Mutex |-> Unowned]  BY DEF ObjectsInit, MutexInit
  <2>2. mutex \in [Mutex -> MutexState] /\ \A m \in Mutex : MutexFields(mutex[m])
    BY <2>1, UnownedIs
  <2>3. \A m \in Mutex : m \in WaitList  BY MutexAssumption, IpcAssumption
  <2>4. \A m \in Mutex : MutexWaiters(m)
    BY <1>1, <2>3 DEF MutexWaiters, ServedAt, ServedIn, Asleep
  <2> QED BY <2>2, <2>4 DEF MutexInv
<1>3. box = [m \in Mailbox |-> EmptyBox] /\ mq = [q \in Queue |-> EmptyQueue]
      /\ job = [t \in Thread |-> NoJob]
  BY DEF ObjectsInit, MailEmpty
<1>4. \A q : Holders(q) = {}
  BY <1>1 DEF Holders, InHands, Hands
<1>5. JobInv
  BY <1>1, <1>3, NoJobIs DEF JobInv, InHands, Hands
<1>6. BoxInv  BY <1>3, EmptyBoxIs DEF BoxInv
<1>7. QueueInv  BY <1>3, <1>4, EmptyQueueIs DEF QueueInv
<1>8. NoSleep
  BY <1>1, MailLists DEF NoSleep, Enough
<1>9. EventInv
  <2>1. events = [e \in EventSet |-> {}] /\ interest = [t \in Thread |-> NoInterest]
    BY DEF ObjectsInit, NoEvents
  <2>2. NoInterest \in Interest  BY DEF NoInterest, Interest
  <2>3. EventTyping  BY <2>1, <2>2 DEF EventTyping
  <2>4. \A e \in EventSet : e \in WaitList  BY EventAssumption, IpcAssumption
  <2> QED BY <1>1, <2>3, <2>4 DEF EventInv, NoneSatisfied
<1> QED BY <1>1, <1>2, <1>5, <1>6, <1>7, <1>8, <1>9 DEF ObjInv, MailInv

(* The waiting lists of the kinds of objects are different ones.            *)
LEMMA KindsApart ==
  /\ Semaphore \cap Mutex = {} /\ Semaphore \cap EventSet = {} /\ Mutex \cap EventSet = {}
  /\ MailList \cap Semaphore = {} /\ MailList \cap Mutex = {} /\ MailList \cap EventSet = {}
PROOF
<1>1. Semaphore \subseteq Object /\ Mutex \subseteq Object /\ EventSet \subseteq Object
  BY SemAssumption, MutexAssumption, EventAssumption
<1>2. \A x \in MailList : x \in Mailbox \cup Queue \/ x \notin Object
  BY MailLists DEF MailList
<1> QED BY <1>1, <1>2, KindAssumption

(* An object that was deleted stays deleted, and no thread takes a block or *)
(* gives one back.                                                          *)
LEMMA AliveShrinks ==
  ASSUME IpcInv, NEW S, (InsideKept /\ alive' = alive) \/ Deletes(S)
  PROVE  HandsKept /\ alive' \subseteq alive
PROOF
<1>1. CASE InsideKept /\ alive' = alive  BY <1>1, InsideHands
<1>2. CASE Deletes(S)
  <2>1. HandsKept  BY <1>2, DeletesKeep
  <2>2. PICK t \in Thread, o \in S : DeleteBegin(t, o)  BY <1>2 DEF Deletes
  <2> QED BY <2>1, <2>2 DEF DeleteBegin
<1> QED BY <1>1, <1>2

(* A step of a mailbox or a message queue deletes nothing unless it is      *)
(* rt_mb_delete or rt_mq_delete.                                            *)
LEMMA MailShape ==
  ASSUME MailStep
  PROVE  alive' = alive \/ \E t \in Thread, o \in Mailbox \cup Queue : MailDelete(t, o)
PROOF
<1>1. CASE \E t \in Thread : MailCall(t)
  <2>1. PICK t \in Thread : MailCall(t)  BY <1>1
  <2>2. CASE \E o \in Mailbox \cup Queue : MailDelete(t, o)  BY <2>2
  <2>3. CASE \E m \in Mailbox, n \in WaitTime, v \in Mail : BoxSend(t, m, v, n)
    BY <2>3 DEF BoxSend, Sent, ThenSchedule, WaitMail, WaitOn
  <2>4. CASE \E m \in Mailbox, n \in WaitTime : BoxReceive(t, m, n)
    BY <2>4 DEF BoxReceive, Received, ThenSchedule, WaitMail, WaitOn
  <2>5. CASE \E m \in Mailbox : BoxReset(t, m)
    BY <2>5 DEF BoxReset, ThenSchedule
  <2>6. CASE \E q \in Queue, v \in Mail : QueueSend(t, q, v)
    BY <2>6 DEF QueueSend
  <2>7. CASE \E q \in Queue, n \in WaitTime : QueueReceive(t, q, n)
    BY <2>7 DEF QueueReceive, Fetch, WaitMail, WaitOn
  <2>8. CASE \E q \in Queue : QueueReset(t, q)
    BY <2>8 DEF QueueReset, ThenSchedule
  <2> QED BY <2>1, <2>2, <2>3, <2>4, <2>5, <2>6, <2>7, <2>8 DEF MailCall
<1>2. CASE \E t \in Thread : MailInside(t)
  <2>1. PICK t \in Thread : MailInside(t)  BY <1>2
  <2>2. CASE WaitFailed(t)  BY <2>2 DEF WaitFailed, WaitOver
  <2>3. CASE \E m \in Mailbox : BoxSendAgain(t, m)
    BY <2>3 DEF BoxSendAgain, Sent, ThenSchedule, WaitMail, WaitOn, Exhausted, WaitOver
  <2>4. CASE \E m \in Mailbox : BoxReceiveAgain(t, m)
    BY <2>4 DEF BoxReceiveAgain, Received, ThenSchedule, WaitMail, WaitOn, Exhausted, WaitOver
  <2>5. CASE \E q \in Queue : QueueLink(t, q)
    BY <2>5 DEF QueueLink, ThenSchedule
  <2>6. CASE \E q \in Queue : QueueRead(t, q)
    BY <2>6 DEF QueueRead
  <2>7. CASE \E q \in Queue : QueueReceiveAgain(t, q)
    BY <2>7 DEF QueueReceiveAgain, Fetch, WaitMail, WaitOn, Exhausted, WaitOver
  <2> QED BY <2>1, <2>2, <2>3, <2>4, <2>5, <2>6, <2>7 DEF MailInside
<1>3. CASE MailHandler
  BY <1>3 DEF MailHandler, BoxPost, QueuePost, InHandler, waitVars
<1>4. CASE MailTick
  BY <1>4 DEF MailTick, IpcTick, waitVars
<1> QED BY <1>1, <1>2, <1>3, <1>4 DEF MailStep

(* Every step keeps the invariant: the step of one kind of object by its    *)
(* own lemma, the other kinds because their lists are quiet.                *)
LEMMA ObjectsNextInv ==
  ASSUME ObjInv, ObjectsNext
  PROVE  ObjInv'
PROOF
<1> USE DEF ObjInv
<1>1. CASE SemStep
  <2>1. IpcInv' /\ QuietOutside(Semaphore)  BY <1>1, SemStepMoves
  <2>2. HandsKept /\ alive' \subseteq alive  BY <1>1, SemShape, AliveShrinks
  <2>3. UNCHANGED <<mutex, mailVars, eventVars>>  BY <1>1 DEF SemStep
  <2>4. \A m \in Mutex : Quiet(m)
    BY <2>1, KindsApart, MutexAssumption, IpcAssumption DEF QuietOutside
  <2>5. MutexInv'  BY <2>1, <2>2, <2>3, <2>4, MutexStays
  <2>6. MailInv' /\ NoSleep'  BY <2>1, <2>2, <2>3, KindsApart, MailStays
  <2>7. EventInv'  BY <2>1, <2>3, KindsApart, EventsKept
  <2> QED BY <2>1, <2>5, <2>6, <2>7
<1>2. CASE MutexStep
  <2>1. IpcInv' /\ MutexInv' /\ QuietOutside(Mutex)  BY <1>2, MutexStepMoves
  <2>2. HandsKept /\ alive' \subseteq alive  BY <1>2, MutexShape, AliveShrinks
  <2>3. UNCHANGED <<mailVars, eventVars>>  BY <1>2 DEF MutexStep
  <2>6. MailInv' /\ NoSleep'  BY <2>1, <2>2, <2>3, KindsApart, MailStays
  <2>7. EventInv'  BY <2>1, <2>3, KindsApart, EventsKept
  <2> QED BY <2>1, <2>6, <2>7
<1>3. CASE MailStep
  <2>1. IpcInv' /\ MailInv' /\ NoSleep' /\ QuietOutside(MailList)  BY <1>3, MailStepMoves
  <2>3. UNCHANGED <<mutex, eventVars>>  BY <1>3 DEF MailStep
  <2>4. \A m \in Mutex : Quiet(m)
    BY <2>1, KindsApart, MutexAssumption, IpcAssumption DEF QuietOutside
  <2>2. alive' \subseteq alive
    BY <1>3, MailShape DEF MailDelete, DeleteBegin
  <2>5. MutexInv'  BY <2>1, <2>2, <2>3, <2>4, MutexStays
  <2>7. EventInv'  BY <2>1, <2>3, KindsApart, EventsKept
  <2> QED BY <2>1, <2>5, <2>7
<1>4. CASE EventStep
  <2>1. IpcInv' /\ EventInv' /\ QuietEvents  BY <1>4, EventStepMoves
  <2>2. HandsKept /\ alive' \subseteq alive  BY <1>4, EventShape, AliveShrinks
  <2>3. UNCHANGED <<mutex, mailVars>>  BY <1>4 DEF EventStep
  <2>4. QuietOutside(EventSet)  BY <2>1 DEF QuietEvents
  <2>5. \A m \in Mutex : Quiet(m)
    BY <2>4, KindsApart, MutexAssumption, IpcAssumption DEF QuietOutside
  <2>6. MutexInv'  BY <2>1, <2>2, <2>3, <2>5, MutexStays
  <2>7. MailInv' /\ NoSleep'  BY <2>1, <2>2, <2>3, <2>4, KindsApart, MailStays
  <2> QED BY <2>1, <2>6, <2>7
<1>5. CASE ThreadsStep
  <2>1. IpcInv' /\ Moves({})  BY <1>5, ThreadsStepMoves
  <2>2. HandsKept /\ alive' = alive  BY <1>5, ThreadsShape
  <2>3. UNCHANGED <<mutex, mailVars, eventVars>>  BY <1>5 DEF ThreadsStep
  <2> DEFINE none == {}
  <2>4. QuietOutside(none)  BY <2>1, NobodyMoves DEF QuietOutside
  <2>5. none \cap MailList = {} /\ none \cap EventSet = {}  OBVIOUS
  <2> HIDE DEF none
  <2>6. \A m \in Mutex : Quiet(m)
    BY <2>1, NobodyMoves, MutexAssumption, IpcAssumption
  <2>7. MutexInv'  BY <2>1, <2>2, <2>3, <2>6, MutexStays
  <2>8. MailInv' /\ NoSleep'  BY <2>1, <2>2, <2>3, <2>4, <2>5, MailStays
  <2>9. EventInv'  BY <2>3, <2>4, <2>5, EventsKept
  <2> QED BY <2>1, <2>7, <2>8, <2>9
<1> QED BY <1>1, <1>2, <1>3, <1>4, <1>5 DEF ObjectsNext

(* A stuttering step keeps the invariant.                                   *)
LEMMA ObjectsIdleInv ==
  ASSUME ObjInv, UNCHANGED objectVars
  PROVE  ObjInv'
PROOF
<1>1. UNCHANGED <<ipcVars, semVars, mutex, mailVars, eventVars>>  BY DEF objectVars
<1>2. UNCHANGED <<kern, call, isr, want, alive, wild>>  BY <1>1 DEF ipcVars, waitVars
<1>3. IpcInv' /\ Moves({})  BY <1>1, IdleStep DEF ObjInv
<1>4. HandsKept  BY <1>2 DEF HandsKept
<1> DEFINE none == {}
<1>5. QuietOutside(none)  BY <1>3, NobodyMoves DEF QuietOutside
<1>6. none \cap MailList = {} /\ none \cap EventSet = {}  OBVIOUS
<1> HIDE DEF none
<1>7. \A m \in Mutex : Quiet(m)
  BY <1>3, NobodyMoves, MutexAssumption, IpcAssumption
<1>8. MutexInv'  BY <1>1, <1>2, <1>3, <1>7, MutexStays DEF ObjInv
<1>9. MailInv' /\ NoSleep'  BY <1>1, <1>3, <1>4, <1>5, <1>6, MailStays DEF ObjInv
<1>10. EventInv'  BY <1>1, <1>5, <1>6, EventsKept DEF ObjInv
<1> QED BY <1>3, <1>8, <1>9, <1>10 DEF ObjInv

(* In every behaviour of the composed objects (ipc.c) the kernel, the calls *)
(* and waits of the threads, the mutexes, the mail and the event sets agree *)
(* with each other.                                                         *)
THEOREM ObjectsInvariant == ObjectsSpec => []ObjInv
PROOF
<1>1. ObjectsInit => ObjInv  BY ObjectsInitInv
<1>2. ObjInv /\ [ObjectsNext]_objectVars => ObjInv'  BY ObjectsNextInv, ObjectsIdleInv
<1> QED BY <1>1, <1>2, PTL DEF ObjectsSpec

(* IpcInv includes the types of the shared variables.                       *)
LEMMA IpcTyped ==
  IpcInv => IpcTypeOK
PROOF
<1>1. ObjPlace \subseteq IpcPlace
  BY DEF ObjPlace, IpcPlace, Place, Asleep, Inside
<1>2. ObjCalls \subseteq [Thread -> [at : IpcPlace, on : Thread]]
  BY <1>1, ThreadAssumption DEF ObjCalls
<1>3. KInv(kern) => kern \in KernelState  BY DEF KInv, KLists
<1> QED BY <1>2, <1>3 DEF IpcInv, Ipc, IpcTypeOK

(* OneOwner follows from the invariant.                                     *)
LEMMA OneOwnerHolds ==
  IpcInv /\ MutexInv => OneOwner
PROOF
<1> SUFFICES ASSUME IpcInv, MutexInv PROVE OneOwner  OBVIOUS
<1>1. MutexTypeOK  BY IpcTyped DEF MutexTypeOK, MutexInv
<1>2. \A m \in Mutex : MutexFields(mutex[m]) /\ (m \in alive => MutexWaiters(m))
  BY DEF MutexInv
<1>3. \A t \in Thread, m \in Mutex \cap alive : Served(t, m) => mutex[m].owner = t
  BY <1>2, ServedIs DEF MutexWaiters
<1>4. ASSUME NEW m \in Mutex
      PROVE  /\ mutex[m].value = 1 <=> mutex[m].owner = None
             /\ mutex[m].value = 1 <=> mutex[m].hold = 0
             /\ mutex[m].value = 1 <=> mutex[m].original = NoPrio
             /\ m \in alive /\ Waiting(kern, m) =>
                  mutex[m].owner # None /\ ~Contains(kern.list[Wait(m)], mutex[m].owner)
  BY <1>2 DEF MutexFields, MutexWaiters, OnWait
<1> QED BY <1>1, <1>3, <1>4 DEF OneOwner

(* NoSleepBesideMail follows from the invariant.                            *)
LEMMA NoSleepHolds ==
  NoSleep => NoSleepBesideMail
PROOF
<1> SUFFICES ASSUME NoSleep PROVE NoSleepBesideMail  OBVIOUS
<1>1. \A w : {t \in Thread : Served(t, w)} = Coming(w)
  BY ServedIs DEF Coming
<1>2. \A w : Cardinality({t \in Thread : Served(t, w)}) = Many(w)
  BY <1>1 DEF Many
<1> QED BY <1>2 DEF NoSleep, Enough, NoSleepBesideMail

(* NobodySleepsOverEvents follows from the invariant.                       *)
LEMMA EventsHold ==
  IpcInv /\ EventInv => NobodySleepsOverEvents
PROOF
<1>1. EventTyping => events \in [EventSet -> SUBSET Event] /\ interest \in [Thread -> Interest]
  BY DEF EventTyping
<1> QED BY <1>1, IpcTyped DEF EventInv, EventTypeOK, NoneSatisfied, NobodySleepsOverEvents, OnWait

(* The blocks of a queue are Size in number, so none of its lists is        *)
(* longer.                                                                  *)
LEMMA QueueTyped ==
  ASSUME NEW r, NEW H, NEW f, Blocks(r, H, f)
  PROVE  r \in QueueState /\ r.entry \in 0 .. Size
PROOF
<1>1. r \in QueueRec /\ r.entry = Len(r.queue)
      /\ Len(r.free) + Len(r.queue) + Cardinality(H) = Size /\ Cardinality(H) \in Nat
  BY DEF Blocks
<1>2. r.free \in Seq(Message) /\ r.queue \in Seq(Message) /\ r.entry \in Nat
      /\ Len(r.free) \in Nat /\ Len(r.queue) \in Nat
  BY <1>1, QueueFields
<1> DEFINE a == Len(r.free)
           b == Len(r.queue)
           c == Cardinality(H)
<1>3. a \in Nat /\ b \in Nat /\ c \in Nat /\ a + b + c = Size /\ r.entry = b  BY <1>1, <1>2
<1>4. r.entry \in 0 .. Size
  <2> HIDE DEF a, b, c
  <2> QED BY <1>3, MailAssumption
<1> QED BY <1>1, <1>4 DEF QueueRec, QueueState

(* BlocksConserved follows from the invariant.                              *)
LEMMA BlocksHold ==
  IpcInv /\ MailInv => BlocksConserved
PROOF
<1> SUFFICES ASSUME IpcInv, MailInv PROVE BlocksConserved  OBVIOUS
<1>1. \A q \in Queue : Blocks(mq[q], Holders(q), InHand)  BY DEF MailInv, QueueInv
<1>2. MailTypeOK
  <2>1. \A q \in Queue : mq[q] \in QueueState  BY <1>1, QueueTyped
  <2>2. mq \in [Queue -> QueueState]  BY <2>1 DEF MailInv, QueueInv
  <2> QED BY <2>2, IpcTyped DEF MailTypeOK, MailInv, JobInv, BoxInv
<1>3. \A t \in Thread : IF InHands(t) THEN want[t] \in Queue /\ job[t].block \in Message
                                      ELSE job[t].block = NoMessage
  BY DEF MailInv, JobInv
<1>4. NoMessage \notin Message  BY DEF NoMessage, Message
<1>5. ASSUME NEW q \in Queue
      PROVE  LET holders == {t \in Thread : want[t] = q /\ job[t].block # NoMessage}
                 all == mq[q].free \o mq[q].queue
             IN /\ IsInjective(all) /\ mq[q].entry = Len(mq[q].queue)
                /\ \A t \in holders : ~Contains(all, job[t].block)
                /\ Len(all) + Cardinality(holders) = Size
  <2> DEFINE holders == {t \in Thread : want[t] = q /\ job[t].block # NoMessage}
             all == mq[q].free \o mq[q].queue
             H == Holders(q)
  <2>1. holders = H  BY <1>3, <1>4 DEF Holders
  <2>2. Blocks(mq[q], H, InHand)  BY <1>1
  <2>3. \A t \in H : t \in Thread /\ InHand[t] = job[t].block  BY DEF Holders, InHand
  <2> HIDE DEF H
  <2>4. mq[q].free \in Seq(Message) /\ mq[q].queue \in Seq(Message)
    BY <2>2, QueueFields DEF Blocks
  <2>5. /\ all \in Seq(Message) /\ Len(all) = Len(mq[q].free) + Len(mq[q].queue)
        /\ IsInjective(all)
        /\ \A u : Contains(all, u) <=> Contains(mq[q].free, u) \/ Contains(mq[q].queue, u)
    BY <2>2, <2>4, ConcatMember DEF Blocks
  <2> HIDE DEF all
  <2>6. \A t \in H : ~Contains(all, job[t].block)  BY <2>2, <2>3, <2>5 DEF Blocks
  <2>7. Len(all) + Cardinality(H) = Size /\ mq[q].entry = Len(mq[q].queue)
    BY <2>2, <2>5 DEF Blocks
  <2>8. \A t \in holders : ~Contains(all, job[t].block)  BY <2>1, <2>6
  <2>9. Len(all) + Cardinality(holders) = Size  BY <2>1, <2>7
  <2> QED BY <2>5, <2>7, <2>8, <2>9 DEF all
<1> QED BY <1>2, <1>5 DEF BlocksConserved

(* A mutex has one owner: the fields of the mutex agree, a thread that      *)
(* rt_mutex_release handed it to is the owner before it runs again, and the *)
(* owner never waits for what it has (rt_mutex_take, rt_mutex_release,      *)
(* ipc.c).                                                                  *)
THEOREM MutexesHaveOneOwner == ObjectsSpec => []OneOwner
PROOF
<1>1. ObjInv => OneOwner  BY OneOwnerHolds DEF ObjInv
<1> QED BY <1>1, ObjectsInvariant, PTL

(* No block of a message queue is lost or given twice: each is on the free  *)
(* list, in the queue, or held by the one thread that fills or copies it    *)
(* with interrupts enabled (rt_mq_send, rt_mq_urgent, rt_mq_recv,           *)
(* rt_mq_control, ipc.c).                                                   *)
THEOREM BlocksStay == ObjectsSpec => []BlocksConserved
PROOF
<1>1. ObjInv => BlocksConserved  BY BlocksHold DEF ObjInv
<1> QED BY <1>1, ObjectsInvariant, PTL

(* Whoever sleeps on a mailbox or a message queue that could serve him does *)
(* so only while as many woken threads are on their way to it as there is   *)
(* mail, or room (rt_mb_*, rt_mq_*, ipc.c).                                 *)
THEOREM MailIsNotSleptOver == ObjectsSpec => []NoSleepBesideMail
PROOF
<1>1. ObjInv => NoSleepBesideMail  BY NoSleepHolds DEF ObjInv
<1> QED BY <1>1, ObjectsInvariant, PTL

(* No thread sleeps in rt_event_recv on an event set that holds what it     *)
(* waits for (ipc.c).                                                       *)
THEOREM EventsAreNotSleptOver == ObjectsSpec => []NobodySleepsOverEvents
PROOF
<1>1. ObjInv => NobodySleepsOverEvents  BY EventsHold DEF ObjInv
<1> QED BY <1>1, ObjectsInvariant, PTL

-----------------------------------------------------------------------------
(* Semaphores *)

(* What the threads hold of semaphore s.                                    *)
Column(h, s) == [t \in Thread |-> h[t][s]]

(* The value of a semaphore, the permits on their way to woken threads, and *)
(* those the threads hold, add up to its supply.                            *)
Accounts(v, m, h, p) == v + m + h = p

(* The permits of semaphore s that threads hold.                            *)
InHolders(s) == SumOf(Column(held, s))

(* Accounts, of semaphore s in the current state.                           *)
Adds(s) == Accounts(value[s], Many(s), InHolders(s), supply[s])

(* The part of the invariant that is about semaphores.                      *)
SemInv ==
  /\ value \in [Semaphore -> 0 .. Modulus - 1]
  /\ held \in [Thread -> [Semaphore -> Nat]]
  /\ supply \in [Semaphore -> 0 .. Modulus - 1]
  /\ \A s \in Semaphore : s \in alive => Adds(s)

(* Semaphores are objects with one waiting list; the threads can be         *)
(* counted.                                                                 *)
LEMMA SemIs ==
  /\ Semaphore \subseteq WaitList /\ Semaphore \subseteq Object
  /\ Modulus \in Nat \ {0} /\ MaxSupply \in Nat /\ IsFiniteSet(Thread)
BY SemAssumption, IpcAssumption, ObjectsAssumption

(* What the threads hold of one semaphore can be added up, and is at least  *)
(* what each of them holds.                                                 *)
LEMMA ColumnIs ==
  ASSUME NEW h \in [Thread -> [Semaphore -> Nat]], NEW s \in Semaphore
  PROVE  /\ Column(h, s) \in [Thread -> Nat] /\ Column(h, s) \in [Thread -> Int]
         /\ SumOf(Column(h, s)) \in Nat
         /\ \A t \in Thread : Column(h, s)[t] = h[t][s] /\ h[t][s] <= SumOf(Column(h, s))
PROOF
<1>1. Column(h, s) \in [Thread -> Nat]  BY DEF Column
<1>2. \A t \in Thread : Column(h, s)[t] = h[t][s]  BY DEF Column
<1> QED BY <1>1, <1>2, SumAtLeast, SemIs

(* g is h but that thread t holds n permits of semaphore s.                 *)
Holds(h, t, s, n, g) == g = [h EXCEPT ![t][s] = n]

(* A thread that takes or gives permits changes the sum by as many, and no  *)
(* other semaphore.                                                         *)
LEMMA ColumnChanges ==
  ASSUME NEW h \in [Thread -> [Semaphore -> Nat]], NEW t \in Thread, NEW s \in Semaphore,
         NEW n \in Nat, NEW g, Holds(h, t, s, n, g)
  PROVE  /\ g \in [Thread -> [Semaphore -> Nat]]
         /\ SumOf(Column(g, s)) = SumOf(Column(h, s)) + (n - h[t][s])
         /\ \A p \in Semaphore : p # s => Column(g, p) = Column(h, p)
PROOF
<1>1. /\ g \in [Thread -> [Semaphore -> Nat]] /\ g[t][s] = n
      /\ \A x \in Thread, p \in Semaphore : x # t \/ p # s => g[x][p] = h[x][p]
  BY DEF Holds
<1>2. \A p \in Semaphore : p # s => Column(g, p) = Column(h, p)  BY <1>1 DEF Column
<1> DEFINE v == Column(h, s)
           w == Column(g, s)
<1>3. v \in [Thread -> Int] /\ w \in [Thread -> Int]  BY <1>1, ColumnIs
<1>4. \A x \in Thread \ {t} : v[x] = w[x]  BY <1>1 DEF Column
<1>5. w[t] = n /\ v[t] = h[t][s]  BY <1>1, ColumnIs
<1> HIDE DEF v, w
<1>6. SumOf(w) = SumOf(v) + (w[t] - v[t])  BY <1>3, <1>4, SemIs, SumChanges
<1> QED BY <1>1, <1>2, <1>5, <1>6 DEF v, w

(* A step that is not about semaphores keeps their part of the invariant.   *)
LEMMA SemStays ==
  ASSUME IpcInv, IpcInv', SemInv, UNCHANGED semVars, alive' \subseteq alive,
         \A s \in Semaphore : Quiet(s)
  PROVE  SemInv'
PROOF
<1>1. value' = value /\ held' = held /\ supply' = supply  BY DEF semVars
<1>2. ASSUME NEW s \in Semaphore, s \in alive' PROVE Adds(s)'
  <2>1. Adds(s)  BY <1>2 DEF SemInv
  <2>2. Coming(s)' = Coming(s)  BY SemIs, QuietList
  <2> QED BY <1>1, <2>1, <2>2 DEF Adds, Many, InHolders
<1> QED BY <1>1, <1>2 DEF SemInv

(* A step about semaphore s keeps the invariant when the accounts of s      *)
(* still add up.                                                            *)
LEMMA SemOthers ==
  ASSUME IpcInv, IpcInv', SemInv, alive' \subseteq alive, NEW s \in Semaphore,
         QuietOutside({s}), NEW v \in 0 .. Modulus - 1, NEW p \in 0 .. Modulus - 1,
         value' = [value EXCEPT ![s] = v], supply' = [supply EXCEPT ![s] = p],
         held' \in [Thread -> [Semaphore -> Nat]],
         \A q \in Semaphore : q # s => Column(held', q) = Column(held, q),
         s \in alive' => Accounts(v, Many(s)', SumOf(Column(held', s)), p)
  PROVE  SemInv'
PROOF
<1>1. /\ value' \in [Semaphore -> 0 .. Modulus - 1] /\ supply' \in [Semaphore -> 0 .. Modulus - 1]
      /\ value'[s] = v /\ supply'[s] = p
      /\ \A q \in Semaphore \ {s} : value'[q] = value[q] /\ supply'[q] = supply[q]
  BY DEF SemInv
<1>2. ASSUME NEW q \in Semaphore, q \in alive' PROVE Adds(q)'
  <2>1. CASE q = s  BY <1>1, <1>2, <2>1 DEF Adds, InHolders
  <2>2. CASE q # s
    <3>1. Adds(q)  BY <1>2 DEF SemInv
    <3>2. Quiet(q)  BY <2>2, SemIs DEF QuietOutside
    <3>3. Coming(q)' = Coming(q)  BY <3>2, SemIs, QuietList
    <3>4. Many(q)' = Many(q)  BY <3>3 DEF Many
    <3>5. InHolders(q)' = InHolders(q)  BY <2>2 DEF InHolders
    <3> QED BY <1>1, <2>2, <3>1, <3>4, <3>5 DEF Adds
  <2> QED BY <2>1, <2>2
<1> QED BY <1>1, <1>2 DEF SemInv

(* What SemInv says of one semaphore.                                       *)
LEMMA Counted ==
  ASSUME IpcInv, SemInv, NEW s \in Semaphore
  PROVE  /\ value[s] \in 0 .. Modulus - 1 /\ value[s] \in Nat /\ Many(s) \in Nat
         /\ supply[s] \in 0 .. Modulus - 1 /\ supply[s] \in Nat
         /\ InHolders(s) \in Nat
         /\ \A t \in Thread : held[t][s] \in Nat /\ held[t][s] <= InHolders(s)
         /\ s \in alive => value[s] + Many(s) + InHolders(s) = supply[s]
BY SemIs, ColumnIs, ComingFinite DEF SemInv, Adds, Accounts, InHolders

(* A step that moves nobody: as many threads are on their way from a        *)
(* semaphore as before.                                                     *)
LEMMA AllQuiet ==
  ASSUME IpcInv, IpcInv', Moves({}), NEW s \in Semaphore
  PROVE  Quiet(s) /\ QuietOutside({s}) /\ Many(s)' = Many(s)
PROOF
<1>1. \A q \in WaitList : Quiet(q)  BY NobodyMoves
<1>2. s \in WaitList  BY SemIs
<1>3. Coming(s)' = Coming(s)  BY <1>1, <1>2, QuietList
<1> QED BY <1>1, <1>2, <1>3 DEF Many, QuietOutside

(* rt_sem_take that finds a permit.                                         *)
LEMMA TakeNowStep ==
  ASSUME IpcInv, SemInv, NEW t \in Thread, NEW s \in Semaphore, SemTakeNow(t, s)
  PROVE  SemInv'
PROOF
<1>1. IpcInv' /\ Moves({})  BY IdleStep DEF SemTakeNow
<1>2. QuietOutside({s}) /\ Many(s)' = Many(s)  BY <1>1, AllQuiet
<1>3. alive' = alive /\ supply' = supply  BY DEF SemTakeNow, ipcVars, waitVars
<1>4. s \in alive /\ value[s] > 0  BY DEF SemTakeNow, Uses
<1> DEFINE v == value[s] - 1
           n == held[t][s] + 1
           p == supply[s]
           m == Many(s)
           h == InHolders(s)
           g == SumOf(Column(held', s))
<1>5. /\ value[s] \in 0 .. Modulus - 1 /\ p \in 0 .. Modulus - 1 /\ p \in Nat
      /\ held[t][s] \in Nat /\ m \in Nat /\ h \in Nat
      /\ value[s] + m + h = p
  BY <1>4, Counted
<1>6. v \in 0 .. Modulus - 1 /\ n \in Nat  BY <1>4, <1>5, SemIs
<1>7. value' = [value EXCEPT ![s] = v] /\ Holds(held, t, s, n, held')
  BY DEF SemTakeNow, Holds
<1>8. supply' = [supply EXCEPT ![s] = p]  BY <1>3 DEF SemInv
<1>9. n - held[t][s] = 1  BY <1>5
<1> HIDE DEF n
<1>10. /\ held' \in [Thread -> [Semaphore -> Nat]] /\ g = h + 1
       /\ \A q \in Semaphore : q # s => Column(held', q) = Column(held, q)
  BY <1>6, <1>7, <1>9, ColumnChanges DEF SemInv, InHolders
<1> HIDE DEF g, h, m
<1>11. v + m + g = p
  <2> DEFINE x == value[s]
  <2>1. /\ x \in Nat /\ m \in Nat /\ h \in Nat /\ x + m + h = p
        /\ v = x - 1 /\ g = h + 1
    BY <1>5, <1>10, Counted
  <2> HIDE DEF x, v, p
  <2> QED BY <2>1
<1>12. Accounts(v, Many(s)', SumOf(Column(held', s)), p)  BY <1>2, <1>11 DEF Accounts, m, g
<1> HIDE DEF v, p
<1> QED BY <1>1, <1>2, <1>3, <1>5, <1>6, <1>7, <1>8, <1>10, <1>12, SemOthers

(* rt_sem_take that goes to sleep.                                          *)
LEMMA TakeWaitStep ==
  ASSUME IpcInv, SemInv, NEW t \in Thread, NEW s \in Semaphore, NEW n \in WaitTime,
         SemTakeWait(t, s, n)
  PROVE  SemInv'
PROOF
<1>1. Uses(t, s) /\ n \in Nat /\ WaitOn(kern, t, s, n) /\ s \in WaitList
  BY SemIs, TimesAreNat DEF SemTakeWait
<1>2. IpcInv' /\ Moves({<<t, s>>}) /\ ~ServedAt(t, s)'
  BY <1>1, AlikeSelf, WaitsStep DEF Alike
<1>3. alive' = alive /\ UNCHANGED semVars  BY DEF SemTakeWait, WaitOn
<1>4. value' = value /\ supply' = supply /\ held' = held  BY <1>3 DEF semVars
<1> DEFINE M == {<<t, s>>}
<1>5. /\ \A x \in Thread : <<x, s>> \in M => x = t
      /\ \A q \in WaitList : q # s => \A x \in Thread : <<x, q>> \notin M
  OBVIOUS
<1>6. Moves(M)  BY <1>2
<1> HIDE DEF M
<1>7. Coming(s)' = Coming(s) \ {t}  BY <1>1, <1>2, <1>5, <1>6, OneLeaves
<1>8. t \notin Coming(s)  BY <1>1, UsesFacts, AppNotComing DEF Asleep
<1>9. Coming(s)' = Coming(s)  BY <1>7, <1>8
<1>10. QuietOutside({s})  BY <1>5, <1>6, QuietOf DEF QuietOutside
<1> DEFINE v == value[s]
           p == supply[s]
<1>11. v \in 0 .. Modulus - 1 /\ p \in 0 .. Modulus - 1  BY Counted
<1>12. value' = [value EXCEPT ![s] = v] /\ supply' = [supply EXCEPT ![s] = p]
  BY <1>4 DEF SemInv
<1>13. s \in alive' => Accounts(v, Many(s)', SumOf(Column(held', s)), p)
  BY <1>3, <1>4, <1>9 DEF SemInv, Adds, Many, InHolders
<1>14. held' \in [Thread -> [Semaphore -> Nat]]  BY <1>4 DEF SemInv
<1> HIDE DEF v, p
<1> QED BY <1>2, <1>3, <1>4, <1>10, <1>11, <1>12, <1>13, <1>14, SemOthers

(* rt_sem_take returns from its sleep: with the permit it was handed, or    *)
(* with an error.                                                           *)
LEMMA TakeReturnStep ==
  ASSUME IpcInv, SemInv, NEW t \in Thread, SemTakeReturn(t)
  PROVE  SemInv'
PROOF
<1> SUFFICES ASSUME NEW s, s = want[t] PROVE SemInv'  OBVIOUS
<1>1. Woken(t) /\ s \in Semaphore /\ WaitOver(t) /\ kern' = kern /\ value' = value
      /\ supply' = supply
      /\ held' = IF kern.error[t] = "ok" THEN [held EXCEPT ![t][s] = @ + 1] ELSE held
  BY DEF SemTakeReturn
<1>2. IpcInv' /\ Moves({<<t, s>>}) /\ ~ServedAt(t, s)' /\ s \in WaitList
  BY <1>1, ReturnsStep
<1>3. alive' = alive  BY <1>1 DEF WaitOver
<1> DEFINE M == {<<t, s>>}
<1>5. /\ \A x \in Thread : <<x, s>> \in M => x = t
      /\ \A q \in WaitList : q # s => \A x \in Thread : <<x, q>> \notin M
  OBVIOUS
<1>6. Moves(M)  BY <1>2
<1> HIDE DEF M
<1>7. Coming(s)' = Coming(s) \ {t}  BY <1>2, <1>5, <1>6, OneLeaves
<1>8. t \in Coming(s) <=> kern.error[t] = "ok"
  <2>1. Runs(t, "woken")  BY <1>1 DEF Woken
  <2>2. call[t].at = "woken" /\ ~OnWait(kern, s, t)  BY <1>2, <2>1, RunsFacts
  <2> QED BY <2>2 DEF Coming, ServedAt, ServedIn, Asleep
<1>9. Many(s)' = IF kern.error[t] = "ok" THEN Many(s) - 1 ELSE Many(s)
  <2>1. Many(s)' = Cardinality(Coming(s) \ {t})  BY <1>7 DEF Many
  <2>2. Cardinality(Coming(s) \ {t}) = IF t \in Coming(s) THEN Many(s) - 1 ELSE Many(s)
    BY OneLess
  <2> QED BY <1>8, <2>1, <2>2
<1>10. QuietOutside({s})  BY <1>5, <1>6, QuietOf DEF QuietOutside
<1> DEFINE v == value[s]
           p == supply[s]
           n == IF kern.error[t] = "ok" THEN held[t][s] + 1 ELSE held[t][s]
           m == Many(s)
           m2 == Many(s)'
           h == InHolders(s)
           g == SumOf(Column(held', s))
<1>11. /\ v \in 0 .. Modulus - 1 /\ p \in 0 .. Modulus - 1 /\ v \in Nat /\ p \in Nat
       /\ held[t][s] \in Nat /\ m \in Nat /\ h \in Nat
       /\ s \in alive => v + m + h = p
  BY <1>1, Counted
<1>12. value' = [value EXCEPT ![s] = v] /\ supply' = [supply EXCEPT ![s] = p]
  BY <1>1 DEF SemInv
<1>13. Holds(held, t, s, n, held')  BY <1>1 DEF SemInv, Holds
<1>14. n \in Nat /\ n - held[t][s] = IF kern.error[t] = "ok" THEN 1 ELSE 0  BY <1>11
<1> HIDE DEF n
<1>15. /\ held' \in [Thread -> [Semaphore -> Nat]]
       /\ g = h + (n - held[t][s])
       /\ \A q \in Semaphore : q # s => Column(held', q) = Column(held, q)
  <2>1. held \in [Thread -> [Semaphore -> Nat]] /\ s \in Semaphore  BY <1>1 DEF SemInv
  <2>2. /\ held' \in [Thread -> [Semaphore -> Nat]]
        /\ SumOf(Column(held', s)) = SumOf(Column(held, s)) + (n - held[t][s])
        /\ \A q \in Semaphore : q # s => Column(held', q) = Column(held, q)
    BY <1>13, <1>14, <2>1, ColumnChanges
  <2> QED BY <2>2 DEF InHolders
<1>16. g = IF kern.error[t] = "ok" THEN h + 1 ELSE h  BY <1>11, <1>14, <1>15
<1>17. m2 = IF kern.error[t] = "ok" THEN m - 1 ELSE m  BY <1>9
<1> HIDE DEF g, h, m, m2, v, p
<1>18. s \in alive => v + m2 + g = p  BY <1>11, <1>16, <1>17
<1>19. s \in alive' => Accounts(v, Many(s)', SumOf(Column(held', s)), p)
  BY <1>3, <1>18 DEF Accounts, m2, g
<1> QED BY <1>1, <1>2, <1>3, <1>10, <1>11, <1>12, <1>15, <1>19, SemOthers

(* A release with a waiter adds one thread to those on their way.           *)
LEMMA HandedCounts ==
  ASSUME IpcInv, IpcInv', NEW s \in Semaphore, HandedOver(s), Moves(Handed(s))
  PROVE  /\ QuietOutside({s})
         /\ Many(s)' = IF Waiting(kern, s) THEN Many(s) + 1 ELSE Many(s)
PROOF
<1> DEFINE M == Handed(s)
<1>1. s \in WaitList  BY SemIs
<1>2. \A q \in WaitList : q # s => \A x \in Thread : <<x, q>> \notin M  BY HandedOnly
<1>3. \A x \in Thread : <<x, s>> \in M => x \in First(s)  BY HandedOnly
<1>4. Moves(M)  OBVIOUS
<1> HIDE DEF M
<1>5. Coming(s)' = Coming(s) \cup First(s) /\ First(s) \cap Coming(s) = {}
  BY <1>1, <1>3, <1>4, HeadServed
<1>6. Many(s)' = Cardinality(Coming(s) \cup First(s))  BY <1>5 DEF Many
<1>7. Cardinality(Coming(s) \cup First(s)) = IF Waiting(kern, s) THEN Many(s) + 1 ELSE Many(s)
  BY <1>1, <1>5, OneMore
<1>8. QuietOutside({s})  BY <1>2, <1>4, QuietOf DEF QuietOutside
<1> QED BY <1>6, <1>7, <1>8

(* A release without a waiter adds one to the value, which does not wrap    *)
(* around.                                                                  *)
LEMMA CountedUp ==
  ASSUME SemInv, NEW s \in Semaphore, NEW n \in Nat, n = value[s], n + 1 < Modulus,
         value' = SemCounted(s), NEW v, v = IF Waiting(kern, s) THEN n ELSE n + 1
  PROVE  v \in 0 .. Modulus - 1 /\ value' = [value EXCEPT ![s] = v]
PROOF
<1>1. Modulus \in Nat \ {0}  BY SemIs
<1>2. (n + 1) % Modulus = n + 1  BY <1>1
<1>3. v \in 0 .. Modulus - 1  BY <1>1
<1> QED BY <1>2, <1>3 DEF SemCounted, SemInv

(* rt_sem_release by a thread.                                              *)
LEMMA ReleaseStep ==
  ASSUME MaxSupply < Modulus, IpcInv, SemInv, NEW t \in Thread, NEW s \in Semaphore,
         SemRelease(t, s)
  PROVE  SemInv'
PROOF
<1>1. IpcInv' /\ Moves(Handed(s)) /\ HandedOver(s)  BY SemReleaseStep
<1>2. QuietOutside({s})
      /\ Many(s)' = IF Waiting(kern, s) THEN Many(s) + 1 ELSE Many(s)
  BY <1>1, HandedCounts
<1>3. alive' = alive /\ value' = SemCounted(s) /\ s \in alive
  BY DEF SemRelease, ThenSchedule, Uses
<1> DEFINE a == value[s]
           v == IF Waiting(kern, s) THEN a ELSE a + 1
           p == supply[s]
           m == Many(s)
           m2 == Many(s)'
           h == InHolders(s)
           g == SumOf(Column(held', s))
           c == held[t][s]
<1>4. /\ a \in 0 .. Modulus - 1 /\ p \in 0 .. Modulus - 1 /\ a \in Nat /\ p \in Nat
      /\ c \in Nat /\ c <= h /\ m \in Nat /\ h \in Nat /\ a + m + h = p
  BY <1>3, Counted
<1>5. m2 = (IF Waiting(kern, s) THEN m + 1 ELSE m)  BY <1>2
<1>6. Modulus \in Nat /\ MaxSupply \in Nat  BY SemIs
<1>7. held \in [Thread -> [Semaphore -> Nat]] /\ supply \in [Semaphore -> 0 .. Modulus - 1]
  BY DEF SemInv
<1>8. CASE c > 0 /\ held' = [held EXCEPT ![t][s] = @ - 1] /\ supply' = supply
  <2> DEFINE n == c - 1
  <2>1. n \in Nat /\ n - c = 0 - 1  BY <1>4, <1>8
  <2>2. Holds(held, t, s, n, held')  BY <1>8 DEF Holds
  <2>3. n - held[t][s] = 0 - 1  BY <2>1
  <2> HIDE DEF n, c
  <2>4. /\ held' \in [Thread -> [Semaphore -> Nat]]
        /\ SumOf(Column(held', s)) = SumOf(Column(held, s)) + (n - held[t][s])
        /\ \A q \in Semaphore : q # s => Column(held', q) = Column(held, q)
    BY <1>7, <2>1, <2>2, ColumnChanges
  <2>5. g = h + (0 - 1)  BY <2>3, <2>4 DEF InHolders
  <2> HIDE DEF g, h, m, m2, p
  <2>6. a + 1 < Modulus  BY <1>4, <1>6, <1>8
  <2>7. v \in 0 .. Modulus - 1 /\ value' = [value EXCEPT ![s] = v]
    BY <1>3, <1>4, <2>6, CountedUp
  <2>8. supply' = [supply EXCEPT ![s] = p]  BY <1>7, <1>8 DEF p
  <2>9. v + m2 + g = p  BY <1>4, <1>5, <2>5
  <2>10. Accounts(v, Many(s)', SumOf(Column(held', s)), p)  BY <2>9 DEF Accounts, m2, g
  <2> HIDE DEF v, a
  <2> QED BY <1>1, <1>2, <1>3, <1>4, <2>4, <2>7, <2>8, <2>10, SemOthers
<1>9. CASE p < MaxSupply /\ supply' = [supply EXCEPT ![s] = @ + 1] /\ held' = held
  <2> DEFINE p2 == p + 1
  <2>1. g = h  BY <1>9 DEF InHolders
  <2>2. supply' = [supply EXCEPT ![s] = p2]  BY <1>9
  <2>3. held' \in [Thread -> [Semaphore -> Nat]]
        /\ \A q \in Semaphore : q # s => Column(held', q) = Column(held, q)
    BY <1>7, <1>9
  <2> HIDE DEF g, h, m, m2, p
  <2>4. a + 1 < Modulus /\ p2 \in 0 .. Modulus - 1  BY <1>4, <1>6, <1>9
  <2>5. v \in 0 .. Modulus - 1 /\ value' = [value EXCEPT ![s] = v]
    BY <1>3, <1>4, <2>4, CountedUp
  <2>6. v + m2 + g = p2  BY <1>4, <1>5, <2>1
  <2>7. Accounts(v, Many(s)', SumOf(Column(held', s)), p2)  BY <2>6 DEF Accounts, m2, g
  <2> HIDE DEF v, a, p2
  <2> QED BY <1>1, <1>2, <1>3, <2>2, <2>3, <2>4, <2>5, <2>7, SemOthers
<1> QED BY <1>8, <1>9 DEF SemRelease

(* rt_sem_release from an interrupt handler.                                *)
LEMMA SignalStep ==
  ASSUME MaxSupply < Modulus, IpcInv, SemInv, NEW s \in Semaphore, SemSignal(s)
  PROVE  SemInv'
PROOF
<1>0. InHandler(s, s) /\ s \in WaitList  BY SemIs DEF SemSignal
<1>1. IpcInv' /\ Moves(Handed(s)) /\ HandedOver(s)  BY <1>0, HandlerStep
<1>2. QuietOutside({s})
      /\ Many(s)' = IF Waiting(kern, s) THEN Many(s) + 1 ELSE Many(s)
  BY <1>1, HandedCounts
<1>3. alive' = alive /\ value' = SemCounted(s) /\ s \in alive /\ held' = held
      /\ supply[s] < MaxSupply /\ supply' = [supply EXCEPT ![s] = @ + 1]
  BY DEF SemSignal, InHandler, waitVars
<1> DEFINE a == value[s]
           v == IF Waiting(kern, s) THEN a ELSE a + 1
           p == supply[s]
           m == Many(s)
           m2 == Many(s)'
           h == InHolders(s)
           g == SumOf(Column(held', s))
           p2 == p + 1
<1>4. /\ a \in 0 .. Modulus - 1 /\ p \in 0 .. Modulus - 1 /\ a \in Nat /\ p \in Nat
      /\ m \in Nat /\ h \in Nat /\ a + m + h = p
  BY <1>3, Counted
<1>5. m2 = (IF Waiting(kern, s) THEN m + 1 ELSE m)  BY <1>2
<1>6. Modulus \in Nat /\ MaxSupply \in Nat  BY SemIs
<1>7. g = h  BY <1>3 DEF InHolders
<1>8. supply' = [supply EXCEPT ![s] = p2]  BY <1>3
<1>9. held' \in [Thread -> [Semaphore -> Nat]]
      /\ \A q \in Semaphore : q # s => Column(held', q) = Column(held, q)
  BY <1>3 DEF SemInv
<1>10. p < MaxSupply  BY <1>3
<1> HIDE DEF g, h, m, m2, p
<1>11. a + 1 < Modulus /\ p2 \in 0 .. Modulus - 1  BY <1>4, <1>6, <1>10
<1>12. v \in 0 .. Modulus - 1 /\ value' = [value EXCEPT ![s] = v]
  BY <1>3, <1>4, <1>11, CountedUp
<1>13. v + m2 + g = p2  BY <1>4, <1>5, <1>7
<1>14. Accounts(v, Many(s)', SumOf(Column(held', s)), p2)  BY <1>13 DEF Accounts, m2, g
<1> HIDE DEF v, a, p2
<1> QED BY <1>1, <1>2, <1>3, <1>8, <1>9, <1>11, <1>12, <1>14, SemOthers

(* rt_sem_control(RESET): the waiters leave with an error and the value is  *)
(* set anew.                                                                *)
LEMMA SemResetStep ==
  ASSUME MaxSupply < Modulus, IpcInv, SemInv, NEW t \in Thread, NEW s \in Semaphore,
         NEW v \in 0 .. Value0[s], SemReset(t, s, v)
  PROVE  SemInv'
PROOF
<1>1. IpcInv' /\ Moves({})  BY ResetOneStep DEF SemReset
<1>2. QuietOutside({s}) /\ Many(s)' = Many(s)  BY <1>1, AllQuiet
<1>3. alive' = alive /\ s \in alive /\ held' = held
      /\ supply[s] + v <= MaxSupply + value[s]
      /\ value' = [value EXCEPT ![s] = v]
      /\ supply' = [supply EXCEPT ![s] = @ + v - value[s]]
  BY DEF SemReset, ThenSchedule, Uses
<1> DEFINE a == value[s]
           p == supply[s]
           m == Many(s)
           h == InHolders(s)
           g == SumOf(Column(held', s))
           p2 == p + v - a
<1>4. /\ a \in Nat /\ p \in Nat /\ m \in Nat /\ h \in Nat /\ a + m + h = p
  BY <1>3, Counted
<1>5. v \in Nat /\ v \in 0 .. Modulus - 1
  <2>1. Value0[s] \in 0 .. Modulus - 1 /\ Modulus \in Nat \ {0}  BY SemAssumption
  <2> QED BY <2>1
<1>6. Modulus \in Nat /\ MaxSupply \in Nat  BY SemIs
<1>7. g = h  BY <1>3 DEF InHolders
<1>8. supply' = [supply EXCEPT ![s] = p2]  BY <1>3
<1>9. held' \in [Thread -> [Semaphore -> Nat]]
      /\ \A q \in Semaphore : q # s => Column(held', q) = Column(held, q)
  BY <1>3 DEF SemInv
<1>10. p + v <= MaxSupply + a  BY <1>3
<1> HIDE DEF g, h, m, p, a
<1>11. p2 \in 0 .. Modulus - 1  BY <1>4, <1>5, <1>6, <1>10
<1>13. v + m + g = p2  BY <1>4, <1>5, <1>7
<1>14. Accounts(v, Many(s)', SumOf(Column(held', s)), p2)  BY <1>2, <1>13 DEF Accounts, m, g
<1> HIDE DEF p2
<1> QED BY <1>1, <1>2, <1>3, <1>5, <1>8, <1>9, <1>11, <1>14, SemOthers

(* Every step of a semaphore keeps the accounts.                            *)
LEMMA SemStepInv ==
  ASSUME MaxSupply < Modulus, IpcInv, SemInv, SemStep
  PROVE  SemInv'
PROOF
<1>1. ASSUME NEW t \in Thread, NEW s \in Semaphore, DeleteBegin(t, s), UNCHANGED semVars
      PROVE  SemInv'
  <2>1. IpcInv' /\ Moves({})  BY <1>1, DeleteBeginStep
  <2>2. alive' \subseteq alive  BY <1>1 DEF DeleteBegin
  <2>3. \A q \in Semaphore : Quiet(q)  BY <2>1, AllQuiet
  <2> QED BY <1>1, <2>1, <2>2, <2>3, SemStays
<1> QED BY <1>1, TakeNowStep, TakeWaitStep, TakeReturnStep, ReleaseStep, SignalStep, SemResetStep
        DEF SemStep, SemCall, SemHandler

(* The accounts of the semaphores are kept in every behaviour.              *)
LEMMA SemInvariant ==
  ASSUME MaxSupply < Modulus
  PROVE  ObjectsSpec => []SemInv
PROOF
<1>1. ASSUME ObjectsInit PROVE SemInv
  <2>1. \A t \in Thread : call[t].at = "app"  BY <1>1, NobodyMoving DEF ObjectsInit
  <2>2. /\ value = Value0 /\ supply = Value0
        /\ held = [t \in Thread |-> [s \in Semaphore |-> 0]]
    BY <1>1 DEF ObjectsInit, SemInit
  <2>3. Value0 \in [Semaphore -> 0 .. Modulus - 1] /\ Modulus \in Nat \ {0}  BY SemAssumption
  <2>4. held \in [Thread -> [Semaphore -> Nat]]  BY <2>2
  <2>5. ASSUME NEW s \in Semaphore PROVE Adds(s)
    <3>1. Coming(s) = {}  BY <2>1 DEF Coming, ServedAt, ServedIn, Asleep
    <3>2. Many(s) = 0  BY <3>1, FS_EmptySet DEF Many
    <3>3. InHolders(s) = 0
      <4> DEFINE w == Column(held, s)
      <4>1. w \in [Thread -> Int]  BY <2>4, ColumnIs
      <4>2. \A x \in Thread : w[x] = 0  BY <2>2, <2>4, ColumnIs
      <4> HIDE DEF w
      <4>3. SumOf(w) = 0  BY <4>1, <4>2, SemIs, SumOfNothing
      <4> QED BY <4>3 DEF InHolders, w
    <3>4. Value0[s] \in Nat  BY <2>3
    <3> QED BY <2>2, <3>2, <3>3, <3>4 DEF Adds, Accounts
  <2> QED BY <2>2, <2>3, <2>4, <2>5 DEF SemInv
<1>2. ASSUME ObjInv, SemInv, ObjectsNext PROVE SemInv'
  <2>1. CASE SemStep  BY <1>2, <2>1, SemStepInv DEF ObjInv
  <2>2. ASSUME ~SemStep PROVE SemInv'
    <3>1. IpcInv'  BY <1>2, ObjectsNextInv DEF ObjInv
    <3>2. alive' \subseteq alive /\ UNCHANGED semVars /\ \A s \in Semaphore : Quiet(s)
      <4> USE DEF ObjInv
      <4>1. CASE MutexStep
        <5>1. QuietOutside(Mutex)  BY <1>2, <4>1, MutexStepMoves
        <5>2. alive' \subseteq alive  BY <1>2, <4>1, MutexShape, AliveShrinks
        <5> QED BY <4>1, <5>1, <5>2, KindsApart, SemIs DEF QuietOutside, MutexStep
      <4>2. CASE MailStep
        <5>1. QuietOutside(MailList)  BY <1>2, <4>2, MailStepMoves
        <5>2. alive' \subseteq alive  BY <4>2, MailShape DEF MailDelete, DeleteBegin
        <5> QED BY <4>2, <5>1, <5>2, KindsApart, SemIs DEF QuietOutside, MailStep
      <4>3. CASE EventStep
        <5>1. QuietOutside(EventSet)  BY <1>2, <4>3, EventStepMoves DEF QuietEvents
        <5>2. alive' \subseteq alive  BY <1>2, <4>3, EventShape, AliveShrinks
        <5> QED BY <4>3, <5>1, <5>2, KindsApart, SemIs DEF QuietOutside, EventStep
      <4>4. CASE ThreadsStep
        <5>1. Moves({})  BY <1>2, <4>4, ThreadsStepMoves
        <5>2. alive' = alive  BY <1>2, <4>4, ThreadsShape
        <5> QED BY <4>4, <5>1, <5>2, NobodyMoves, SemIs DEF ThreadsStep
      <4> QED BY <1>2, <2>2, <4>1, <4>2, <4>3, <4>4 DEF ObjectsNext
    <3> QED BY <1>2, <3>1, <3>2, SemStays DEF ObjInv
  <2> QED BY <2>1, <2>2
<1>3. ASSUME ObjInv, SemInv, UNCHANGED objectVars PROVE SemInv'
  <2>1. UNCHANGED ipcVars /\ UNCHANGED semVars /\ alive' = alive
    BY <1>3 DEF objectVars, ipcVars, waitVars
  <2>2. IpcInv' /\ Moves({})  BY <1>3, <2>1, IdleStep DEF ObjInv
  <2> QED BY <1>3, <2>1, <2>2, NobodyMoves, SemIs, SemStays DEF ObjInv
<1>4. ASSUME ObjInv, SemInv, [ObjectsNext]_objectVars PROVE SemInv'
  BY <1>2, <1>3, <1>4
<1>5. ObjInv /\ SemInv /\ [ObjectsNext]_objectVars => SemInv'  BY <1>4
<1> QED BY <1>1, <1>5, ObjectsInvariant, PTL DEF ObjectsSpec

(* No permit of a semaphore is lost or made up, as long as fewer are ever   *)
(* given than its 16-bit value can count (rt_sem_take, rt_sem_release,      *)
(* rt_sem_control, ipc.c).                                                  *)
THEOREM PermitsAddUp ==
  ASSUME MaxSupply < Modulus
  PROVE  ObjectsSpec => []PermitsConserved
PROOF
<1>1. ObjInv /\ SemInv => PermitsConserved
  <2> SUFFICES ASSUME ObjInv, SemInv PROVE PermitsConserved  OBVIOUS
  <2>1. SemTypeOK
    <3>1. 0 .. Modulus - 1 \subseteq Nat  BY SemIs
    <3> QED BY <3>1, IpcTyped DEF SemTypeOK, SemInv, ObjInv
  <2>2. ASSUME NEW s \in Semaphore \cap alive
        PROVE  value[s] + Cardinality({t \in Thread : Served(t, s)})
                 + FoldFunction(+, 0, [t \in Thread |-> held[t][s]]) = supply[s]
    <3>1. value[s] + Many(s) + InHolders(s) = supply[s]  BY Counted DEF ObjInv
    <3>2. {t \in Thread : Served(t, s)} = Coming(s)  BY ServedIs DEF Coming
    <3> QED BY <3>1, <3>2 DEF Many, InHolders, SumOf, Column
  <2> QED BY <2>1, <2>2 DEF PermitsConserved
<1>2. ObjectsSpec => []SemInv  BY SemInvariant
<1> QED BY <1>1, <1>2, ObjectsInvariant, PTL

-----------------------------------------------------------------------------
(* Deleted objects *)

(* The waiting lists of object o: its own, and for a mailbox that of its    *)
(* senders.                                                                 *)
ListsOf(o) == {o, Private[o]} \ {None}

(* Inside the loop of rt_ipc_list_resume_all.                               *)
Resumes == {"resume_all", "resume_one"}

(* Some thread is in the loop of rt_ipc_list_resume_all over a list of the  *)
(* object.                                                                  *)
Emptying(o, q) == \E t \in Thread : want[t] \in {o, q} /\ call[t].at \in Resumes

(* No thread is on its way to list q, or holds a block for it.              *)
Abandoned(q) == \A x \in Thread : ~ServedAt(x, q) /\ ~(want[x] = q /\ InHands(x))

(* What is left of a deleted object: waiters only while its deleter is      *)
(* still waking them, and nobody who would come back to the memory of a     *)
(* mailbox or a queue.                                                      *)
Dead(o) ==
  \A q \in ListsOf(o) :
    /\ Waiting(kern, q) => Emptying(o, q)
    /\ q \in MailList => Abandoned(q)

(* Every deleted object is dead.                                            *)
DeadInv == \A o \in Object \ alive : Dead(o)

(* Nobody joins list q.                                                     *)
Shrinks(q) == \A x \in Thread : OnWait(kern', q, x) => OnWait(kern, q, x)

(* A step adds nobody to the lists of object o, and serves nobody from the  *)
(* lists of a mailbox or a queue.                                           *)
LeavesAlone(o) == \A q \in ListsOf(o) : Shrinks(q) /\ (q \in MailList => Quiet(q))

(* A deleter stays in its loop as long as its lists have waiters.           *)
EmptyingKept(o) ==
  \A q \in ListsOf(o) : Waiting(kern', q) /\ Emptying(o, q) => Emptying(o, q)'

(* No thread takes a block for list q.                                      *)
HandsOff(q) == \A x \in Thread : want'[x] = q /\ InHands(x)' => want[x] = q /\ InHands(x)

(* The lists of an object, in the order in which rt_mb_delete empties them; *)
(* no other object has them.                                                *)
LEMMA ListsAre ==
  ASSUME NEW o \in Object
  PROVE  /\ ListsOf(o) \subseteq WaitList /\ o \in ListsOf(o)
         /\ \A q \in ListsOf(o) : q = o \/ (q = Private[o] /\ q \notin Object)
         /\ NextList(o) = Private[o]
         /\ Private[o] # None => NextList(Private[o]) = None
         /\ \A p \in Object : p # o => ListsOf(o) \cap ListsOf(p) = {}
PROOF
<1>1. /\ Object \subseteq WaitList /\ None \notin WaitList
      /\ \A p \in Object : Private[p] \in (WaitList \ Object) \cup {None}
      /\ \A p, q \in Object : Private[p] = Private[q] /\ Private[p] # None => p = q
  BY IpcAssumption
<1> QED BY <1>1 DEF ListsOf, NextList

(* Nobody joins a quiet list.                                               *)
LEMMA QuietShrinks ==
  ASSUME NEW q, Quiet(q)
  PROVE  Shrinks(q)
BY StillWaits DEF Shrinks

(* A deleted object stays dead.                                             *)
LEMMA DeadStays ==
  ASSUME IpcInv, IpcInv', NEW o \in Object, Dead(o), LeavesAlone(o), EmptyingKept(o),
         \A q \in ListsOf(o) : HandsOff(q)
  PROVE  Dead(o)'
PROOF
<1>1. ASSUME NEW q \in ListsOf(o), Waiting(kern', q) PROVE Emptying(o, q)'
  <2>1. q \in WaitList  BY ListsAre
  <2>2. Waiting(kern', q) <=> \E x \in Thread : OnWait(kern', q, x)
    BY <2>1, FirstWaiter DEF IpcInv, Ipc
  <2>3. Waiting(kern, q)  BY <1>1, <2>1, <2>2, WaitingIs DEF LeavesAlone, Shrinks
  <2> QED BY <1>1, <2>3 DEF Dead, EmptyingKept
<1>2. ASSUME NEW q \in ListsOf(o), q \in MailList PROVE Abandoned(q)'
  <2>1. q \in WaitList /\ Quiet(q) /\ Abandoned(q) /\ HandsOff(q)
    BY <1>2, ListsAre DEF LeavesAlone, Dead
  <2>2. Coming(q)' = Coming(q)  BY <2>1, QuietList
  <2>3. \A x \in Thread : ~ServedAt(x, q)'  BY <2>1, <2>2 DEF Coming, Abandoned
  <2> QED BY <2>1, <2>3 DEF Abandoned, HandsOff
<1> QED BY <1>1, <1>2 DEF Dead

(* A step that deletes nothing and leaves the deleted objects alone.        *)
LEMMA AllDeadStay ==
  ASSUME IpcInv, IpcInv', DeadInv, alive' = alive,
         \A o \in Object \ alive :
           LeavesAlone(o) /\ EmptyingKept(o) /\ \A q \in ListsOf(o) : HandsOff(q)
  PROVE  DeadInv'
BY DeadStays DEF DeadInv

(* A step about one living object with two lists leaves the deleted objects *)
(* alone.                                                                   *)
LEMMA OthersAlone ==
  ASSUME IpcInv, NEW p \in alive, QuietOutside({p, Private[p]}), NEW o \in Object \ alive
  PROVE  LeavesAlone(o)
PROOF
<1>1. p \in Object /\ o # p  BY DEF IpcInv
<1>2. ASSUME NEW q \in ListsOf(o) PROVE Quiet(q)
  <2>1. q \notin {p, Private[p]} \/ q = None  BY <1>1, ListsAre DEF ListsOf
  <2>2. q \in WaitList /\ q # None  BY ListsAre DEF ListsOf
  <2> QED BY <2>1, <2>2 DEF QuietOutside
<1> QED BY <1>2, QuietShrinks DEF LeavesAlone

(* A step about one living object with one list leaves a deleted object     *)
(* alone.                                                                   *)
LEMMA OneAlone ==
  ASSUME IpcInv, NEW p \in alive, QuietOutside({p}), NEW o \in Object \ alive
  PROVE  LeavesAlone(o)
PROOF
<1>1. {p} \subseteq {p, Private[p]}  OBVIOUS
<1>2. QuietOutside({p, Private[p]})  BY <1>1, QuietIn
<1> QED BY <1>2, OthersAlone

(* A step that does not touch the kernel, and serves no mailbox or queue,   *)
(* leaves an object alone.                                                  *)
LEMMA StillAlone ==
  ASSUME kern' = kern, NEW S, QuietOutside(S), S \cap MailList = {}, NEW o \in Object
  PROVE  LeavesAlone(o)
PROOF
<1>1. \A q \in ListsOf(o) : q \in WaitList  BY ListsAre
<1>2. \A q : Shrinks(q)  BY DEF Shrinks
<1> QED BY <1>1, <1>2 DEF LeavesAlone, QuietOutside

(* A step that moves nobody leaves an object alone.                         *)
LEMMA NoMoveAlone ==
  ASSUME Moves({}), NEW o \in Object
  PROVE  LeavesAlone(o)
PROOF
<1>1. \A q \in ListsOf(o) : q \in WaitList  BY ListsAre
<1> QED BY <1>1, NobodyMoves, QuietShrinks DEF LeavesAlone

(* The threads in the loop of rt_ipc_list_resume_all do not move.           *)
ResumersKept ==
  \A x \in Thread : call[x].at \in Resumes => call'[x] = call[x] /\ want'[x] = want[x]

(* A loop that does not move does not end.                                  *)
LEMMA ResumersKeep ==
  ASSUME ResumersKept PROVE \A o : EmptyingKept(o)
BY DEF ResumersKept, EmptyingKept, Emptying

(* A step that concerns no thread in a loop or copy moves no deleter, and   *)
(* takes no block.                                                          *)
LEMMA InsideResumers ==
  ASSUME InsideKept PROVE ResumersKept /\ \A q : HandsOff(q)
PROOF
<1>1. Resumes \subseteq Inside /\ Hands \subseteq Inside  BY DEF Resumes, Hands, Inside
<1> QED BY <1>1 DEF InsideKept, ResumersKept, HandsOff, InHands

(* A step that moves no block takes none.                                   *)
LEMMA HandsOffKept ==
  ASSUME HandsKept PROVE \A q : HandsOff(q)
BY DEF HandsKept, HandsOff, InHands

(* A turn of a thread that is in no loop moves no deleter.                  *)
LEMMA TurnResumers ==
  ASSUME IpcInv, NEW t \in Thread, NEW pl, NEW v, Turn(t, pl, v), call[t].at \notin Resumes
  PROVE  /\ ResumersKept
         /\ \A q : pl \notin Hands \/ v # q => HandsOff(q)
BY TurnIs DEF ResumersKept, HandsOff, InHands

(* rt_*_delete: the deleted object is dead, since its deleter has entered   *)
(* the loop over its waiters; for a mailbox or a queue nobody is on his way *)
(* back to it.                                                              *)
LEMMA DeletedIs ==
  ASSUME IpcInv, IpcInv', DeadInv, NEW t, NEW o, DeleteBegin(t, o),
         o \in Mailbox \cup Queue => AllWait(o)
  PROVE  DeadInv'
PROOF
<1>1. Turn(t, "resume_all", o) /\ t \in Thread /\ call[t].at = "app" /\ alive' = alive \ {o}
      /\ o \in alive /\ o \in Object
  BY DeleteTurn
<1>2. Moves({})  BY DeleteBeginStep
<1>3. ResumersKept /\ \A q : HandsOff(q)
  BY <1>1, TurnResumers DEF Resumes, Hands
<1>4. call'[t].at = "resume_all" /\ want'[t] = o  BY <1>1, TurnIs
<1>5. ASSUME NEW p \in Object \ alive PROVE Dead(p)'
  BY <1>2, <1>3, <1>5, NoMoveAlone, ResumersKeep, DeadStays DEF DeadInv
<1>6. Dead(o)'
  <2>1. \A q : Emptying(o, q)'  BY <1>1, <1>4 DEF Emptying, Resumes
  <2>2. ASSUME NEW q \in ListsOf(o), q \in MailList PROVE Abandoned(q)'
    <3>1. o \in Mailbox \cup Queue  BY <1>1, <2>2, ListsAre, MailLists DEF MailList
    <3>2. AllWait(o) /\ NextList(o) = Private[o]  BY <1>1, <3>1, ListsAre
    <3>3. q \in WaitList  BY <1>1, <2>2, ListsAre
    <3>4. ASSUME NEW x \in Thread, want[x] = q PROVE OnWait(kern, q, x)
      <4>1. PICK l \in ListsOf(o) : OnWait(kern, l, x)
        BY <2>2, <3>2, <3>4 DEF AllWait, ListsOf, OnWait
      <4>2. l \in WaitList  BY <1>1, ListsAre
      <4>3. want[x] = l  BY <4>1, <4>2, WaitersOf
      <4> QED BY <3>4, <4>1, <4>3
    <3>5. Abandoned(q)
      <4>1. \A x \in Thread : OnWait(kern, q, x) => call[x].at \in Asleep  BY <3>3, WaitersOf
      <4>2. Asleep \cap Hands = {}  BY DEF Asleep, Hands
      <4> QED BY <3>4, <4>1, <4>2 DEF Abandoned, ServedAt, ServedIn, InHands
    <3>6. Quiet(q) /\ HandsOff(q)  BY <1>2, <1>3, <3>3, NobodyMoves
    <3>7. Coming(q)' = Coming(q)  BY <3>3, <3>6, QuietList
    <3>8. \A x \in Thread : ~ServedAt(x, q)'  BY <3>5, <3>7 DEF Coming, Abandoned
    <3> QED BY <3>5, <3>6, <3>8 DEF Abandoned, HandsOff
  <2> QED BY <2>1, <2>2 DEF Dead
<1> QED BY <1>1, <1>5, <1>6 DEF DeadInv

(* A step that moves pairs of one list leaves the others quiet.             *)
LEMMA NotPairs ==
  ASSUME NEW s, NEW M, Moves(M), \A x, w : <<x, w>> \in M => w = s
  PROVE  QuietOutside({s})
PROOF
<1>1. \A x, w : <<x, w>> \in M => w \in {s}  OBVIOUS
<1> QED BY <1>1, QuietBut

(* A step that does not touch the kernel leaves the deleted objects alone.  *)
LEMMA StillLeaves ==
  ASSUME IpcInv, kern' = kern, NEW S, QuietOutside(S), S \cap MailList = {}
  PROVE  \A o \in Object \ alive : LeavesAlone(o)
BY StillAlone

(* A step about one living object with one list leaves every deleted object *)
(* alone.                                                                   *)
LEMMA OneLeavesAlone ==
  ASSUME IpcInv, NEW p \in alive, QuietOutside({p})
  PROVE  \A o \in Object \ alive : LeavesAlone(o)
BY OneAlone

(* A step that moves nobody leaves every deleted object alone.              *)
LEMMA NobodyLeaves ==
  ASSUME Moves({})
  PROVE  \A o \in Object \ alive : LeavesAlone(o)
BY NoMoveAlone

(* A step of a semaphore leaves the deleted objects alone.                  *)
LEMMA SemAlone ==
  ASSUME IpcInv, SemStep
  PROVE  \A o \in Object \ alive : LeavesAlone(o)
PROOF
<1> DEFINE DeadLeft == \A o \in Object \ alive : LeavesAlone(o)
<1>1. QuietOutside(Semaphore) /\ Semaphore \cap MailList = {}  BY SemStepMoves, KindsApart
<1>2. Semaphore \subseteq WaitList  BY SemIs
<1> HIDE DEF DeadLeft
<1>3. ASSUME kern' = kern PROVE DeadLeft
  BY <1>1, <1>3, StillLeaves DEF DeadLeft
<1>4. ASSUME NEW t \in Thread, NEW s \in Semaphore, SemTakeNow(t, s) PROVE DeadLeft
  BY <1>3, <1>4 DEF SemTakeNow, ipcVars
<1>5. ASSUME NEW t \in Thread, NEW s \in Semaphore, SemRelease(t, s) PROVE DeadLeft
  <2>1. Moves(Handed(s)) /\ s \in alive  BY <1>5, SemReleaseStep DEF SemRelease, Uses
  <2>2. \A x, w : <<x, w>> \in Handed(s) => w = s  BY HandedOnly
  <2>3. QuietOutside({s})  BY <2>1, <2>2, NotPairs
  <2> QED BY <2>1, <2>3, OneLeavesAlone DEF DeadLeft
<1>6. ASSUME NEW t \in Thread, NEW s \in Semaphore, NEW n \in WaitTime, SemTakeWait(t, s, n)
      PROVE  DeadLeft
  <2>1. Uses(t, s) /\ n \in Nat /\ WaitOn(kern, t, s, n) /\ s \in WaitList /\ s \in alive
    BY <1>2, <1>6, TimesAreNat DEF SemTakeWait, Uses
  <2>2. Moves({<<t, s>>})  BY <2>1, AlikeSelf, WaitsStep DEF Alike
  <2>3. \A x, w : <<x, w>> \in {<<t, s>>} => w = s  OBVIOUS
  <2>4. QuietOutside({s})  BY <2>2, <2>3, NotPairs
  <2> QED BY <2>1, <2>4, OneLeavesAlone DEF DeadLeft
<1>7. ASSUME NEW t \in Thread, NEW s \in Semaphore, NEW v, SemReset(t, s, v) PROVE DeadLeft
  <2>1. Moves({})  BY <1>7, ResetOneStep DEF SemReset
  <2> QED BY <2>1, NobodyLeaves DEF DeadLeft
<1>8. ASSUME NEW t \in Thread, NEW s \in Semaphore, DeleteBegin(t, s) PROVE DeadLeft
  BY <1>3, <1>8 DEF DeleteBegin
<1>9. ASSUME NEW t \in Thread, SemTakeReturn(t) PROVE DeadLeft
  BY <1>3, <1>9 DEF SemTakeReturn
<1>10. ASSUME NEW s \in Semaphore, SemSignal(s) PROVE DeadLeft
  <2>1. InHandler(s, s) /\ s \in WaitList /\ s \in alive  BY <1>2, <1>10 DEF SemSignal, InHandler
  <2>2. Moves(Handed(s))  BY <2>1, HandlerStep
  <2>3. \A x, w : <<x, w>> \in Handed(s) => w = s  BY HandedOnly
  <2>4. QuietOutside({s})  BY <2>2, <2>3, NotPairs
  <2> QED BY <2>1, <2>4, OneLeavesAlone DEF DeadLeft
<1> QED BY <1>4, <1>5, <1>6, <1>7, <1>8, <1>9, <1>10 DEF SemStep, SemCall, SemHandler, DeadLeft

(* A step of a mutex leaves the deleted objects alone.                      *)
LEMMA MutexAlone ==
  ASSUME IpcInv, MutexInv, MutexStep
  PROVE  \A o \in Object \ alive : LeavesAlone(o)
PROOF
<1> DEFINE DeadLeft == \A o \in Object \ alive : LeavesAlone(o)
<1>1. QuietOutside(Mutex) /\ Mutex \cap MailList = {}  BY MutexStepMoves, KindsApart
<1> HIDE DEF DeadLeft
<1>2. PICK t \in Thread : MutexCall(t) \/ MutexTakeReturn(t)  BY DEF MutexStep
<1>3. ASSUME kern' = kern PROVE DeadLeft
  BY <1>1, <1>3, StillLeaves DEF DeadLeft
<1>4. ASSUME Moves({}) PROVE DeadLeft
  BY <1>4, NobodyLeaves DEF DeadLeft
<1>5. ASSUME NEW m \in Mutex, \/ MutexTakeAgain(t, m) \/ MutexTakeFree(t, m)
                              \/ MutexTakeRefused(t, m) \/ MutexReleaseInner(t, m)
                              \/ MutexReleaseRefused(t, m)
                              \/ (DeleteBegin(t, m) /\ UNCHANGED mutex)
      PROVE  DeadLeft
  BY <1>4, <1>5, MutexTakeAgainStep, MutexTakeFreeStep, MutexRefusedStep, MutexReleaseInnerStep
<1>6. ASSUME NEW m \in Mutex, NEW n \in WaitTime, MutexTakeWait(t, m, n) PROVE DeadLeft
  <2>1. Moves({<<t, m>>}) /\ m \in alive
    BY <1>6, MutexTakeWaitStep DEF MutexTakeWait, Uses
  <2>2. \A x, w : <<x, w>> \in {<<t, m>>} => w = m  OBVIOUS
  <2>3. QuietOutside({m})  BY <2>1, <2>2, NotPairs
  <2> QED BY <2>1, <2>3, OneLeavesAlone DEF DeadLeft
<1>7. ASSUME NEW m \in Mutex, MutexRelease(t, m) PROVE DeadLeft
  <2>1. Moves(Handed(m)) /\ m \in alive  BY <1>7, MutexReleaseStep DEF MutexRelease, Uses
  <2>2. \A x, w : <<x, w>> \in Handed(m) => w = m  BY HandedOnly
  <2>3. QuietOutside({m})  BY <2>1, <2>2, NotPairs
  <2> QED BY <2>1, <2>3, OneLeavesAlone DEF DeadLeft
<1>8. CASE MutexTakeReturn(t)
  BY <1>3, <1>8 DEF MutexTakeReturn, DeadLeft
<1> QED BY <1>2, <1>5, <1>6, <1>7, <1>8 DEF MutexCall, DeadLeft

(* A step of an event set leaves the deleted objects alone.                 *)
LEMMA EventAlone ==
  ASSUME IpcInv, EventInv, EventStep
  PROVE  \A o \in Object \ alive : LeavesAlone(o)
PROOF
<1> DEFINE DeadLeft == \A o \in Object \ alive : LeavesAlone(o)
<1>1. QuietOutside(EventSet) /\ EventSet \cap MailList = {}
  BY EventStepMoves, KindsApart DEF QuietEvents
<1> HIDE DEF DeadLeft
<1>2. ASSUME kern' = kern PROVE DeadLeft
  BY <1>1, <1>2, StillLeaves DEF DeadLeft
<1>3. ASSUME Moves({}) PROVE DeadLeft
  BY <1>3, NobodyLeaves DEF DeadLeft
<1>4. ASSUME NEW e \in alive, QuietOutside({e}) PROVE DeadLeft
  BY <1>4, OneLeavesAlone DEF DeadLeft
<1>5. ASSUME NEW t \in Thread, NEW e \in EventSet, NEW s \in SUBSET Event, EventSend(t, e, s)
      PROVE  DeadLeft
  BY <1>4, <1>5, EventSendStep DEF EventSend, Uses
<1>6. ASSUME NEW t \in Thread, NEW e \in EventSet, NEW w \in Interest,
             EventNow(t, e, w) \/ EventRefused(t, e, w)
      PROVE  DeadLeft
  <2>1. Moves({})  BY <1>6, ErrorStep DEF EventNow, EventRefused, Error
  <2> QED BY <1>3, <2>1
<1>7. ASSUME NEW t \in Thread, NEW e \in EventSet, NEW w \in Interest, NEW n \in WaitTime,
             EventWait(t, e, w, n)
      PROVE  DeadLeft
  BY <1>4, <1>7, EventWaitStep DEF EventWait, Uses
<1>8. ASSUME NEW t \in Thread, NEW e \in EventSet, EventReset(t, e) PROVE DeadLeft
  <2>1. Moves({})  BY <1>8, ResetOneStep DEF EventReset
  <2> QED BY <1>3, <2>1
<1>9. ASSUME NEW t \in Thread, NEW e \in EventSet, DeleteBegin(t, e) PROVE DeadLeft
  BY <1>2, <1>9 DEF DeleteBegin
<1>10. ASSUME NEW t \in Thread, EventReturn(t) PROVE DeadLeft
  BY <1>2, <1>10 DEF EventReturn
<1>11. ASSUME NEW e \in EventSet, NEW s \in SUBSET Event, EventPost(e, s) PROVE DeadLeft
  BY <1>4, <1>11, EventPostStep DEF EventPost
<1> QED BY <1>5, <1>6, <1>7, <1>8, <1>9, <1>10, <1>11 DEF EventStep, EventCall, EventHandler, DeadLeft

(* A step that keeps every deleted object dead.                             *)
Undisturbed ==
  \A o \in Object \ alive :
    LeavesAlone(o) /\ EmptyingKept(o) /\ \A q \in ListsOf(o) : HandsOff(q)

(* A turn about a living mailbox disturbs no deleted object.                *)
LEMMA TurnUndisturbed ==
  ASSUME IpcInv, NEW t \in Thread, NEW p \in alive, QuietOutside({p, Private[p]}),
         call[t].at \notin Resumes, NEW pl, NEW v, Turn(t, pl, v), pl \notin Hands \/ v = p
  PROVE  Undisturbed
PROOF
<1>1. ASSUME NEW o \in Object \ alive PROVE LeavesAlone(o)  BY OthersAlone
<1>2. ResumersKept /\ \A q : pl \notin Hands \/ v # q => HandsOff(q)
  BY TurnResumers
<1>3. ASSUME NEW o \in Object \ alive, NEW q \in ListsOf(o) PROVE HandsOff(q)
  <2>1. p \in Object /\ p # o  BY DEF IpcInv
  <2>2. q # p  BY <2>1, <1>3, ListsAre
  <2> QED BY <1>2, <2>2
<1> QED BY <1>1, <1>2, <1>3, ResumersKeep DEF Undisturbed

(* A turn about a living queue disturbs no deleted object.                  *)
LEMMA QueueUndisturbed ==
  ASSUME IpcInv, NEW t \in Thread, NEW p \in alive, QuietOutside({p}),
         call[t].at \notin Resumes, NEW pl, NEW v, Turn(t, pl, v), pl \notin Hands \/ v = p
  PROVE  Undisturbed
PROOF
<1>1. {p} \subseteq {p, Private[p]}  OBVIOUS
<1>2. QuietOutside({p, Private[p]})  BY <1>1, QuietIn
<1> QED BY <1>2, TurnUndisturbed

(* A step that moves nobody and no deleter disturbs no deleted object.      *)
LEMMA NobodyUndisturbed ==
  ASSUME IpcInv, QuietOutside({}), InsideKept
  PROVE  Undisturbed
PROOF
<1>1. ASSUME NEW o \in Object PROVE LeavesAlone(o)
  <2>1. \A q \in ListsOf(o) : Quiet(q)  BY ListsAre DEF QuietOutside
  <2> QED BY <2>1, QuietShrinks DEF LeavesAlone
<1> QED BY <1>1, InsideResumers, ResumersKeep DEF Undisturbed

(* A step about a living mailbox that moves no deleter disturbs no deleted  *)
(* object.                                                                  *)
LEMMA OthersUndisturbed ==
  ASSUME IpcInv, NEW p \in alive, QuietOutside({p, Private[p]}), InsideKept
  PROVE  Undisturbed
BY OthersAlone, InsideResumers, ResumersKeep DEF Undisturbed

(* A thread that comes back to a mailbox or a queue finds it alive.         *)
LEMMA TriesLiving ==
  ASSUME IpcInv, DeadInv, NEW o \in Mailbox \cup Queue, NEW w \in MailList, w \in ListsOf(o),
         NEW t, Tries(t, w)
  PROVE  o \in alive /\ t \in Thread /\ call[t].at = "woken"
PROOF
<1>1. t \in Coming(w) /\ t \in Thread /\ call[t].at = "woken"  BY TriesComing
<1>2. o \in Object  BY MailLists
<1>3. o \notin alive => Abandoned(w)  BY <1>2 DEF DeadInv, Dead
<1> QED BY <1>1, <1>3 DEF Coming, Abandoned

(* A call goes on with a mailbox only while that is alive.                  *)
LEMMA BoxLiving ==
  ASSUME IpcInv, DeadInv, NEW m \in Mailbox, NEW t,
         Uses(t, m) \/ Tries(t, m) \/ Tries(t, Private[m])
  PROVE  m \in alive /\ t \in Thread /\ call[t].at \notin Resumes
PROOF
<1>1. m \in MailList /\ Private[m] \in MailList /\ m \in Object /\ None \notin MailList
  BY MailLists
<1>2. m \in ListsOf(m) /\ Private[m] \in ListsOf(m)  BY <1>1 DEF ListsOf
<1>3. CASE Uses(t, m)  BY <1>3, UsesFacts DEF Resumes
<1>4. CASE Tries(t, m)  BY <1>1, <1>2, <1>4, TriesLiving DEF Resumes
<1>5. CASE Tries(t, Private[m])  BY <1>1, <1>2, <1>5, TriesLiving DEF Resumes
<1> QED BY <1>3, <1>4, <1>5

(* A call goes on with a queue only while that is alive.                    *)
LEMMA QueueLiving ==
  ASSUME IpcInv, DeadInv, NEW q \in Queue, NEW t,
         Uses(t, q) \/ Tries(t, q) \/ (t \in Thread /\ InHands(t) /\ want[t] = q)
  PROVE  q \in alive /\ t \in Thread /\ call[t].at \notin Resumes
PROOF
<1>1. q \in MailList /\ q \in Object /\ q \in ListsOf(q)
  BY MailLists, ListsAre
<1>2. CASE Uses(t, q)  BY <1>2, UsesFacts DEF Resumes
<1>3. CASE Tries(t, q)  BY <1>1, <1>3, TriesLiving DEF Resumes
<1>4. CASE t \in Thread /\ InHands(t) /\ want[t] = q
  <2>1. q \notin alive => Abandoned(q)  BY <1>1 DEF DeadInv, Dead
  <2> QED BY <1>4, <2>1 DEF Abandoned, InHands, Hands, Resumes
<1> QED BY <1>2, <1>3, <1>4

(* The turns of the calls about mail.                                       *)
LEMMA MailTurns ==
  ASSUME NEW t
  PROVE  /\ \A m, v : Sent(t, m, v) => \E pl : pl \notin Hands /\ Turn(t, pl, None)
         /\ \A m : Received(t, m) => \E pl : pl \notin Hands /\ Turn(t, pl, None)
         /\ \A w, n, j : WaitMail(t, w, n, j) => Turn(t, "block", w)
         /\ \A e : Exhausted(t, e) => Turn(t, "app", None)
         /\ \A q : Fetch(t, q) => Turn(t, "copy", q)
PROOF
<1>1. \A m, v : Sent(t, m, v) => \E pl : pl \notin Hands /\ Turn(t, pl, None)
  BY ScheduleTurn DEF Sent
<1>2. \A m : Received(t, m) => \E pl : pl \notin Hands /\ Turn(t, pl, None)
  BY ScheduleTurn DEF Received
<1>3. \A w, n, j : WaitMail(t, w, n, j) => Turn(t, "block", w)
  BY WaitOnTurn DEF WaitMail
<1>4. \A e : Exhausted(t, e) => Turn(t, "app", None)
  BY WaitOverTurn DEF Exhausted
<1>5. \A q : Fetch(t, q) => Turn(t, "copy", q)
  BY DEF Fetch, Goto, Turn, Puts
<1> QED BY <1>1, <1>2, <1>3, <1>4, <1>5

(* The calls of a mailbox disturb no deleted object.                        *)
LEMMA BoxUndisturbed ==
  ASSUME IpcInv, MailInv, NoSleep, DeadInv, NEW t, NEW m \in Mailbox,
         \/ \E n \in WaitTime, v \in Mail : BoxSend(t, m, v, n)
         \/ \E n \in WaitTime : BoxReceive(t, m, n)
         \/ BoxSendAgain(t, m) \/ BoxReceiveAgain(t, m)
  PROVE  Undisturbed
PROOF
<1>1. QuietOutside({m, Private[m]})
  BY BoxSendStep, BoxReceiveStep, BoxSendAgainStep, BoxReceiveAgainStep
<1>2. m \in alive /\ t \in Thread /\ call[t].at \notin Resumes
  BY BoxLiving DEF BoxSend, BoxReceive, BoxSendAgain, BoxReceiveAgain
<1>3. \E pl, v : pl \notin Hands /\ Turn(t, pl, v)
  BY MailTurns, Elsewhere DEF BoxSend, BoxReceive, BoxSendAgain, BoxReceiveAgain
<1> QED BY <1>1, <1>2, <1>3, TurnUndisturbed

(* The calls of a message queue disturb no deleted object.                  *)
LEMMA QueueCallUndisturbed ==
  ASSUME IpcInv, MailInv, NoSleep, DeadInv, NEW t, NEW q \in Queue,
         \/ \E n \in WaitTime : QueueReceive(t, q, n)
         \/ \E v \in Mail : QueueSend(t, q, v)
         \/ QueueReceiveAgain(t, q) \/ QueueLink(t, q) \/ QueueRead(t, q)
  PROVE  Undisturbed
PROOF
<1>1. QuietOutside({q})
  BY QueueSendStep, QueueReceiveStep, QueueReceiveAgainStep, QueueLinkStep, QueueReadStep
<1>2. q \in alive /\ t \in Thread /\ call[t].at \notin Resumes
  <2>1. CASE (\E v : QueueSend(t, q, v)) \/ (\E n : QueueReceive(t, q, n)) \/ QueueReceiveAgain(t, q)
    BY <2>1, QueueLiving DEF QueueSend, QueueReceive, QueueReceiveAgain
  <2>2. CASE QueueLink(t, q) \/ QueueRead(t, q)
    <3>1. PICK pl \in Hands : Runs(t, pl) /\ want[t] = q
      BY <2>2 DEF QueueLink, QueueRead, Hands
    <3>2. t \in Thread /\ InHands(t)
      BY <3>1, RunsFacts DEF InHands, Hands
    <3> QED BY <3>1, <3>2, QueueLiving
  <2> QED BY <2>1, <2>2
<1>3. \E pl, v : (pl \notin Hands \/ v = q) /\ Turn(t, pl, v)
  <2>1. CASE \E v : QueueSend(t, q, v)
    <3>1. Turn(t, "fill", q)  BY <2>1 DEF QueueSend, Goto, Turn, Puts
    <3> QED BY <3>1
  <2>2. CASE QueueLink(t, q)
    BY <2>2, ScheduleTurn DEF QueueLink
  <2>3. CASE QueueRead(t, q)
    <3>1. Turn(t, "app", None)  BY <2>3 DEF QueueRead, Return, InApp, To, Turn, Puts
    <3> QED BY <3>1, Elsewhere
  <2>4. CASE (\E n : QueueReceive(t, q, n)) \/ QueueReceiveAgain(t, q)
    BY <2>4, MailTurns, Elsewhere DEF QueueReceive, QueueReceiveAgain
  <2> QED BY <2>1, <2>2, <2>3, <2>4
<1> QED BY <1>1, <1>2, <1>3, QueueUndisturbed

(* A step of a mailbox or a message queue deletes one, or disturbs no       *)
(* deleted object.                                                          *)
LEMMA MailUndisturbed ==
  ASSUME IpcInv, MailInv, NoSleep, DeadInv, MailStep
  PROVE  Undisturbed \/ \E t \in Thread, o \in Mailbox \cup Queue : MailDelete(t, o)
PROOF
<1>1. ASSUME NEW t \in Thread, NEW m \in Mailbox, BoxReset(t, m) PROVE Undisturbed
  <2>1. QuietOutside({})  BY <1>1, BoxResetStep
  <2>2. InsideKept  BY <1>1, UsesKeeps DEF BoxReset
  <2> QED BY <2>1, <2>2, NobodyUndisturbed
<1>2. ASSUME NEW t \in Thread, NEW q \in Queue, QueueReset(t, q) PROVE Undisturbed
  <2>1. QuietOutside({q})  BY <1>2, QueueResetStep
  <2>2. InsideKept  BY <1>2, UsesKeeps DEF QueueReset
  <2>3. q \in alive /\ {q} \subseteq {q, Private[q]}  BY <1>2 DEF QueueReset, Uses
  <2>4. QuietOutside({q, Private[q]})  BY <2>1, <2>3, QuietIn
  <2> QED BY <2>2, <2>3, <2>4, OthersUndisturbed
<1>3. ASSUME NEW t \in Thread, WaitFailed(t) PROVE Undisturbed
  <2>1. QuietOutside({})  BY <1>3, WaitFailedStep
  <2>2. InsideKept  BY <1>3, WokenKeeps DEF WaitFailed
  <2> QED BY <2>1, <2>2, NobodyUndisturbed
<1>4. ASSUME NEW m \in Mailbox, NEW v \in Mail, BoxPost(m, v) PROVE Undisturbed
  <2>1. QuietOutside({m, Private[m]})  BY <1>4, BoxPostStep
  <2>2. InsideKept /\ m \in alive  BY <1>4, StillKeeps DEF BoxPost, InHandler, waitVars
  <2> QED BY <2>1, <2>2, OthersUndisturbed
<1>5. ASSUME NEW q \in Queue, NEW v \in Mail, QueuePost(q, v) PROVE Undisturbed
  <2>1. QuietOutside({q})  BY <1>5, QueuePostStep, MutexAssumption
  <2>2. InsideKept /\ q \in alive  BY <1>5, StillKeeps DEF QueuePost, InHandler, waitVars
  <2>3. {q} \subseteq {q, Private[q]}  OBVIOUS
  <2>4. QuietOutside({q, Private[q]})  BY <2>1, <2>3, QuietIn
  <2> QED BY <2>2, <2>4, OthersUndisturbed
<1>6. CASE MailTick
  <2>1. QuietOutside({})  BY <1>6, MailTickStep
  <2>2. UNCHANGED <<call, want>>
    BY <1>6 DEF MailTick, IpcTick, Interrupt, Tick, TimerFires, TickDone, waitVars
  <2> QED BY <2>1, <2>2, StillKeeps, NobodyUndisturbed
<1>7. ASSUME NEW t \in Thread, MailCall(t)
      PROVE  Undisturbed \/ \E o \in Mailbox \cup Queue : MailDelete(t, o)
  BY <1>1, <1>2, <1>7, BoxUndisturbed, QueueCallUndisturbed DEF MailCall
<1>8. ASSUME NEW t \in Thread, MailInside(t) PROVE Undisturbed
  BY <1>3, <1>8, BoxUndisturbed, QueueCallUndisturbed DEF MailInside
<1>9. CASE MailHandler  BY <1>4, <1>5, <1>9 DEF MailHandler
<1> QED BY <1>6, <1>7, <1>8, <1>9 DEF MailStep

(* The loop of rt_ipc_list_resume_all ends, or goes on to the next list,    *)
(* only when its list is empty.                                             *)
LEMMA TestKeeps ==
  ASSUME IpcInv, NEW t, ResumeAllTest(t), NEW o \in Object
  PROVE  EmptyingKept(o)
PROOF
<1> SUFFICES ASSUME NEW q \in ListsOf(o), Waiting(kern', q), NEW x \in Thread,
                    want[x] \in {o, q}, call[x].at \in Resumes
             PROVE  Emptying(o, q)'
  BY DEF EmptyingKept, Emptying
<1>1. kern' = kern /\ Runs(t, "resume_all")  BY DEF ResumeAllTest
<1>2. t \in Thread /\ call[t].at = "resume_all"  BY <1>1, RunsFacts
<1>3. Puts(want, t, want[t], want) /\ Puts(call, t, To("resume_all", Idle), call)
  BY <1>2, CallIs
<1>4. CASE Waiting(kern, want[t])
  <2>1. Turn(t, "resume_one", want[t])
    BY <1>3, <1>4 DEF ResumeAllTest, Goto, Turn, Puts
  <2>2. call'[x].at \in Resumes /\ want'[x] = want[x]
    BY <1>2, <2>1, TurnIs DEF Resumes
  <2> QED BY <2>2 DEF Emptying
<1>5. CASE ~Waiting(kern, want[t])
  <2>1. CASE x # t
    <3>1. \E pl, v : Turn(t, pl, v)
      <4>1. CASE NextList(want[t]) = None
        BY <1>5, <4>1 DEF ResumeAllTest, Return, InApp, To, Turn, Puts
      <4>2. CASE NextList(want[t]) # None
        BY <1>3, <1>5, <4>2 DEF ResumeAllTest, Turn, Puts
      <4> QED BY <4>1, <4>2
    <3>2. call'[x] = call[x] /\ want'[x] = want[x]  BY <1>2, <2>1, <3>1, TurnIs
    <3> QED BY <3>2 DEF Emptying
  <2>2. CASE x = t
    <3>1. want[t] # q  BY <1>1, <1>5
    <3>2. want[t] = o /\ q = Private[o] /\ q # None
      BY <2>2, <3>1, ListsAre DEF ListsOf
    <3>3. NextList(want[t]) = q  BY <3>2, ListsAre
    <3>4. Turn(t, "resume_all", q)
      BY <1>3, <1>5, <3>2, <3>3 DEF ResumeAllTest, Turn, Puts
    <3>5. call'[t].at \in Resumes /\ want'[t] = q  BY <1>2, <3>4, TurnIs DEF Resumes
    <3> QED BY <1>2, <3>5 DEF Emptying
  <2> QED BY <2>1, <2>2
<1> QED BY <1>4, <1>5

(* The loop of rt_ipc_list_resume_all goes on after it has woken a thread.  *)
LEMMA OneKeeps ==
  ASSUME IpcInv, NEW t, ResumeAllOne(t)
  PROVE  \A o : EmptyingKept(o)
PROOF
<1>1. Turn(t, "resume_all", want[t]) /\ t \in Thread
  <2>1. Runs(t, "resume_one")  BY DEF ResumeAllOne
  <2>2. t \in Thread  BY <2>1, RunsFacts
  <2>3. Puts(want, t, want[t], want)  BY <2>2, CallIs
  <2> QED BY <2>2, <2>3 DEF ResumeAllOne, Goto, Turn, Puts
<1>2. \A x \in Thread : call[x].at \in Resumes => call'[x].at \in Resumes /\ want'[x] = want[x]
  BY <1>1, TurnIs DEF Resumes
<1> QED BY <1>2 DEF EmptyingKept, Emptying

(* The scheduler, the ticks and the loop of rt_ipc_list_resume_all disturb  *)
(* no deleted object.                                                       *)
LEMMA ThreadsUndisturbed ==
  ASSUME IpcInv, ThreadsStep
  PROVE  Undisturbed
PROOF
<1>1. Moves({}) /\ HandsKept  BY ThreadsStepMoves, ThreadsShape
<1>2. PICK t \in Thread : InIpc(t) \/ Delays(t)  BY DEF ThreadsStep
<1>3. \A o \in Object : EmptyingKept(o)
  <2>0. Puts(want, t, want[t], want)  BY CallIs
  <2>1. CASE Reschedule(t) /\ UNCHANGED waitVars
    <3>1. Turn(t, "app", want[t])
      BY <2>0, <2>1 DEF Reschedule, Return, InApp, To, Turn, Puts, waitVars
    <3>2. call[t].at \notin Resumes  BY <2>1 DEF Reschedule, Runs, Resumes
    <3> QED BY <3>1, <3>2, TurnResumers, ResumersKeep
  <2>2. CASE SleepSchedule(t) /\ UNCHANGED waitVars
    <3>1. Turn(t, "woken", want[t])
      BY <2>0, <2>2 DEF SleepSchedule, Goto, Turn, Puts, waitVars
    <3>2. call[t].at \notin Resumes  BY <2>2 DEF SleepSchedule, Runs, Resumes
    <3> QED BY <3>1, <3>2, TurnResumers, ResumersKeep
  <2>3. CASE ResumeAllTest(t)  BY <2>3, TestKeeps
  <2>4. CASE ResumeAllOne(t)  BY <2>4, OneKeeps
  <2>5. CASE Slept(t) /\ UNCHANGED waitVars
    <3>1. Turn(t, "app", want[t])
      BY <2>0, <2>5 DEF Slept, Return, InApp, To, Turn, Puts, waitVars
    <3>2. call[t].at \notin Resumes  BY <2>5 DEF Slept, Runs, Resumes
    <3> QED BY <3>1, <3>2, TurnResumers, ResumersKeep
  <2>6. CASE (\E n : Sleep(t, n)) /\ UNCHANGED waitVars
    <3>1. Turn(t, "block", want[t])
      BY <2>0, <2>6 DEF Sleep, Goto, Turn, Puts, waitVars
    <3>2. call[t].at \notin Resumes  BY <2>6 DEF Sleep, Runs, Resumes
    <3> QED BY <3>1, <3>2, TurnResumers, ResumersKeep
  <2> QED BY <1>2, <2>1, <2>2, <2>3, <2>4, <2>5, <2>6 DEF InIpc, Delays
<1> QED BY <1>1, <1>3, NoMoveAlone, HandsOffKept DEF Undisturbed

(* A step that deletes nothing and disturbs no deleted object keeps         *)
(* DeadInv.                                                                 *)
LEMMA NotDeleted ==
  ASSUME IpcInv, IpcInv', DeadInv, alive' = alive, Undisturbed
  PROVE  DeadInv'
BY AllDeadStay DEF Undisturbed

(* The deletion of a semaphore, a mutex or an event set keeps DeadInv.      *)
LEMMA KindDeleted ==
  ASSUME IpcInv, IpcInv', DeadInv, NEW S, Deletes(S), S \cap (Mailbox \cup Queue) = {}
  PROVE  DeadInv'
PROOF
<1>1. PICK t, o : o \in S /\ DeleteBegin(t, o)  BY DEF Deletes
<1> QED BY <1>1, DeletedIs

(* Every step keeps DeadInv.                                                *)
LEMMA DeadNext ==
  ASSUME ObjInv, DeadInv, ObjectsNext
  PROVE  DeadInv'
PROOF
<1>1. IpcInv /\ IpcInv' /\ MutexInv /\ MailInv /\ NoSleep /\ EventInv
  BY ObjectsNextInv DEF ObjInv
<1>2. ASSUME InsideKept, alive' = alive, \A o \in Object \ alive : LeavesAlone(o)
      PROVE  DeadInv'
  <2>1. Undisturbed  BY <1>2, InsideResumers, ResumersKeep DEF Undisturbed
  <2> QED BY <1>1, <1>2, <2>1, NotDeleted
<1>3. CASE SemStep
  BY <1>1, <1>2, <1>3, SemAlone, SemShape, KindDeleted, KindAssumption
<1>4. CASE MutexStep
  BY <1>1, <1>2, <1>4, MutexAlone, MutexShape, KindDeleted, KindAssumption
<1>5. CASE EventStep
  BY <1>1, <1>2, <1>5, EventAlone, EventShape, KindDeleted, KindAssumption
<1>6. CASE ThreadsStep
  BY <1>1, <1>6, ThreadsUndisturbed, ThreadsShape, NotDeleted
<1>7. CASE MailStep
  <2>1. CASE \E t \in Thread, o \in Mailbox \cup Queue : MailDelete(t, o)
    BY <1>1, <2>1, DeletedIs DEF MailDelete
  <2>2. CASE ~\E t \in Thread, o \in Mailbox \cup Queue : MailDelete(t, o)
    BY <1>1, <1>7, <2>2, MailUndisturbed, MailShape, NotDeleted
  <2> QED BY <2>1, <2>2
<1> QED BY <1>3, <1>4, <1>5, <1>6, <1>7 DEF ObjectsNext

(* A stuttering step keeps DeadInv.                                         *)
LEMMA DeadIdle ==
  ASSUME ObjInv, DeadInv, UNCHANGED objectVars
  PROVE  DeadInv'
PROOF
<1>1. UNCHANGED <<ipcVars, semVars, mutex, mailVars, eventVars>>  BY DEF objectVars
<1>2. UNCHANGED <<kern, call, isr, want, alive, wild>>  BY <1>1 DEF ipcVars, waitVars
<1>3. IpcInv /\ IpcInv'  BY ObjectsIdleInv DEF ObjInv
<1>4. QuietOutside({})  BY <1>1, <1>3, IdleStep, QuietAll
<1>5. InsideKept  BY <1>2, StillKeeps
<1> QED BY <1>2, <1>3, <1>4, <1>5, NobodyUndisturbed, NotDeleted

(* A thread still waiting on an object that was deleted is about to be      *)
(* woken: the loop of rt_ipc_list_resume_all that its deleter is in has not *)
(* ended (rt_sem_delete, rt_mutex_delete, rt_event_delete, rt_mb_delete,    *)
(* rt_mq_delete, ipc.c).                                                    *)
THEOREM NobodyIsLeftBehind == ObjectsSpec => []DeletedHasNoWaiter
PROOF
<1>1. ASSUME ObjectsInit PROVE DeadInv
  <2>1. /\ \A q \in WaitList : ~Waiting(kern, q)
        /\ \A t \in Thread : call[t].at = "app"
    BY <1>1, NobodyMoving DEF ObjectsInit
  <2>2. \A q : Abandoned(q)
    BY <2>1 DEF Abandoned, ServedAt, ServedIn, Asleep, InHands, Hands
  <2> QED BY <2>1, <2>2, ListsAre DEF DeadInv, Dead
<1>2. ObjInv /\ DeadInv /\ [ObjectsNext]_objectVars => DeadInv'
  BY DeadNext, DeadIdle
<1>3. DeadInv => DeletedHasNoWaiter
  BY DEF DeadInv, Dead, DeletedHasNoWaiter, ListsOf, Emptying, Resumes
<1> QED BY <1>1, <1>2, <1>3, ObjectsInvariant, PTL DEF ObjectsSpec

-----------------------------------------------------------------------------
(* In which order waiters leave a list *)

(* Whoever leaves list q without an error was the first of its waiters.     *)
Passing(q) ==
  \A x \in Thread :
    OnWait(kern, q, x) /\ ~OnWait(kern', q, x) /\ kern'.error[x] = "ok" => x \in First(q)

(* A step that lets nobody past another waiter, on any list.                *)
NobodyPasses == \A q \in WaitList : Passing(q)

(* Nobody leaves list q.                                                    *)
Held(q) == \A x \in Thread : OnWait(kern, q, x) => OnWait(kern', q, x)

(* A step that takes waiters off the lists in S only.                       *)
HeldOutside(S) == \A q \in WaitList \ S : Held(q)

(* A step that takes at most one waiter off its list.                       *)
OneOff ==
  \E u \in Thread : \A q \in WaitList : \A x \in Thread \ {u} :
    OnWait(kern, q, x) => OnWait(kern', q, x)

(* A step that takes waiters off the lists in S only, and lets nobody past  *)
(* another.                                                                 *)
Orderly(S) == NobodyPasses /\ HeldOutside(S)

(* The more lists, the less is said.                                        *)
LEMMA OrderlyIn ==
  ASSUME NEW S, NEW T, S \subseteq T, Orderly(S)
  PROVE  Orderly(T)
BY DEF Orderly, HeldOutside

(* A step that takes nobody off a list.                                     *)
LEMMA AllHeld ==
  ASSUME Orderly({})
  PROVE  OneOff /\ \A S : Orderly(S)
PROOF
<1>1. Idle \in Thread  BY ThreadAssumption
<1>2. OneOff  BY <1>1 DEF Orderly, HeldOutside, Held, OneOff
<1>3. \A S : Orderly(S)  BY DEF Orderly, HeldOutside
<1> QED BY <1>2, <1>3

(* A step that wakes R, each of them either with an error or as the first   *)
(* of its list, which is one of S.                                          *)
LEMMA WakesPass ==
  ASSUME IpcInv, NEW R \in SUBSET Thread, Wakes(R, kern, kern'),
         \A x \in R : \A q \in WaitList :
           kern'.error[x] = "ok" /\ OnWait(kern, q, x) => x \in First(q),
         NEW S, \A x \in R : want[x] \in S
  PROVE  Orderly(S)
PROOF
<1>1. NobodyPasses  BY DEF NobodyPasses, Passing, Wakes
<1>2. ASSUME NEW q \in WaitList \ S, NEW x \in Thread, OnWait(kern, q, x)
      PROVE  OnWait(kern', q, x)
  <2>1. x \notin R  BY <1>2, WaitersOf
  <2> QED BY <1>2, <2>1 DEF Wakes
<1> QED BY <1>1, <1>2 DEF Orderly, HeldOutside, Held

(* A step that wakes nobody.                                                *)
LEMMA NobodyWakesPass ==
  ASSUME IpcInv, Wakes({}, kern, kern') PROVE Orderly({})
PROOF
<1>1. {} \in SUBSET Thread  OBVIOUS
<1> QED BY <1>1, WakesPass

(* A step that does not touch the kernel.                                   *)
LEMMA StillPass ==
  ASSUME kern' = kern PROVE Orderly({})
BY DEF Orderly, HeldOutside, Held, NobodyPasses, Passing

(* A call that only sets an error code.                                     *)
LEMMA ErrorPass ==
  ASSUME IpcInv, NEW t \in Thread, NEW e \in Error, kern' = [kern EXCEPT !.error[t] = e]
  PROVE  Orderly({})
PROOF
<1>1. KInv(kern)  BY DEF IpcInv, Ipc
<1> QED BY <1>1, ErrorWakes, NobodyWakesPass

(* The first waiters of a list leave no other.                              *)
LEMMA FirstOnly ==
  ASSUME IpcInv, NEW q \in WaitList, NEW r, HandsOver(q, r), NEW x \in First(q),
         NEW p \in WaitList, OnWait(kern, p, x)
  PROVE  x \in First(p)
PROOF
<1>1. want[x] = q /\ x \in Thread  BY DEF HandsOver
<1>2. want[x] = p  BY <1>1, WaitersOf
<1> QED BY <1>1, <1>2

(* A call that resumes the first waiter of a list.                          *)
LEMMA HandsPass ==
  ASSUME IpcInv, NEW q \in WaitList, NEW k, Alike(k), kern' = Woke(k, q)
  PROVE  Orderly({q})
PROOF
<1>1. HandsOver(q, kern')  BY HandOver
<1>2. /\ First(q) \in SUBSET Thread /\ Wakes(First(q), kern, kern')
      /\ \A x \in First(q) : want[x] \in {q}
  BY <1>1 DEF HandsOver
<1> QED BY <1>1, <1>2, FirstOnly, WakesPass

(* An interrupt handler that does.                                          *)
LEMMA HandlerPass ==
  ASSUME IpcInv, NEW o, NEW q \in WaitList, InHandler(o, q)
  PROVE  Orderly({q})
PROOF
<1> DEFINE r == Woke(kern, q)
<1>1. HandsOver(q, r)  BY AlikeSelf, HandOver
<1>2. First(q) \in SUBSET Thread /\ Wakes(First(q), kern, r) /\ KInv(r)
  BY <1>1 DEF HandsOver, Wakes
<1>3. kern' = IF Waiting(kern, q) THEN Schedule(r) ELSE kern  BY DEF InHandler, Woke
<1> HIDE DEF r
<1>4. CASE Waiting(kern, q)
  <2>1. Wakes({}, r, kern') /\ {} \in SUBSET Thread  BY <1>2, <1>3, <1>4, ScheduleWakes
  <2>2. Wakes(First(q) \cup {}, kern, kern')  BY <1>2, <2>1, WakesThen
  <2>3. First(q) \cup {} = First(q)  OBVIOUS
  <2>4. \A x \in First(q) : want[x] \in {q}  BY <1>1 DEF HandsOver
  <2> QED BY <1>1, <1>2, <2>2, <2>3, <2>4, FirstOnly, WakesPass
<1>5. CASE ~Waiting(kern, q)
  BY <1>3, <1>5, StillPass, AllHeld
<1> QED BY <1>4, <1>5

(* A call that wakes everybody with an error.                               *)
LEMMA TellsPass ==
  ASSUME IpcInv, NEW R \in SUBSET Thread, Wakes(R, kern, kern'),
         \A x \in R : kern'.error[x] # "ok", NEW S, \A x \in R : want[x] \in S
  PROVE  Orderly(S)
BY WakesPass

(* The reset of an object with one list.                                    *)
LEMMA ResetPass ==
  ASSUME IpcInv, NEW q \in WaitList, kern' = ResumeAll(kern, q)
  PROVE  Orderly({q})
PROOF
<1>1. KInv(kern)  BY DEF IpcInv, Ipc
<1> DEFINE R == {x \in Thread : OnWait(kern, q, x)}
<1>2. R \in SUBSET Thread /\ Wakes(R, kern, kern') /\ \A x \in R : kern'.error[x] # "ok"
  BY <1>1, AllWakesInv
<1>3. \A x \in R : want[x] \in {q}  BY WaitersOf
<1> HIDE DEF R
<1> QED BY <1>2, <1>3, TellsPass

(* The reset of a mailbox.                                                  *)
LEMMA ResetBothPass ==
  ASSUME IpcInv, NEW o \in WaitList, NEW q \in WaitList,
         kern' = ResumeAll(ResumeAll(kern, o), q)
  PROVE  Orderly({o, q})
PROOF
<1> DEFINE m == ResumeAll(kern, o)
           R == {x \in Thread : OnWait(kern, o, x)}
           S == {x \in Thread : OnWait(m, q, x)}
<1>1. /\ R \in SUBSET Thread /\ Wakes(R, kern, m) /\ KInv(m)
      /\ \A x \in Thread : m.error[x] = IF x \in R THEN "error" ELSE kern.error[x]
  BY AllWakesInv DEF IpcInv, Ipc
<1>2. kern' = ResumeAll(m, q) /\ \A x \in R : want[x] = o  BY WaitersOf
<1> HIDE DEF m, R
<1>3. /\ S \in SUBSET Thread /\ Wakes(S, m, kern')
      /\ \A x \in Thread : kern'.error[x] = IF x \in S THEN "error" ELSE m.error[x]
  BY <1>1, <1>2, AllWakesInv
<1>6. ASSUME NEW x \in R \cup S PROVE want[x] \in {o, q}
  <2>1. CASE x \in R  BY <1>2, <2>1
  <2>2. CASE x \notin R
    <3>1. OnWait(kern, q, x)  BY <1>1, <1>6, <2>2 DEF Wakes
    <3> QED BY <1>6, <2>2, <3>1, WaitersOf
  <2> QED BY <2>1, <2>2
<1> HIDE DEF S
<1>4. Wakes(R \cup S, kern, kern') /\ R \cup S \in SUBSET Thread  BY <1>1, <1>3, WakesThen
<1>5. \A x \in R \cup S : kern'.error[x] # "ok"  BY <1>1, <1>3
<1> QED BY <1>4, <1>5, <1>6, TellsPass

(* A thread that goes to sleep.                                             *)
LEMMA SleepsPass ==
  ASSUME NEW t \in Thread, NEW k, Wakes({}, kern, k), Sleeps(t, k, kern'),
         \A q \in WaitList : ~OnWait(kern, q, t)
  PROVE  Orderly({})
BY DEF Orderly, HeldOutside, Held, NobodyPasses, Passing, Wakes, Sleeps

(* A call that waits.                                                       *)
LEMMA WaitPass ==
  ASSUME IpcInv, NEW t, NEW place, Runs(t, place), place # "block", t # Idle,
         NEW k, Wakes({}, kern, k), k.cur = kern.cur,
         NEW q \in WaitList, NEW n \in Nat, WaitOn(k, t, q, n)
  PROVE  Orderly({})
PROOF
<1>1. /\ t \in Thread /\ t = k.cur /\ Queued(kern, t)
      /\ \A p \in WaitList : ~OnWait(kern, p, t)
  BY RunsFacts
<1>2. Queued(k, t) /\ KInv(k)  BY <1>1 DEF Wakes
<1>3. kern' = Block(k, q, t, Flag[q], n)  BY DEF WaitOn
<1>4. Sleeps(t, k, kern')  BY <1>1, <1>2, <1>3, BlockSleeps
<1> QED BY <1>1, <1>4, SleepsPass

(* The first wait of a call about object o.                                 *)
LEMMA FirstWaitPass ==
  ASSUME IpcInv, NEW t, NEW o, Uses(t, o), NEW k, Wakes({}, kern, k), k.cur = kern.cur,
         NEW q \in WaitList, NEW n \in WaitTime, WaitOn(k, t, q, n)
  PROVE  Orderly({})
PROOF
<1>1. Runs(t, "app") /\ t # Idle  BY UsesFacts
<1>2. n \in Nat  BY TimesAreNat
<1> QED BY <1>1, <1>2, WaitPass

(* A step of a semaphore lets nobody pass.                                  *)
LEMMA SemPasses ==
  ASSUME IpcInv, SemStep PROVE NobodyPasses
PROOF
<1>1. \A s \in Semaphore : s \in WaitList  BY SemIs
<1>2. ASSUME NEW t \in Thread, NEW s \in Semaphore, SemTakeNow(t, s) PROVE NobodyPasses
  BY <1>2, StillPass DEF SemTakeNow, ipcVars, Orderly
<1>3. ASSUME NEW t \in Thread, NEW s \in Semaphore, SemRelease(t, s) PROVE NobodyPasses
  BY <1>1, <1>3, AlikeSelf, HandsPass DEF SemRelease, ThenSchedule, Orderly
<1>4. ASSUME NEW t \in Thread, NEW s \in Semaphore, NEW n \in WaitTime, SemTakeWait(t, s, n)
      PROVE  NobodyPasses
  BY <1>1, <1>4, AlikeSelf, FirstWaitPass DEF SemTakeWait, Alike, Orderly
<1>5. ASSUME NEW t \in Thread, NEW s \in Semaphore, NEW v, SemReset(t, s, v) PROVE NobodyPasses
  BY <1>1, <1>5, ResetPass DEF SemReset, ThenSchedule, Orderly
<1>6. ASSUME NEW t \in Thread, NEW s \in Semaphore, DeleteBegin(t, s) PROVE NobodyPasses
  BY <1>6, StillPass DEF DeleteBegin, Orderly
<1>7. ASSUME NEW t \in Thread, SemTakeReturn(t) PROVE NobodyPasses
  BY <1>7, StillPass DEF SemTakeReturn, Orderly
<1>8. ASSUME NEW s \in Semaphore, SemSignal(s) PROVE NobodyPasses
  BY <1>1, <1>8, HandlerPass DEF SemSignal, Orderly
<1> QED
  BY <1>2, <1>3, <1>4, <1>5, <1>6, <1>7, <1>8 DEF SemStep, SemCall, SemHandler

(* A step of a mutex takes nobody off another list and lets nobody pass.    *)
LEMMA MutexPasses ==
  ASSUME IpcInv, MutexInv, MutexStep PROVE Orderly(Mutex)
PROOF
<1>1. \A m \in Mutex : m \in WaitList  BY MutexFacts
<1>2. PICK t \in Thread : MutexCall(t) \/ MutexTakeReturn(t)  BY DEF MutexStep
<1>3. ASSUME NEW m \in Mutex, MutexTakeAgain(t, m) \/ MutexTakeFree(t, m) PROVE Orderly(Mutex)
  BY <1>2, <1>3, ErrorPass, AllHeld DEF MutexTakeAgain, MutexTakeFree, ClearError, Error
<1>4. ASSUME NEW m \in Mutex, MutexTakeRefused(t, m) \/ MutexReleaseRefused(t, m)
      PROVE  Orderly(Mutex)
  BY <1>2, <1>4, ErrorPass, AllHeld DEF MutexTakeRefused, MutexReleaseRefused, Error
<1>5. ASSUME NEW m \in Mutex, NEW n \in WaitTime, MutexTakeWait(t, m, n) PROVE Orderly(Mutex)
  <2> DEFINE k == Inherit(t, m)
  <2>1. Uses(t, m) /\ Busy(t, m) /\ WaitOn(k, t, m, n)  BY <1>5 DEF MutexTakeWait
  <2>2. Wakes({}, kern, k) /\ k.cur = kern.cur  BY <2>1, InheritIs
  <2> HIDE DEF k
  <2> QED BY <1>1, <2>1, <2>2, FirstWaitPass, AllHeld
<1>6. ASSUME NEW m \in Mutex, MutexRelease(t, m) PROVE Orderly(Mutex)
  <2> DEFINE k == Disinherit(t, m)
  <2>1. Uses(t, m) /\ mutex[m].owner = t /\ kern' = Woke(k, m)
    BY <1>6 DEF MutexRelease, ThenSchedule
  <2>2. Alike(k)  BY <2>1, DisinheritIs
  <2> HIDE DEF k
  <2>3. Orderly({m})  BY <1>1, <2>1, <2>2, HandsPass
  <2> QED BY <2>3, OrderlyIn
<1>7. ASSUME NEW m \in Mutex, MutexReleaseInner(t, m) \/ DeleteBegin(t, m) PROVE Orderly(Mutex)
  BY <1>7, StillPass, AllHeld DEF MutexReleaseInner, DeleteBegin, ipcVars
<1>8. CASE MutexTakeReturn(t)
  BY <1>8, StillPass, AllHeld DEF MutexTakeReturn
<1> QED BY <1>2, <1>3, <1>4, <1>5, <1>6, <1>7, <1>8 DEF MutexCall

(* A mailbox or a queue waits for one of its lists.                         *)
LEMMA MailWaitPass ==
  ASSUME IpcInv, MailInv, NEW t, NEW w \in MailList, NEW n, NEW j, WaitMail(t, w, n, j),
         \/ n \in WaitTime /\ Runs(t, "app") /\ t # Idle
         \/ n = Remaining(t) /\ Tries(t, w)
  PROVE  Orderly({})
PROOF
<1>1. PICK place : Runs(t, place) /\ place # "block" /\ t # Idle
  BY RunsFacts DEF Tries, Woken
<1>2. t \in Thread  BY <1>1, RunsFacts
<1>3. n \in Nat  BY <1>2, TimesAreNat, ForeverIs, RemainingIs DEF MailInv
<1>4. w \in WaitList /\ WaitOn(kern, t, w, n)  BY MailLists DEF WaitMail
<1>5. Wakes({}, kern, kern)  BY AlikeSelf DEF Alike
<1> QED BY <1>1, <1>3, <1>4, <1>5, WaitPass

(* A call that gives up.                                                    *)
LEMMA ExhaustedPass ==
  ASSUME IpcInv, NEW t, NEW w, Tries(t, w), NEW e \in Error, Exhausted(t, e)
  PROVE  Orderly({})
PROOF
<1>1. t \in Thread  BY RunsFacts DEF Tries, Woken
<1> QED BY <1>1, ErrorPass DEF Exhausted

(* A mail is put in or taken out.                                           *)
LEMMA BoxMovesPass ==
  ASSUME IpcInv, NEW t, NEW m \in Mailbox, (\E v : Sent(t, m, v)) \/ Received(t, m)
  PROVE  Orderly(MailList)
PROOF
<1>1. m \in MailList /\ Private[m] \in MailList /\ MailList \subseteq WaitList  BY MailLists
<1>2. Orderly({m}) \/ Orderly({Private[m]})
  BY <1>1, AlikeSelf, HandsPass DEF Sent, Received, ThenSchedule
<1>3. {m} \subseteq MailList /\ {Private[m]} \subseteq MailList  BY <1>1
<1> QED BY <1>2, <1>3, OrderlyIn

(* The calls of a mailbox let nobody pass.                                  *)
LEMMA BoxPasses ==
  ASSUME IpcInv, MailInv, NEW t, NEW m \in Mailbox,
         \/ \E n \in WaitTime, v \in Mail : BoxSend(t, m, v, n)
         \/ \E n \in WaitTime : BoxReceive(t, m, n)
         \/ BoxSendAgain(t, m) \/ BoxReceiveAgain(t, m) \/ BoxReset(t, m)
  PROVE  Orderly(MailList)
PROOF
<1>1. m \in MailList /\ Private[m] \in MailList /\ MailList \subseteq WaitList  BY MailLists
<1>2. "ok" \in Error /\ "timeout" \in Error  BY DEF Error
<1>3. CASE \E n \in WaitTime, v \in Mail : BoxSend(t, m, v, n)
  BY <1>1, <1>3, BoxMovesPass, MailWaitPass, AllHeld DEF BoxSend, Uses
<1>4. CASE \E n \in WaitTime : BoxReceive(t, m, n)
  BY <1>1, <1>4, BoxMovesPass, MailWaitPass, AllHeld DEF BoxReceive, Uses
<1>5. CASE BoxSendAgain(t, m)
  BY <1>1, <1>2, <1>5, BoxMovesPass, MailWaitPass, ExhaustedPass, AllHeld DEF BoxSendAgain
<1>6. CASE BoxReceiveAgain(t, m)
  BY <1>1, <1>2, <1>6, BoxMovesPass, MailWaitPass, ExhaustedPass, AllHeld DEF BoxReceiveAgain
<1>7. CASE BoxReset(t, m)
  <2>1. Orderly({m, Private[m]})  BY <1>1, <1>7, ResetBothPass DEF BoxReset, ThenSchedule
  <2>2. {m, Private[m]} \subseteq MailList  BY <1>1
  <2> QED BY <2>1, <2>2, OrderlyIn
<1> QED BY <1>3, <1>4, <1>5, <1>6, <1>7

(* The calls of a queue let nobody pass.                                    *)
LEMMA QueuePasses ==
  ASSUME IpcInv, MailInv, NEW t, NEW q \in Queue,
         \/ \E n \in WaitTime : QueueReceive(t, q, n)
         \/ \E v \in Mail : QueueSend(t, q, v)
         \/ QueueReceiveAgain(t, q) \/ QueueLink(t, q) \/ QueueRead(t, q) \/ QueueReset(t, q)
  PROVE  Orderly(MailList)
PROOF
<1>1. q \in MailList /\ q \in WaitList  BY MailLists
<1>2. "timeout" \in Error  BY DEF Error
<1>3. CASE (\E v \in Mail : QueueSend(t, q, v)) \/ QueueRead(t, q)
  <2>1. kern' = kern  BY <1>3, Zenon DEF QueueSend, QueueRead
  <2> QED BY <2>1, StillPass, AllHeld
<1>4. CASE \E n \in WaitTime : QueueReceive(t, q, n)
  BY <1>1, <1>4, StillPass, MailWaitPass, AllHeld DEF QueueReceive, Fetch, Uses
<1>5. CASE QueueReceiveAgain(t, q)
  BY <1>1, <1>2, <1>5, StillPass, MailWaitPass, ExhaustedPass, AllHeld DEF QueueReceiveAgain, Fetch
<1>6. CASE QueueLink(t, q)
  <2>1. Orderly({q})  BY <1>1, <1>6, AlikeSelf, HandsPass DEF QueueLink, ThenSchedule
  <2> QED BY <1>1, <2>1, OrderlyIn
<1>7. CASE QueueReset(t, q)
  <2>1. Orderly({q})  BY <1>1, <1>7, ResetPass DEF QueueReset, ThenSchedule
  <2> QED BY <1>1, <2>1, OrderlyIn
<1> QED BY <1>3, <1>4, <1>5, <1>6, <1>7

(* A step that wakes one thread.                                            *)
LEMMA OneWoken ==
  ASSUME NEW u \in Thread, Wakes({u}, kern, kern')
  PROVE  OneOff
BY DEF OneOff, Wakes

(* A tick wakes at most one thread, and with a timeout.                      *)
LEMMA TickPasses ==
  ASSUME IpcInv, IpcTick PROVE NobodyPasses /\ OneOff
PROOF
<1>1. KInv(kern) /\ kern.nest = 0 /\ (\A x \in Thread : kern.slice[x] > 0)
      /\ \A x \in Thread : kern.stat[x] = "ready" => Queued(kern, x)
  BY DEF IpcInv, Ipc, Stands
<1>2. CASE Tick
  BY <1>1, <1>2, TickWakes, NobodyWakesPass, AllHeld DEF Tick, Orderly
<1>3. ASSUME NEW u \in Thread, TimerFires(u) PROVE NobodyPasses /\ OneOff
  <2>1. kern' = Timeout(kern, u) /\ kern.stat[u] = "suspend" /\ {u} \in SUBSET Thread
    BY <1>1, <1>3 DEF TimerFires, Due, KInv, TimersAgree
  <2>2. Wakes({u}, kern, kern') /\ kern'.error = [kern.error EXCEPT ![u] = "timeout"]
    BY <1>1, <2>1, TimeoutWakes
  <2>3. kern'.error[u] = "timeout"  BY <1>1, <2>2 DEF KInv, KernelState
  <2>4. NobodyPasses  BY <2>1, <2>2, <2>3, TellsPass DEF Orderly
  <2>5. OneOff  BY <2>2, OneWoken
  <2> QED BY <2>4, <2>5
<1>4. CASE TickDone  BY <1>4, StillPass, AllHeld DEF TickDone, Orderly
<1> QED BY <1>2, <1>3, <1>4 DEF IpcTick, Interrupt

(* A step of a mailbox or a queue lets nobody pass; it takes nobody off     *)
(* another list, unless it is the tick.                                     *)
LEMMA MailPasses ==
  ASSUME IpcInv, MailInv, MailStep
  PROVE  NobodyPasses /\ (HeldOutside(MailList) \/ OneOff)
PROOF
<1>1. ASSUME NEW t \in Thread, NEW o, MailDelete(t, o) PROVE Orderly(MailList)
  BY <1>1, StillPass, AllHeld DEF MailDelete, DeleteBegin
<1>2. ASSUME NEW t \in Thread, WaitFailed(t) PROVE Orderly(MailList)
  BY <1>2, StillPass, AllHeld DEF WaitFailed
<1>3. ASSUME NEW t \in Thread, MailCall(t) PROVE Orderly(MailList)
  BY <1>1, <1>3, BoxPasses, QueuePasses DEF MailCall
<1>4. ASSUME NEW t \in Thread, MailInside(t) PROVE Orderly(MailList)
  BY <1>2, <1>4, BoxPasses, QueuePasses DEF MailInside
<1>5. ASSUME MailHandler PROVE Orderly(MailList)
  <2>1. PICK q \in MailList : InHandler(q, q)
    BY <1>5, MailLists DEF MailHandler, BoxPost, QueuePost
  <2>2. Orderly({q}) /\ {q} \subseteq MailList  BY <2>1, HandlerPass, MailLists
  <2> QED BY <2>2, OrderlyIn
<1>6. CASE MailTick
  BY <1>6, TickPasses DEF MailTick
<1> QED BY <1>3, <1>4, <1>5, <1>6 DEF MailStep, Orderly

(* The scheduler and the loop of rt_ipc_list_resume_all let nobody pass,    *)
(* and take at most one waiter off its list.                                *)
LEMMA ThreadsPass ==
  ASSUME IpcInv, ThreadsStep PROVE NobodyPasses /\ OneOff
PROOF
<1>1. PICK t \in Thread : InIpc(t) \/ Delays(t)  BY DEF ThreadsStep
<1>2. KInv(kern) /\ kern \in KernelState  BY DEF IpcInv, Ipc, KInv
<1>3. CASE Reschedule(t) \/ SleepSchedule(t)
  BY <1>2, <1>3, ScheduleWakes, NobodyWakesPass, AllHeld DEF Reschedule, SleepSchedule, Orderly
<1>4. CASE ResumeAllTest(t)
  BY <1>4, StillPass, AllHeld DEF ResumeAllTest, Orderly
<1>5. CASE ResumeAllOne(t)
  <2> DEFINE h == Head(kern.list[Wait(want[t])])
  <2>1. CASE Waiting(kern, want[t])
    <3>1. want[t] \in WaitList  BY <1>5, RunsFacts DEF ResumeAllOne, Inside
    <3>2. h \in Thread /\ kern.stat[h] = "suspend"  BY <1>2, <2>1, <3>1, FirstWaiter
    <3>3. kern' = ResumeTold(kern, h)
      <4>1. kern' = ResumeWithError(kern, want[t])  BY <1>5, <2>1 DEF ResumeAllOne
      <4>2. [kern EXCEPT !.error[h] = "error"].list = kern.list  BY <1>2 DEF KernelState
      <4> QED BY <4>1, <4>2 DEF ResumeWithError, IpcResume, ResumeTold
    <3> HIDE DEF h
    <3>4. Wakes({h}, kern, kern') /\ kern'.error = [kern.error EXCEPT ![h] = "error"]
      BY <1>2, <3>2, <3>3, ResumeToldWakes
    <3>5. kern'.error[h] = "error"  BY <1>2, <3>2, <3>4 DEF KernelState
    <3>6. {h} \in SUBSET Thread  BY <3>2
    <3>7. NobodyPasses  BY <3>4, <3>5, <3>6, TellsPass DEF Orderly
    <3>8. OneOff  BY <3>2, <3>4, OneWoken
    <3> QED BY <3>7, <3>8
  <2>2. CASE ~Waiting(kern, want[t])
    BY <1>5, <2>2, StillPass, AllHeld DEF ResumeAllOne, Orderly
  <2> QED BY <2>1, <2>2
<1>6. CASE Slept(t)
  <2> DEFINE e == IF kern.error[t] = "timeout" THEN "ok" ELSE kern.error[t]
  <2>1. kern' = [kern EXCEPT !.error[t] = e] /\ e \in Error
    BY <1>2, <1>6 DEF Slept, KernelState, Error
  <2> HIDE DEF e
  <2> QED BY <2>1, ErrorPass, AllHeld DEF Orderly
<1>7. ASSUME NEW n \in 0 .. MaxDelay, Sleep(t, n) PROVE NobodyPasses /\ OneOff
  <2> DEFINE s == Suspend(kern, t)
  <2>1. kern' = TimerStart(s, t, n) /\ Runs(t, "app") /\ t # Idle /\ n \in Nat
    BY <1>7, TimesAreNat DEF Sleep
  <2>2. Sleeps(t, kern, s)  BY <1>2, <2>1, SuspendSleeps
  <2> HIDE DEF s
  <2>3. Sleeps(t, kern, kern')  BY <2>1, <2>2, TimedSleep
  <2>4. Wakes({}, kern, kern)  BY <1>2, WakesNobody
  <2> QED BY <2>1, <2>3, <2>4, RunsFacts, SleepsPass, AllHeld DEF Orderly
<1> QED BY <1>1, <1>3, <1>4, <1>5, <1>6, <1>7 DEF InIpc, Delays

(* A delivery of events resumes waiters of one event set.                   *)
EventsArrive(e, s) == EventPost(e, s) \/ \E t \in Thread : EventSend(t, e, s)

(* A step of an event set takes nobody off another list and lets nobody      *)
(* pass, or delivers events.                                                *)
LEMMA EventPasses ==
  ASSUME IpcInv, EventStep
  PROVE  Orderly(EventSet) \/ \E e \in EventSet, s \in SUBSET Event : EventsArrive(e, s)
PROOF
<1>1. \A e \in EventSet : e \in WaitList  BY EventLists
<1>2. "ok" \in Error /\ "timeout" \in Error  BY DEF Error
<1>3. ASSUME NEW t \in Thread, NEW e \in EventSet, NEW w, EventNow(t, e, w) \/ EventRefused(t, e, w)
      PROVE  Orderly(EventSet)
  BY <1>2, <1>3, ErrorPass, AllHeld DEF EventNow, EventRefused
<1>4. ASSUME NEW t \in Thread, NEW e \in EventSet, NEW w, NEW n \in WaitTime,
             EventWait(t, e, w, n)
      PROVE  Orderly(EventSet)
  BY <1>1, <1>4, AlikeSelf, FirstWaitPass, AllHeld DEF EventWait, Alike
<1>5. ASSUME NEW t \in Thread, NEW e \in EventSet, EventReset(t, e) PROVE Orderly(EventSet)
  <2>1. Orderly({e})  BY <1>1, <1>5, ResetPass DEF EventReset, ThenSchedule
  <2> QED BY <2>1, OrderlyIn
<1>6. ASSUME NEW t \in Thread, NEW e \in EventSet, DeleteBegin(t, e) PROVE Orderly(EventSet)
  BY <1>6, StillPass, AllHeld DEF DeleteBegin
<1>7. ASSUME NEW t \in Thread, EventReturn(t) PROVE Orderly(EventSet)
  BY <1>7, StillPass, AllHeld DEF EventReturn
<1> QED
  BY <1>3, <1>4, <1>5, <1>6, <1>7 DEF EventStep, EventCall, EventHandler, EventsArrive

(* What a delivery does: it resumes some of the waiters R of one event set, *)
(* and leaves in interest what each of them received.                       *)
LEMMA ArrivalIs ==
  ASSUME IpcInv, EventInv, NEW e \in EventSet, NEW s \in SUBSET Event, EventsArrive(e, s)
  PROVE  \E R \in SUBSET {x \in Thread : OnWait(kern, e, x)} :
           /\ Wakes(R, kern, kern')
           /\ \A x, y \in R : x # y /\ interest[x].clear /\ interest[y].clear
                               => interest'[x].set \cap interest'[y].set = {}
PROOF
<1> DEFINE d == Delivered(e, s)
           W == {x \in Thread : OnWait(kern, e, x)}
<1>1. interest' = d.info /\ (kern' = d.k \/ kern' = Schedule(d.k))
  BY DEF EventsArrive, EventSend, EventPost, ThenSchedule
<1>2. Handled(W, d)  BY DeliveredIs DEF EventInv, IpcInv, Ipc
<1>3. PICK R \in SUBSET W : Resumed(W, R, d)  BY <1>2 DEF Handled
<1> HIDE DEF d
<1>4. Wakes(R, kern, d.k) /\ R \in SUBSET Thread /\ KInv(d.k)  BY <1>3 DEF Resumed, Wakes
<1>5. Wakes(R, kern, kern')
  <2>1. CASE kern' = Schedule(d.k)
    <3>1. Wakes({}, d.k, kern') /\ {} \in SUBSET Thread  BY <1>4, <2>1, ScheduleWakes
    <3>2. Wakes(R \cup {}, kern, kern')  BY <1>4, <3>1, WakesThen
    <3>3. R \cup {} = R  OBVIOUS
    <3> QED BY <3>2, <3>3
  <2> QED BY <1>1, <1>4, <2>1
<1>6. \A x, y \in R : x # y /\ interest[x].clear /\ interest[y].clear
                       => interest'[x].set \cap interest'[y].set = {}
  BY <1>1, <1>3 DEF Resumed
<1> QED BY <1>5, <1>6

(* In every step, whoever leaves a list without an error was the first of   *)
(* it, or was on the list of an event set whose events arrive.              *)
LEMMA StepPasses ==
  ASSUME ObjInv, [ObjectsNext]_objectVars
  PROVE  NobodyPasses \/ \E e \in EventSet, s \in SUBSET Event : EventsArrive(e, s)
PROOF
<1>1. CASE ObjectsNext
  BY <1>1, SemPasses, MutexPasses, MailPasses, EventPasses, ThreadsPass
     DEF ObjectsNext, ObjInv, Orderly
<1>2. CASE UNCHANGED objectVars
  BY <1>2, StillPass DEF objectVars, ipcVars, Orderly
<1> QED BY <1>1, <1>2

(* An arrival of events resumes nobody on another list.                     *)
LEMMA OthersStay ==
  ASSUME IpcInv, NEW e \in EventSet, NEW R \in SUBSET {x \in Thread : OnWait(kern, e, x)},
         Wakes(R, kern, kern'), NEW q \in WaitList, NEW x \in Thread,
         OnWait(kern, q, x), ~OnWait(kern', q, x)
  PROVE  x \in R /\ q = e
PROOF
<1>1. x \in R  BY DEF Wakes
<1>2. want[x] = q /\ want[x] = e  BY <1>1, WaitersOf, EventLists
<1> QED BY <1>1, <1>2

(* A waiter that is the first of its list stands at its head.               *)
LEMMA FirstStands ==
  ASSUME IpcInv, NEW q \in WaitList, NEW i \in 1 .. Len(kern.list[Wait(q)]),
         kern.list[Wait(q)][i] \in First(q)
  PROVE  i = 1
PROOF
<1> DEFINE w == kern.list[Wait(q)]
<1>1. w \in Seq(Thread) /\ IsInjective(w)
  BY ListKeys DEF IpcInv, Ipc, KInv, KernelState, Disjoint
<1>2. w[i] = Head(w)  BY DEF First
<1>3. ASSUME NEW v \in Seq(Thread), IsInjective(v), NEW j \in 1 .. Len(v), v[j] = Head(v)
      PROVE  j = 1
  <2>1. 1 \in DOMAIN v /\ j \in DOMAIN v /\ v[1] = v[j]  BY <1>3
  <2> QED BY <1>3, <2>1 DEF IsInjective
<1>4. i \in 1 .. Len(w)  OBVIOUS
<1> HIDE DEF w
<1> QED BY <1>1, <1>2, <1>3, <1>4

(* No waiter is passed by one behind him, unless that one gives up:         *)
(* rt_ipc_list_resume takes the head of the list (ipc.c).                   *)
LEMMA NobodyIsPassed ==
  ASSUME ObjInv, [ObjectsNext]_objectVars, NEW q \in WaitList \ EventSet,
         NEW x \in Thread, NEW y \in Thread, Before(kern.list[Wait(q)], x, y),
         ~OnWait(kern', q, y), kern'.error[y] = "ok"
  PROVE  FALSE
PROOF
<1> DEFINE w == kern.list[Wait(q)]
<1>1. IpcInv /\ q \in WaitList  BY DEF ObjInv
<1>2. PICK i \in 1 .. Len(w), j \in 1 .. Len(w) : i < j /\ w[i] = x /\ w[j] = y
  BY DEF Before
<1>3. w \in Seq(Thread) /\ OnWait(kern, q, y)
  BY <1>1, <1>2, ListKeys DEF IpcInv, Ipc, KInv, KernelState, OnWait, Contains
<1>4. CASE NobodyPasses
  <2>1. w[j] \in First(q)  BY <1>1, <1>2, <1>3, <1>4 DEF NobodyPasses, Passing
  <2>2. j = 1  BY <1>1, <2>1, FirstStands
  <2> QED BY <1>2, <1>3, <2>2
<1>5. ASSUME NEW e \in EventSet, NEW s \in SUBSET Event, EventsArrive(e, s) PROVE FALSE
  <2>1. PICK R \in SUBSET {u \in Thread : OnWait(kern, e, u)} : Wakes(R, kern, kern')
    BY <1>1, <1>5, ArrivalIs DEF ObjInv
  <2>2. q = e
    <3> HIDE DEF w
    <3> QED BY <1>1, <1>3, <2>1, OthersStay
  <2> QED BY <2>2
<1> QED BY <1>4, <1>5, StepPasses

(* An event is consumed once: of the threads one rt_event_send resumes, two *)
(* that clear what they get never get the same event (the loop of           *)
(* rt_event_send, ipc.c).                                                   *)
THEOREM NoEventIsConsumedTwice == ObjectsSpec => ConsumedOnce
PROOF
<1>1. ASSUME ObjInv, [ObjectsNext]_objectVars, NEW e \in EventSet,
             NEW t \in Thread, NEW u \in Thread, t # u,
             OnWait(kern, e, t), interest[t].clear, ~OnWait(kern', e, t), kern'.error[t] = "ok",
             OnWait(kern, e, u), interest[u].clear, ~OnWait(kern', e, u), kern'.error[u] = "ok"
      PROVE  interest'[t].set \cap interest'[u].set = {}
  <2>1. IpcInv /\ EventInv /\ e \in WaitList  BY <1>1, EventLists DEF ObjInv
  <2>2. ~NobodyPasses
    BY <1>1, <2>1 DEF NobodyPasses, Passing, First
  <2>3. PICK f \in EventSet, s \in SUBSET Event : EventsArrive(f, s)
    BY <1>1, <2>2, StepPasses
  <2>4. PICK R \in SUBSET {y \in Thread : OnWait(kern, f, y)} :
          /\ Wakes(R, kern, kern')
          /\ \A x, y \in R : x # y /\ interest[x].clear /\ interest[y].clear
                              => interest'[x].set \cap interest'[y].set = {}
    BY <2>1, <2>3, ArrivalIs
  <2>5. t \in R /\ u \in R  BY <1>1, <2>1, <2>4, OthersStay
  <2> QED BY <1>1, <2>4, <2>5
<1>2. ObjInv /\ [ObjectsNext]_objectVars =>
      [\A e \in EventSet : \A t, u \in Thread :
       LET resumed(x) == /\ Contains(kern.list[Wait(e)], x) /\ interest[x].clear
                         /\ ~Contains(kern'.list[Wait(e)], x) /\ kern'.error[x] = "ok"
       IN t # u /\ resumed(t) /\ resumed(u)
            => interest'[t].set \cap interest'[u].set = {}]_allEventVars
  BY <1>1 DEF OnWait
<1> QED BY <1>2, ObjectsInvariant, PTL DEF ObjectsSpec, ConsumedOnce

-----------------------------------------------------------------------------
(* Who waits for a mutex, and with which priority *)

(* A newcomer stands on the list of q where rt_ipc_list_suspend puts him.   *)
Arrived(q) ==
  \E t \in Thread, k \in KernelState :
    /\ ~OnWait(kern, q, t) /\ k.list[Wait(q)] = kern.list[Wait(q)]
    /\ k.prio = kern'.prio /\ kern'.list[Wait(q)] = Placed(k, q, t, Flag[q])

(* Those who stay on the list of q keep their order.                        *)
Settled(q) == Within(kern'.list[Wait(q)], kern.list[Wait(q)]) \/ Arrived(q)

(* A step that changes no priority, puts nobody on the list of a mutex and  *)
(* keeps the order of who stays on a list.                                  *)
Steady ==
  /\ kern'.prio = kern.prio
  /\ \A q \in WaitList : Settled(q)
  /\ \A m \in Mutex : Within(kern'.list[Wait(m)], kern.list[Wait(m)])

(* A mutex has a waiting list.                                             *)
LEMMA MutexLists == Mutex \subseteq WaitList /\ Mutex \subseteq Object
BY MutexAssumption, IpcAssumption

(* A kernel operation that only takes waiters out is steady.               *)
LEMMA ThinsSteady ==
  ASSUME Thins(kern, kern') PROVE Steady
BY MutexLists DEF Steady, Thins, Settled

(* So is a step that leaves the kernel alone,                              *)
LEMMA StillSteady ==
  ASSUME kern' = kern PROVE Steady
BY WithinSelf DEF Steady, Settled

(* one that sets the error code of a thread,                               *)
LEMMA ErrorSteady ==
  ASSUME IpcInv, NEW t \in Thread, NEW e \in Error, kern' = [kern EXCEPT !.error[t] = e]
  PROVE  Steady
PROOF
<1>1. KInv(kern)  BY DEF IpcInv, Ipc
<1> QED BY <1>1, ErrorThins, ThinsSteady

(* A resumed waiter leaves its list.                                        *)
LEMMA WokeThins ==
  ASSUME IpcInv, NEW q \in WaitList
  PROVE  Thins(kern, Woke(kern, q)) /\ KInv(Woke(kern, q))
PROOF
<1> DEFINE h == Head(kern.list[Wait(q)])
           r == Woke(kern, q)
<1>1. KInv(kern) /\ kern \in KernelState  BY DEF IpcInv, Ipc, KInv
<1>2. KInv(r)  BY AlikeSelf, HandOver DEF HandsOver, Wakes
<1>3. CASE Waiting(kern, q)
  <2>1. h \in Thread  BY <1>1, <1>3, FirstWaiter
  <2>2. r = Resume(kern, h)  BY <1>3 DEF Woke, IpcResume
  <2> HIDE DEF h, r
  <2>3. Thins(kern, r)  BY <1>1, <2>1, <2>2, ResumeThins
  <2> QED BY <1>2, <2>3 DEF r
<1>4. CASE ~Waiting(kern, q)
  <2>1. r = kern  BY <1>4 DEF Woke
  <2> QED BY <1>1, <1>2, <2>1, SameThins
<1> QED BY <1>3, <1>4

(* one that resumes the first waiter of a list,                            *)
LEMMA HandsSteady ==
  ASSUME IpcInv, NEW q \in WaitList, kern' = Woke(kern, q)
  PROVE  Steady
BY WokeThins, ThinsSteady

(* one of an interrupt handler that also reschedules,                      *)
LEMMA HandlerSteady ==
  ASSUME IpcInv, NEW o, NEW q \in WaitList, InHandler(o, q)
  PROVE  Steady
PROOF
<1> DEFINE r == Woke(kern, q)
<1>1. Thins(kern, r) /\ KInv(r)  BY WokeThins
<1>2. kern' = IF Waiting(kern, q) THEN Schedule(r) ELSE kern  BY DEF InHandler, Woke
<1> HIDE DEF r
<1>3. Thins(kern, Schedule(r))  BY <1>1, ScheduleThins, ThinsThen
<1> QED BY <1>2, <1>3, ThinsSteady, StillSteady

(* one that resumes everybody on a list, or on two,                        *)
LEMMA ResetSteady ==
  ASSUME IpcInv, NEW q \in WaitList, kern' = ResumeAll(kern, q)
  PROVE  Steady
PROOF
<1>1. KInv(kern)  BY DEF IpcInv, Ipc
<1>2. Thins(kern, kern')  BY <1>1, AllWakesInv
<1> QED BY <1>2, ThinsSteady

(* or on both lists of a mailbox.                                          *)
LEMMA ResetBothSteady ==
  ASSUME IpcInv, NEW o \in WaitList, NEW q \in WaitList,
         kern' = ResumeAll(ResumeAll(kern, o), q)
  PROVE  Steady
PROOF
<1> DEFINE m == ResumeAll(kern, o)
<1>1. Thins(kern, m) /\ KInv(m)  BY AllWakesInv DEF IpcInv, Ipc
<1>2. kern' = ResumeAll(m, q)  OBVIOUS
<1> HIDE DEF m
<1>3. Thins(m, kern')  BY <1>1, <1>2, AllWakesInv
<1> QED BY <1>1, <1>3, ThinsThen, ThinsSteady

(* A wait for something else than a mutex.                                  *)
LEMMA WaitSteady ==
  ASSUME IpcInv, NEW t, NEW place, Runs(t, place), place # "block", t # Idle,
         NEW q \in WaitList \ Mutex, NEW n \in Nat, WaitOn(kern, t, q, n)
  PROVE  Steady
PROOF
<1>1. t \in Thread /\ \A p \in WaitList : ~OnWait(kern, p, t)  BY RunsFacts
<1>2. kern' = Block(kern, q, t, Flag[q], n) /\ KInv(kern)  BY DEF WaitOn, IpcInv, Ipc
<1>3. kern'.prio = kern.prio  BY <1>1, <1>2, BlockSleeps DEF Sleeps
<1>4. \A p \in WaitList : p # q => kern'.list[Wait(p)] = kern.list[Wait(p)]
  BY <1>1, <1>2, BlockLists
<1>5. \A m \in Mutex : m \in WaitList /\ m # q  BY MutexLists
<1>6. kern'.list[Wait(q)] = Placed(kern, q, t, Flag[q])
  BY <1>1, <1>2, BlockLists
<1>7. Arrived(q)  BY <1>1, <1>2, <1>3, <1>6 DEF Arrived, KInv
<1>8. \A p \in WaitList : Settled(p)  BY <1>4, <1>7, WithinSelf DEF Settled
<1> QED BY <1>3, <1>4, <1>5, <1>8, WithinSelf DEF Steady

(* and a wait on the list of anything but a mutex.                         *)
LEMMA FirstWaitSteady ==
  ASSUME IpcInv, NEW t, NEW o, Uses(t, o),
         NEW q \in WaitList \ Mutex, NEW n \in WaitTime, WaitOn(kern, t, q, n)
  PROVE  Steady
PROOF
<1>1. Runs(t, "app") /\ t # Idle  BY UsesFacts
<1>2. n \in Nat  BY TimesAreNat
<1> QED BY <1>1, <1>2, WaitSteady

(* The objects of other kinds have lists of their own.                      *)
LEMMA OthersLists ==
  /\ \A s \in Semaphore : s \in WaitList \ Mutex
  /\ \A e \in EventSet : e \in WaitList \ Mutex
  /\ \A w \in MailList : w \in WaitList \ Mutex
BY SemIs, EventLists, MailLists, KindAssumption, MutexAssumption, IpcAssumption DEF MailList

(* A step of a semaphore.                                                   *)
LEMMA SemSteady ==
  ASSUME IpcInv, SemStep PROVE Steady
PROOF
<1>1. \A s \in Semaphore : s \in WaitList \ Mutex  BY OthersLists
<1>2. ASSUME NEW t \in Thread, NEW s \in Semaphore, SemTakeNow(t, s) PROVE Steady
  BY <1>2, StillSteady DEF SemTakeNow, ipcVars
<1>3. ASSUME NEW t \in Thread, NEW s \in Semaphore, SemRelease(t, s) PROVE Steady
  BY <1>1, <1>3, HandsSteady DEF SemRelease, ThenSchedule
<1>4. ASSUME NEW t \in Thread, NEW s \in Semaphore, NEW n \in WaitTime, SemTakeWait(t, s, n)
      PROVE  Steady
  BY <1>1, <1>4, FirstWaitSteady DEF SemTakeWait
<1>5. ASSUME NEW t \in Thread, NEW s \in Semaphore, NEW v, SemReset(t, s, v) PROVE Steady
  BY <1>1, <1>5, ResetSteady DEF SemReset, ThenSchedule
<1>6. ASSUME NEW t \in Thread, NEW s \in Semaphore, DeleteBegin(t, s) PROVE Steady
  BY <1>6, StillSteady DEF DeleteBegin
<1>7. ASSUME NEW t \in Thread, SemTakeReturn(t) PROVE Steady
  BY <1>7, StillSteady DEF SemTakeReturn
<1>8. ASSUME NEW s \in Semaphore, SemSignal(s) PROVE Steady
  BY <1>1, <1>8, HandlerSteady DEF SemSignal
<1> QED
  BY <1>2, <1>3, <1>4, <1>5, <1>6, <1>7, <1>8 DEF SemStep, SemCall, SemHandler

(* A mailbox or a queue waits for one of its lists.                         *)
LEMMA MailWaitSteady ==
  ASSUME IpcInv, MailInv, NEW t, NEW w \in MailList, NEW n, NEW j, WaitMail(t, w, n, j),
         \/ n \in WaitTime /\ Runs(t, "app") /\ t # Idle
         \/ n = Remaining(t) /\ Tries(t, w)
  PROVE  Steady
PROOF
<1>1. PICK place : Runs(t, place) /\ place # "block" /\ t # Idle
  BY RunsFacts DEF Tries, Woken
<1>2. t \in Thread  BY <1>1, RunsFacts
<1>3. n \in Nat  BY <1>2, TimesAreNat, ForeverIs, RemainingIs DEF MailInv
<1>4. w \in WaitList \ Mutex /\ WaitOn(kern, t, w, n)  BY OthersLists DEF WaitMail
<1> QED BY <1>1, <1>3, <1>4, WaitSteady

(* A call that gives up.                                                    *)
LEMMA ExhaustedSteady ==
  ASSUME IpcInv, NEW t, NEW w, Tries(t, w), NEW e \in Error, Exhausted(t, e)
  PROVE  Steady
PROOF
<1>1. t \in Thread  BY RunsFacts DEF Tries, Woken
<1> QED BY <1>1, ErrorSteady DEF Exhausted

(* A mail is put in or taken out.                                           *)
LEMMA BoxMovesSteady ==
  ASSUME IpcInv, NEW t, NEW m \in Mailbox, (\E v : Sent(t, m, v)) \/ Received(t, m)
  PROVE  Steady
BY HandsSteady, MailLists DEF Sent, Received, ThenSchedule

(* The calls of a mailbox.                                                  *)
LEMMA BoxSteady ==
  ASSUME IpcInv, MailInv, NEW t, NEW m \in Mailbox,
         \/ \E n \in WaitTime, v \in Mail : BoxSend(t, m, v, n)
         \/ \E n \in WaitTime : BoxReceive(t, m, n)
         \/ BoxSendAgain(t, m) \/ BoxReceiveAgain(t, m) \/ BoxReset(t, m)
  PROVE  Steady
PROOF
<1>1. m \in MailList /\ Private[m] \in MailList /\ MailList \subseteq WaitList  BY MailLists
<1>2. "ok" \in Error /\ "timeout" \in Error  BY DEF Error
<1>3. CASE \E n \in WaitTime, v \in Mail : BoxSend(t, m, v, n)
  BY <1>1, <1>3, BoxMovesSteady, MailWaitSteady DEF BoxSend, Uses
<1>4. CASE \E n \in WaitTime : BoxReceive(t, m, n)
  BY <1>1, <1>4, BoxMovesSteady, MailWaitSteady DEF BoxReceive, Uses
<1>5. CASE BoxSendAgain(t, m)
  BY <1>1, <1>2, <1>5, BoxMovesSteady, MailWaitSteady, ExhaustedSteady DEF BoxSendAgain
<1>6. CASE BoxReceiveAgain(t, m)
  BY <1>1, <1>2, <1>6, BoxMovesSteady, MailWaitSteady, ExhaustedSteady DEF BoxReceiveAgain
<1>7. CASE BoxReset(t, m)
  BY <1>1, <1>7, ResetBothSteady DEF BoxReset, ThenSchedule
<1> QED BY <1>3, <1>4, <1>5, <1>6, <1>7

(* The calls of a queue.                                                    *)
LEMMA QueueSteady ==
  ASSUME IpcInv, MailInv, NEW t, NEW q \in Queue,
         \/ \E n \in WaitTime : QueueReceive(t, q, n)
         \/ \E v \in Mail : QueueSend(t, q, v)
         \/ QueueReceiveAgain(t, q) \/ QueueLink(t, q) \/ QueueRead(t, q) \/ QueueReset(t, q)
  PROVE  Steady
PROOF
<1>1. q \in MailList /\ q \in WaitList  BY MailLists
<1>2. "timeout" \in Error  BY DEF Error
<1>3. CASE (\E v \in Mail : QueueSend(t, q, v)) \/ QueueRead(t, q)
  BY <1>3, StillSteady DEF QueueSend, QueueRead
<1>4. CASE \E n \in WaitTime : QueueReceive(t, q, n)
  BY <1>1, <1>4, StillSteady, MailWaitSteady DEF QueueReceive, Fetch, Uses
<1>5. CASE QueueReceiveAgain(t, q)
  BY <1>1, <1>2, <1>5, StillSteady, MailWaitSteady, ExhaustedSteady DEF QueueReceiveAgain, Fetch
<1>6. CASE QueueLink(t, q)
  BY <1>1, <1>6, HandsSteady DEF QueueLink, ThenSchedule
<1>7. CASE QueueReset(t, q)
  BY <1>1, <1>7, ResetSteady DEF QueueReset, ThenSchedule
<1> QED BY <1>3, <1>4, <1>5, <1>6, <1>7

(* A tick.                                                                  *)
LEMMA TickSteady ==
  ASSUME IpcInv, IpcTick PROVE Steady
PROOF
<1>1. KInv(kern) /\ kern.nest = 0 /\ (\A x \in Thread : kern.slice[x] > 0)
      /\ \A x \in Thread : kern.stat[x] = "ready" => Queued(kern, x)
  BY DEF IpcInv, Ipc, Stands
<1>2. CASE Tick
  BY <1>1, <1>2, TickThins, ThinsSteady DEF Tick
<1>3. ASSUME NEW u \in Thread, TimerFires(u) PROVE Steady
  <2>1. kern' = Timeout(kern, u) /\ kern.stat[u] = "suspend"
    BY <1>1, <1>3 DEF TimerFires, Due, KInv, TimersAgree
  <2> QED BY <1>1, <2>1, TimeoutThins, ThinsSteady
<1>4. CASE TickDone  BY <1>4, StillSteady DEF TickDone
<1> QED BY <1>2, <1>3, <1>4 DEF IpcTick, Interrupt

(* A step of a mailbox or a queue.                                          *)
LEMMA MailSteady ==
  ASSUME IpcInv, MailInv, MailStep PROVE Steady
PROOF
<1>1. ASSUME NEW t \in Thread, NEW o, MailDelete(t, o) PROVE Steady
  BY <1>1, StillSteady DEF MailDelete, DeleteBegin
<1>2. ASSUME NEW t \in Thread, WaitFailed(t) PROVE Steady
  BY <1>2, StillSteady DEF WaitFailed
<1>3. ASSUME NEW t \in Thread, MailCall(t) PROVE Steady
  BY <1>1, <1>3, BoxSteady, QueueSteady DEF MailCall
<1>4. ASSUME NEW t \in Thread, MailInside(t) PROVE Steady
  BY <1>2, <1>4, BoxSteady, QueueSteady DEF MailInside
<1>5. CASE MailHandler
  BY <1>5, HandlerSteady, MailLists DEF MailHandler, BoxPost, QueuePost
<1>6. CASE MailTick
  BY <1>6, TickSteady DEF MailTick
<1> QED BY <1>3, <1>4, <1>5, <1>6 DEF MailStep

(* The scheduler and the loop of rt_ipc_list_resume_all.                    *)
LEMMA ThreadsSteady ==
  ASSUME IpcInv, ThreadsStep PROVE Steady
PROOF
<1>1. PICK t \in Thread : InIpc(t) \/ Delays(t)  BY DEF ThreadsStep
<1>2. KInv(kern) /\ kern \in KernelState  BY DEF IpcInv, Ipc, KInv
<1>3. CASE Reschedule(t) \/ SleepSchedule(t)
  BY <1>2, <1>3, ScheduleThins, ThinsSteady DEF Reschedule, SleepSchedule
<1>4. CASE ResumeAllTest(t)
  BY <1>4, StillSteady DEF ResumeAllTest
<1>5. CASE ResumeAllOne(t)
  <2> DEFINE h == Head(kern.list[Wait(want[t])])
  <2>1. CASE Waiting(kern, want[t])
    <3>1. want[t] \in WaitList  BY <1>5, RunsFacts DEF ResumeAllOne, Inside
    <3>2. h \in Thread  BY <1>2, <2>1, <3>1, FirstWaiter
    <3>3. kern' = ResumeTold(kern, h)
      <4>1. kern' = ResumeWithError(kern, want[t])  BY <1>5, <2>1 DEF ResumeAllOne
      <4>2. [kern EXCEPT !.error[h] = "error"].list = kern.list  BY <1>2 DEF KernelState
      <4> QED BY <4>1, <4>2 DEF ResumeWithError, IpcResume, ResumeTold
    <3> HIDE DEF h
    <3> QED BY <1>2, <3>2, <3>3, ResumeToldThins, ThinsSteady
  <2>2. CASE ~Waiting(kern, want[t])
    BY <1>5, <2>2, StillSteady DEF ResumeAllOne
  <2> QED BY <2>1, <2>2
<1>6. CASE Slept(t)
  <2> DEFINE e == IF kern.error[t] = "timeout" THEN "ok" ELSE kern.error[t]
  <2>1. kern' = [kern EXCEPT !.error[t] = e] /\ e \in Error
    BY <1>2, <1>6 DEF Slept, KernelState, Error
  <2> HIDE DEF e
  <2> QED BY <2>1, ErrorSteady
<1>7. ASSUME NEW n \in 0 .. MaxDelay, Sleep(t, n) PROVE Steady
  <2>1. kern' = TimerStart(Suspend(kern, t), t, n) /\ t # Idle /\ n \in Nat
    BY <1>7, TimesAreNat DEF Sleep
  <2> QED BY <1>2, <2>1, SleepLists, ThinsSteady
<1> QED BY <1>1, <1>3, <1>4, <1>5, <1>6, <1>7 DEF InIpc, Delays

(* A step of an event set.                                                  *)
LEMMA EventSteady ==
  ASSUME IpcInv, EventInv, EventStep PROVE Steady
PROOF
<1>1. \A e \in EventSet : e \in WaitList \ Mutex  BY OthersLists
<1>2. "ok" \in Error /\ "timeout" \in Error  BY DEF Error
<1>3. ASSUME NEW t \in Thread, NEW e \in EventSet, NEW w, EventNow(t, e, w) \/ EventRefused(t, e, w)
      PROVE  Steady
  BY <1>2, <1>3, ErrorSteady DEF EventNow, EventRefused
<1>4. ASSUME NEW t \in Thread, NEW e \in EventSet, NEW w, NEW n \in WaitTime,
             EventWait(t, e, w, n)
      PROVE  Steady
  BY <1>1, <1>4, FirstWaitSteady DEF EventWait
<1>5. ASSUME NEW t \in Thread, NEW e \in EventSet, EventReset(t, e) PROVE Steady
  BY <1>1, <1>5, ResetSteady DEF EventReset, ThenSchedule
<1>6. ASSUME NEW t \in Thread, NEW e \in EventSet, DeleteBegin(t, e) PROVE Steady
  BY <1>6, StillSteady DEF DeleteBegin
<1>7. ASSUME NEW t \in Thread, EventReturn(t) PROVE Steady
  BY <1>7, StillSteady DEF EventReturn
<1>8. ASSUME NEW e \in EventSet, NEW s \in SUBSET Event, EventsArrive(e, s) PROVE Steady
  <2> DEFINE d == Delivered(e, s)
             W == {x \in Thread : OnWait(kern, e, x)}
  <2>1. kern' = d.k \/ kern' = Schedule(d.k) \/ kern' = kern
    BY <1>8 DEF EventsArrive, EventPost, EventSend, ThenSchedule
  <2>2. Handled(W, d)  BY DeliveredIs DEF EventInv, IpcInv, Ipc
  <2> HIDE DEF d, W
  <2>3. Thins(kern, d.k) /\ KInv(d.k)  BY <2>2 DEF Handled, Resumed, Wakes
  <2>4. Thins(kern, Schedule(d.k))  BY <2>3, ScheduleThins, ThinsThen
  <2> QED BY <2>1, <2>3, <2>4, ThinsSteady, StillSteady
<1> QED
  BY <1>3, <1>4, <1>5, <1>6, <1>7, <1>8 DEF EventStep, EventCall, EventHandler, EventsArrive

\* m exists, or was deleted while a thread owned it
Live(m) == m \in alive \/ mutex[m].owner # None

(* There is one such mutex at most.                                         *)
OneLock == \A m, n \in Mutex : Live(m) /\ Live(n) => m = n

(* What a mutex gives back is the priority its owner was created with.      *)
Remembers(m) ==
  mutex[m].owner # None => mutex[m].original = InitPrio[mutex[m].owner]

(* The owner is at least as urgent as everybody who waits for m.            *)
Urgent(m) ==
  \A x \in Thread : OnWait(kern, m, x) => kern.prio[mutex[m].owner] <= kern.prio[x]

(* The waiters of m stand in the order of their priorities.                 *)
InOrder(m) ==
  \A x, y \in Thread : Before(kern.list[Wait(m)], x, y) => kern.prio[x] <= kern.prio[y]

(* The inductive invariant behind priority inheritance.                     *)
LocksInv ==
  /\ OneLock /\ PriorityRestored
  /\ \A m \in Mutex : Remembers(m) /\ (m \in alive => Urgent(m) /\ InOrder(m))

(* A step that is steady and leaves the owners and what they get back.      *)
LEMMA LocksStay ==
  ASSUME LocksInv, Steady, alive' \subseteq alive,
         \A m \in Mutex : mutex'[m].owner = mutex[m].owner /\ mutex'[m].original = mutex[m].original
  PROVE  LocksInv'
PROOF
<1>1. OneLock'  BY DEF LocksInv, OneLock, Live
<1>2. PriorityRestored'  BY DEF LocksInv, PriorityRestored, Steady
<1>3. ASSUME NEW m \in Mutex
      PROVE  Remembers(m)' /\ (m \in alive' => Urgent(m)' /\ InOrder(m)')
  <2>1. Remembers(m)'  BY DEF LocksInv, Remembers
  <2>2. ASSUME m \in alive' PROVE Urgent(m)' /\ InOrder(m)'
    <3>1. Urgent(m) /\ InOrder(m) /\ Within(kern'.list[Wait(m)], kern.list[Wait(m)])
      BY <2>2 DEF LocksInv, Steady
    <3>2. Urgent(m)'  BY <3>1 DEF Urgent, Steady, Within, OnWait
    <3>3. InOrder(m)'  BY <3>1 DEF InOrder, Steady, Within
    <3> QED BY <3>2, <3>3
  <2> QED BY <2>1, <2>2
<1> QED BY <1>1, <1>2, <1>3 DEF LocksInv

(* rt_mutex_take of a free mutex.                                           *)
LEMMA TakeFreeLocks ==
  ASSUME IpcInv, MutexInv, LocksInv, NEW t, NEW m \in Mutex, MutexTakeFree(t, m)
  PROVE  LocksInv'
PROOF
<1>1. /\ Uses(t, m) /\ mutex[m].value > 0 /\ kern' = ClearError(t)
      /\ mutex' = [mutex EXCEPT ![m] = Owned(t, mutex[m].hold + 1)] /\ alive' = alive
  BY DEF MutexTakeFree, waitVars
<1>2. t \in Thread /\ m \in alive  BY <1>1, UsesFacts
<1>3. mutex[m].owner = None /\ mutex \in [Mutex -> MutexState] /\ None \notin Thread
  BY <1>1, MutexFacts DEF MutexInv
<1>4. \A n \in Mutex : n # m => ~Live(n)  BY <1>2 DEF LocksInv, OneLock, Live
<1>5. \A n \in Mutex : mutex[n].owner = None /\ (n \in alive => n = m)
  BY <1>3, <1>4 DEF Live
<1>6. \A x \in Thread : kern.prio[x] = InitPrio[x]
  BY <1>3, <1>5 DEF LocksInv, PriorityRestored
<1>7. /\ mutex'[m].owner = t /\ mutex'[m].original = kern.prio[t]
      /\ \A n \in Mutex : n # m => mutex'[n] = mutex[n]
  BY <1>1, <1>3 DEF Owned
<1>8. Steady  BY <1>1, <1>2, ErrorSteady DEF ClearError, Error
<1>9. \A x \in Thread : ~OnWait(kern, m, x)
  <2>1. ~Waiting(kern, m)  BY <1>2, <1>3 DEF MutexInv, MutexWaiters
  <2> QED BY <2>1, FirstWaiter, MutexLists DEF IpcInv, Ipc
<1>10. OneLock'  BY <1>1, <1>4, <1>5, <1>7 DEF OneLock, Live
<1>11. PriorityRestored'  BY <1>6, <1>8 DEF PriorityRestored, Steady
<1>12. ASSUME NEW n \in Mutex
       PROVE  Remembers(n)' /\ (n \in alive' => Urgent(n)' /\ InOrder(n)')
  <2>1. Remembers(n)'  BY <1>2, <1>5, <1>6, <1>7 DEF Remembers
  <2>2. n \in alive' => n = m  BY <1>1, <1>5
  <2>3. Urgent(m)'  BY <1>8, <1>9 DEF Urgent, Steady, Within, OnWait
  <2>4. InOrder(m)'  BY <1>2, <1>8 DEF LocksInv, InOrder, Steady, Within
  <2> QED BY <2>1, <2>2, <2>3, <2>4
<1> QED BY <1>10, <1>11, <1>12 DEF LocksInv

(* The owner inherits, and the rest of the kernel stays.                    *)
LEMMA InheritPrio ==
  ASSUME IpcInv, MutexInv, NEW t, NEW m \in Mutex, Uses(t, m), Busy(t, m)
  PROVE  LET k == Inherit(t, m)
             u == mutex[m].owner
         IN /\ KInv(k) /\ u \in Thread /\ u # t
            /\ \A q \in WaitList : k.list[Wait(q)] = kern.list[Wait(q)]
            /\ k.prio[u] = IF kern.prio[t] < kern.prio[u] THEN kern.prio[t] ELSE kern.prio[u]
            /\ \A x \in Thread \ {u} : k.prio[x] = kern.prio[x]
PROOF
<1> DEFINE c == ClearError(t)
           u == mutex[m].owner
           k == Inherit(t, m)
<1>1. t \in Thread /\ kern \in KernelState /\ KInv(kern) /\ "ok" \in Error
  BY UsesFacts DEF KInv, Error
<1>2. u \in Thread /\ u # Idle /\ u # t  BY MutexFacts DEF Busy
<1>3. KInv(c) /\ c.list = kern.list /\ c.prio = kern.prio
  BY <1>1, ErrorWakes DEF ClearError, Wakes
<1>4. k = IF kern.prio[t] < kern.prio[u] THEN ChangePriority(c, u, kern.prio[t]) ELSE c
  BY DEF Inherit
<1> HIDE DEF c, u, k
<1>5. kern.prio[t] \in Prio /\ kern.prio \in [Thread -> Prio]  BY <1>1 DEF KernelState
<1>6. CASE kern.prio[t] < kern.prio[u]
  <2>1. k = ChangePriority(c, u, kern.prio[t])  BY <1>4, <1>6
  <2>2. /\ KInv(k) /\ k.prio = [c.prio EXCEPT ![u] = kern.prio[t]]
        /\ \A q \in WaitList : k.list[Wait(q)] = c.list[Wait(q)]
    BY <1>2, <1>3, <1>5, <2>1, PriorityWakes DEF Wakes
  <2> QED BY <1>2, <1>3, <1>5, <1>6, <2>2 DEF k, u
<1>7. CASE ~(kern.prio[t] < kern.prio[u])
  BY <1>2, <1>3, <1>4, <1>7 DEF k, u
<1> QED BY <1>6, <1>7

(* A list in the order of priorities stays so when a thread joins it where  *)
(* rt_ipc_list_suspend puts it.                                             *)
LEMMA JoinsInOrder ==
  ASSUME NEW k, KInv(k), NEW q \in WaitList, NEW t \in Thread, ~OnWait(k, q, t),
         \A x, y \in Thread : Before(k.list[Wait(q)], x, y) => k.prio[x] <= k.prio[y]
  PROVE  /\ \A x : Contains(Placed(k, q, t, "prio"), x) <=> OnWait(k, q, x) \/ x = t
         /\ \A x, y \in Thread :
              Before(Placed(k, q, t, "prio"), x, y) => k.prio[x] <= k.prio[y]
PROOF
<1> DEFINE w == k.list[Wait(q)]
           p == PrioPosition(k, q, t)
           r == InsertAt(w, p, t)
<1>1. k \in KernelState /\ w \in Seq(Thread) /\ IsInjective(w) /\ ~Contains(w, t)
  BY ListKeys DEF KInv, KernelState, Disjoint, OnWait
<1>2. /\ p \in 1 .. Len(w) + 1
      /\ \A i \in 1 .. Len(w) : i < p => k.prio[w[i]] <= k.prio[t]
      /\ p <= Len(w) => k.prio[t] < k.prio[w[p]]
  BY <1>1, PrioPositionIs
<1>3. Placed(k, q, t, "prio") = r  BY DEF Placed
<1>4. \A x \in Thread : k.prio[x] \in Nat
  BY <1>1, PrioAssumption DEF KernelState, Prio
<1>5. \A i, j \in 1 .. Len(w) : i < j => k.prio[w[i]] <= k.prio[w[j]]
  BY <1>1 DEF Before
<1>6. \A i \in 1 .. Len(w) : w[i] \in Thread  BY <1>1
<1> HIDE DEF w, p
<1>7. /\ \A u : Contains(r, u) <=> Contains(w, u) \/ u = t
      /\ \A x, y \in 1 .. Len(r) : x < y =>
           \/ \E i, j \in 1 .. Len(w) : i < j /\ r[x] = w[i] /\ r[y] = w[j]
           \/ r[y] = t /\ \E i \in 1 .. Len(w) : i < p /\ r[x] = w[i]
           \/ r[x] = t /\ \E j \in 1 .. Len(w) : p <= j /\ r[y] = w[j]
  BY <1>1, <1>2, InsertAtMember
<1> HIDE DEF r
<1>8. ASSUME NEW j \in 1 .. Len(w), p <= j PROVE k.prio[t] <= k.prio[w[j]]
  <2>1. p \in 1 .. Len(w) /\ p <= Len(w) /\ k.prio[t] < k.prio[w[p]]  BY <1>1, <1>2, <1>8
  <2>2. k.prio[w[p]] <= k.prio[w[j]]
    BY <1>4, <1>5, <1>6, <1>8, <2>1
  <2> QED BY <1>4, <1>6, <1>8, <2>1, <2>2
<1>9. ASSUME NEW a \in Thread, NEW b \in Thread, Before(r, a, b) PROVE k.prio[a] <= k.prio[b]
  <2>1. PICK x, y \in 1 .. Len(r) : x < y /\ r[x] = a /\ r[y] = b  BY <1>9 DEF Before
  <2>2. CASE \E i, j \in 1 .. Len(w) : i < j /\ r[x] = w[i] /\ r[y] = w[j]
    BY <1>5, <2>1, <2>2
  <2>3. CASE r[y] = t /\ \E i \in 1 .. Len(w) : i < p /\ r[x] = w[i]
    BY <1>2, <2>1, <2>3
  <2>4. CASE r[x] = t /\ \E j \in 1 .. Len(w) : p <= j /\ r[y] = w[j]
    BY <1>8, <2>1, <2>4
  <2> QED BY <1>7, <2>1, <2>2, <2>3, <2>4
<1> QED BY <1>3, <1>7, <1>9 DEF OnWait, w

(* Who stands on a list in order is on it.                                  *)
LEMMA BeforeContains ==
  ASSUME NEW w, NEW x, NEW y, Before(w, x, y) PROVE Contains(w, x) /\ Contains(w, y)
BY DEF Before, Contains

(* rt_mutex_take of a mutex somebody else owns.                             *)
LEMMA TakeWaitLocks ==
  ASSUME IpcInv, MutexInv, LocksInv, NEW t, NEW m \in Mutex, Flag[m] = "prio",
         NEW n \in WaitTime, MutexTakeWait(t, m, n)
  PROVE  LocksInv'
PROOF
<1> DEFINE k == Inherit(t, m)
           u == mutex[m].owner
<1>1. /\ Uses(t, m) /\ Busy(t, m) /\ WaitOn(k, t, m, n) /\ mutex' = mutex
  BY DEF MutexTakeWait
<1>2. /\ KInv(k) /\ u \in Thread /\ u # t
      /\ \A q \in WaitList : k.list[Wait(q)] = kern.list[Wait(q)]
      /\ k.prio[u] = IF kern.prio[t] < kern.prio[u] THEN kern.prio[t] ELSE kern.prio[u]
      /\ \A x \in Thread \ {u} : k.prio[x] = kern.prio[x]
  BY <1>1, InheritPrio
<1>3. kern' = Block(k, m, t, "prio", n) /\ alive' = alive /\ n \in Nat
  BY <1>1, TimesAreNat DEF WaitOn
<1>4. /\ t \in Thread /\ t # Idle /\ m \in alive /\ m \in WaitList /\ Runs(t, "app")
      /\ kern \in KernelState /\ None \notin Thread
  BY <1>1, UsesFacts, MutexFacts DEF KInv
<1>5. \A q \in WaitList : ~OnWait(kern, q, t)  BY <1>4, RunsFacts
<1>6. ~OnWait(kern, m, u)
  <2>1. Waiting(kern, m) => ~OnWait(kern, m, u)  BY <1>4 DEF MutexInv, MutexWaiters
  <2> QED BY <1>2, <1>4, <2>1, FirstWaiter DEF IpcInv, Ipc
<1>7. LocksInv /\ \A x \in Thread : kern.prio[x] \in Nat
  BY <1>4, PrioAssumption DEF KernelState, Prio
<1> HIDE DEF k, u
<1>8. \A q \in WaitList : ~OnWait(k, q, t)  BY <1>2, <1>5 DEF OnWait
<1>9. kern'.prio = k.prio  BY <1>2, <1>3, <1>4, BlockSleeps DEF Sleeps
<1>10. kern'.list[Wait(m)] = Placed(k, m, t, "prio")
  BY <1>2, <1>3, <1>4, <1>8, BlockLists
<1>11. \A x, y \in Thread : Before(k.list[Wait(m)], x, y) => k.prio[x] <= k.prio[y]
  <2> SUFFICES ASSUME NEW x \in Thread, NEW y \in Thread, Before(kern.list[Wait(m)], x, y)
               PROVE  k.prio[x] <= k.prio[y]
    BY <1>2, <1>4
  <2>1. x # u /\ y # u  BY <1>6, BeforeContains DEF OnWait
  <2>2. kern.prio[x] <= kern.prio[y]  BY <1>4 DEF LocksInv, InOrder
  <2> QED BY <1>2, <2>1, <2>2
<1>12. /\ \A x : OnWait(kern', m, x) <=> OnWait(kern, m, x) \/ x = t
       /\ \A x, y \in Thread : Before(kern'.list[Wait(m)], x, y) => kern'.prio[x] <= kern'.prio[y]
  BY <1>2, <1>4, <1>8, <1>9, <1>10, <1>11, JoinsInOrder DEF OnWait
<1>13. OneLock'  BY <1>1, <1>3 DEF LocksInv, OneLock, Live
<1>14. PriorityRestored'
  BY <1>1, <1>2, <1>9 DEF LocksInv, PriorityRestored, u
<1>15. Urgent(m)'
  <2> SUFFICES ASSUME NEW x \in Thread, OnWait(kern', m, x) PROVE k.prio[u] <= k.prio[x]
    BY <1>1, <1>9 DEF Urgent, u
  <2>1. kern.prio[t] \in Nat /\ kern.prio[u] \in Nat /\ kern.prio[x] \in Nat
    BY <1>2, <1>4, <1>7
  <2>2. CASE x = t
    BY <1>2, <1>4, <2>1, <2>2
  <2>3. CASE OnWait(kern, m, x)
    <3>1. x # u /\ kern.prio[u] <= kern.prio[x]
      BY <1>4, <1>6, <2>3 DEF LocksInv, Urgent, u
    <3> QED BY <1>2, <2>1, <3>1
  <2> QED BY <1>12, <2>2, <2>3
<1>16. ASSUME NEW x \in Mutex
       PROVE  Remembers(x)' /\ (x \in alive' => Urgent(x)' /\ InOrder(x)')
  <2>1. Remembers(x)'  BY <1>1 DEF LocksInv, Remembers
  <2>2. x \in alive' => x = m  BY <1>3, <1>4 DEF LocksInv, OneLock, Live
  <2>3. InOrder(m)'  BY <1>12 DEF InOrder
  <2> QED BY <1>15, <2>1, <2>2, <2>3
<1> QED BY <1>13, <1>14, <1>16 DEF LocksInv

(* rt_mutex_release of the outermost take.                                  *)
LEMMA ReleaseLocks ==
  ASSUME IpcInv, MutexInv, LocksInv, NEW t, NEW m \in Mutex, MutexRelease(t, m)
  PROVE  LocksInv'
PROOF
<1> DEFINE k == Disinherit(t, m)
           w == kern.list[Wait(m)]
           h == Head(w)
<1>1. /\ Uses(t, m) /\ mutex[m].owner = t /\ kern' = Woke(k, m) /\ alive' = alive
      /\ mutex' = [mutex EXCEPT ![m] = NextOwner(t, m)]
  BY DEF MutexRelease, ThenSchedule
<1>2. /\ t \in Thread /\ m \in alive /\ m \in WaitList /\ KInv(kern) /\ kern \in KernelState
      /\ None \notin Thread /\ mutex \in [Mutex -> MutexState]
  BY <1>1, UsesFacts, MutexFacts DEF KInv, MutexInv
<1>3. Alike(k) /\ \A x \in Thread \ {t} : k.prio[x] = kern.prio[x]
  BY <1>1, DisinheritIs
<1>4. mutex[m].original = InitPrio[t]
  BY <1>1, <1>2 DEF LocksInv, Remembers
<1>5. k.prio[t] = InitPrio[t]
  <2>1. CASE mutex[m].original # kern.prio[t]
    <3>1. InitPrio[t] \in Prio /\ t # Idle  BY <1>1, <1>2, UsesFacts, PrioAssumption
    <3>2. k = ChangePriority(kern, t, InitPrio[t])  BY <1>4, <2>1 DEF Disinherit
    <3> HIDE DEF k
    <3>3. k.prio = [kern.prio EXCEPT ![t] = InitPrio[t]]
      BY <1>2, <3>1, <3>2, PriorityWakes
    <3> QED BY <1>2, <3>3 DEF KernelState
  <2>2. CASE mutex[m].original = kern.prio[t]
    BY <1>4, <2>2 DEF Disinherit
  <2> QED BY <2>1, <2>2
<1> HIDE DEF k
<1>6. KInv(k) /\ \A q \in WaitList : k.list[Wait(q)] = kern.list[Wait(q)]
  BY <1>3 DEF Alike, Wakes
<1>7. kern'.prio = k.prio  BY <1>1, <1>2, <1>3, HandOver
<1>8. \A n \in Mutex : n # m => ~Live(n)  BY <1>2 DEF LocksInv, OneLock, Live
<1>9. \A n \in Mutex : n # m => mutex[n].owner = None /\ n \notin alive /\ mutex'[n] = mutex[n]
  BY <1>1, <1>2, <1>8 DEF Live
<1>10. mutex'[m] = NextOwner(t, m)  BY <1>1, <1>2
<1>11. \A x \in Thread : x # t => kern.prio[x] = InitPrio[x]
  BY <1>1, <1>2, <1>9 DEF LocksInv, PriorityRestored
<1>12. \A x \in Thread : kern'.prio[x] = InitPrio[x]
  BY <1>2, <1>3, <1>5, <1>7, <1>11
<1>13. OneLock'  BY <1>1, <1>9 DEF OneLock, Live
<1>14. PriorityRestored'  BY <1>12 DEF PriorityRestored
<1>15. CASE Waiting(kern, m)
  <2>1. h \in Thread /\ OnWait(kern, m, h)  BY <1>2, <1>15, FirstWaiter
  <2>2. ~OnWait(kern, m, t)  BY <1>1, <1>2, <1>15 DEF MutexInv, MutexWaiters
  <2>3. mutex'[m].owner = h /\ mutex'[m].original = InitPrio[h]
    <3>1. NextOwner(t, m) = Owned(h, 1)  BY <1>15 DEF NextOwner
    <3>2. h # t  BY <2>1, <2>2
    <3> QED BY <1>10, <1>11, <2>1, <3>1, <3>2 DEF Owned
  <2>4. w \in Seq(Thread) /\ IsInjective(w) /\ w # << >>
    BY <1>2, <1>15, ListKeys DEF KInv, KernelState, Disjoint, Waiting
  <2>5. kern' = Resume(k, h)  BY <1>1, <1>2, <1>6, <1>15 DEF Woke, Waiting, IpcResume
  <2>6. kern'.stat[h] = "ready" /\ KInv(kern')
    <3>1. OnWait(k, m, h)  BY <1>2, <1>6, <2>1 DEF OnWait
    <3>2. k.stat[h] # "ready"  BY <1>2, <1>6, <2>1, <3>1, ReadyWaitsNot
    <3> HIDE DEF h
    <3> QED BY <1>6, <2>1, <2>5, <3>2, ResumeInv
  <2>7. Within(kern'.list[Wait(m)], w)
    <3>1. Thins(k, kern')  BY <1>6, <2>1, <2>5, ResumeThins
    <3> QED BY <1>2, <1>6, <3>1 DEF Thins
  <2>8. ~OnWait(kern', m, h)  BY <1>2, <2>1, <2>6, ReadyWaitsNot
  <2>9. ASSUME NEW x \in Thread, OnWait(kern', m, x) PROVE Before(w, h, x)
    <3>1. Contains(w, x) /\ x # h  BY <2>7, <2>8, <2>9 DEF OnWait, Within
    <3>2. PICK i \in 1 .. Len(w) : w[i] = x  BY <3>1 DEF Contains
    <3>3. 1 \in 1 .. Len(w) /\ w[1] = h  BY <2>4
    <3>4. 1 < i  BY <2>4, <3>1, <3>2, <3>3
    <3> QED BY <3>2, <3>3, <3>4 DEF Before
  <2>10. \A x \in Thread : Contains(w, x) => kern'.prio[x] = kern.prio[x]
    BY <1>11, <1>12, <2>2 DEF OnWait
  <2>11. \A x, y \in Thread : Before(w, x, y) => kern'.prio[x] <= kern'.prio[y]
    BY <1>2, <2>10, BeforeContains DEF LocksInv, InOrder
  <2> HIDE DEF h, w
  <2>12. Urgent(m)'  BY <2>1, <2>3, <2>9, <2>11 DEF Urgent
  <2>13. InOrder(m)'  BY <2>7, <2>11 DEF InOrder, Within
  <2>14. Remembers(m)'  BY <2>3 DEF Remembers
  <2>15. \A n \in Mutex : n # m => Remembers(n)' /\ n \notin alive'
    BY <1>1, <1>9 DEF Remembers
  <2> QED BY <1>13, <1>14, <2>12, <2>13, <2>14, <2>15 DEF LocksInv
<1>16. CASE ~Waiting(kern, m)
  <2>1. kern' = k  BY <1>1, <1>2, <1>6, <1>16 DEF Woke, Waiting
  <2>2. \A x \in Thread : ~OnWait(kern', m, x)
    BY <1>2, <1>6, <1>16, <2>1, FirstWaiter DEF OnWait
  <2>3. mutex'[m].owner = None  BY <1>10, <1>16 DEF NextOwner, Unowned
  <2>4. Urgent(m)'  BY <2>2 DEF Urgent
  <2>5. InOrder(m)'  BY <2>2, BeforeContains DEF InOrder, OnWait
  <2>6. \A n \in Mutex : Remembers(n)' /\ (n # m => n \notin alive')
    BY <1>1, <1>9, <2>3 DEF Remembers
  <2> QED BY <1>13, <1>14, <2>4, <2>5, <2>6 DEF LocksInv
<1> QED BY <1>15, <1>16

(* Every step of a mutex.                                                   *)
LEMMA MutexLocks ==
  ASSUME IpcInv, MutexInv, LocksInv, MutexStep, \A m \in Mutex : Flag[m] = "prio"
  PROVE  LocksInv'
PROOF
<1>1. PICK t \in Thread : MutexCall(t) \/ MutexTakeReturn(t)  BY DEF MutexStep
<1>2. mutex \in [Mutex -> MutexState] /\ "ok" \in Error /\ "timeout" \in Error /\ "error" \in Error
  BY DEF MutexInv, Error
<1>3. ASSUME NEW m \in Mutex, MutexTakeAgain(t, m) PROVE LocksInv'
  <2>1. Steady /\ alive' = alive
    BY <1>1, <1>2, <1>3, ErrorSteady DEF MutexTakeAgain, ClearError, waitVars
  <2> DEFINE r == [mutex[m] EXCEPT !.hold = @ + 1]
  <2>2. r.owner = mutex[m].owner /\ r.original = mutex[m].original
    BY <1>2 DEF MutexState
  <2>3. mutex' = [mutex EXCEPT ![m] = r]
    BY <1>3 DEF MutexTakeAgain
  <2> HIDE DEF r
  <2>4. \A n \in Mutex : mutex'[n].owner = mutex[n].owner /\ mutex'[n].original = mutex[n].original
    BY <1>2, <2>2, <2>3
  <2> QED BY <2>1, <2>4, LocksStay
<1>4. ASSUME NEW m \in Mutex, MutexTakeRefused(t, m) \/ MutexReleaseRefused(t, m)
      PROVE  LocksInv'
  <2>1. Steady /\ alive' = alive /\ mutex' = mutex
    BY <1>1, <1>2, <1>4, ErrorSteady DEF MutexTakeRefused, MutexReleaseRefused, waitVars
  <2> QED BY <2>1, LocksStay
<1>5. ASSUME NEW m \in Mutex, MutexReleaseInner(t, m) PROVE LocksInv'
  <2>1. Steady /\ alive' = alive
    BY <1>5, StillSteady DEF MutexReleaseInner, ipcVars, waitVars
  <2> DEFINE r == [mutex[m] EXCEPT !.hold = @ - 1]
  <2>2. r.owner = mutex[m].owner /\ r.original = mutex[m].original
    BY <1>2 DEF MutexState
  <2>3. mutex' = [mutex EXCEPT ![m] = r]
    BY <1>5 DEF MutexReleaseInner
  <2> HIDE DEF r
  <2>4. \A n \in Mutex : mutex'[n].owner = mutex[n].owner /\ mutex'[n].original = mutex[n].original
    BY <1>2, <2>2, <2>3
  <2> QED BY <2>1, <2>4, LocksStay
<1>6. ASSUME NEW m \in Mutex, DeleteBegin(t, m), UNCHANGED mutex PROVE LocksInv'
  <2>1. Steady /\ alive' \subseteq alive /\ mutex' = mutex
    BY <1>6, StillSteady DEF DeleteBegin
  <2> QED BY <2>1, LocksStay
<1>7. CASE MutexTakeReturn(t)
  <2>1. Steady /\ alive' = alive /\ mutex' = mutex
    BY <1>7, StillSteady DEF MutexTakeReturn, WaitOver
  <2> QED BY <2>1, LocksStay
<1> QED
  BY <1>1, <1>3, <1>4, <1>5, <1>6, <1>7, TakeFreeLocks, TakeWaitLocks, ReleaseLocks DEF MutexCall

(* LocksInv holds of an application with one mutex at a time, whose waiters *)
(* stand in the order of their priorities (RT_IPC_FLAG_PRIO).  With two,    *)
(* what one records as the original priority of its owner may be a boosted  *)
(* one, and releasing one gives up what the waiters of the other are due.   *)
LEMMA LocksInvariant ==
  ASSUME \A w \in Worlds : \A m, n \in w \cap Mutex : m = n,
         \A m \in Mutex : Flag[m] = "prio"
  PROVE  ObjectsSpec => []LocksInv
PROOF
<1>1. ASSUME ObjectsInit PROVE LocksInv
  <2>1. /\ \A x \in Thread, q \in WaitList : ~OnWait(kern, q, x)
        /\ kern.prio = InitPrio
    <3>1. Users[alive] \in SUBSET Thread /\ IsFiniteSet(Users[alive]) /\ Idle \in Users[alive]
      BY <1>1, ObjectsAssumption, FS_Subset DEF ObjectsInit
    <3>2. kern = Up(Users[alive])  BY <1>1 DEF ObjectsInit, IpcIdle
    <3> QED BY <3>1, <3>2, UpInv
  <2>2. \A m \in Mutex : mutex[m].owner = None
    BY <1>1 DEF ObjectsInit, MutexInit, Unowned
  <2>3. alive \in Worlds  BY <1>1 DEF ObjectsInit
  <2>4. OneLock  BY <2>2, <2>3 DEF OneLock, Live
  <2>5. \A m \in Mutex : Remembers(m) /\ Urgent(m) /\ InOrder(m)
    BY <2>1, <2>2, MutexLists, BeforeContains DEF Remembers, Urgent, InOrder, OnWait
  <2> QED BY <2>1, <2>4, <2>5 DEF LocksInv, PriorityRestored
<1>2. ASSUME ObjInv, LocksInv, ObjectsNext PROVE LocksInv'
  <2> USE DEF ObjInv
  <2>1. CASE MutexStep  BY <1>2, <2>1, MutexLocks
  <2>2. CASE SemStep
    <3>1. alive' \subseteq alive /\ mutex' = mutex
      BY <1>2, <2>2, SemShape, AliveShrinks DEF SemStep
    <3> QED BY <1>2, <2>2, <3>1, SemSteady, LocksStay
  <2>3. CASE MailStep
    <3>1. alive' \subseteq alive /\ mutex' = mutex
      BY <2>3, MailShape DEF MailStep, MailDelete, DeleteBegin
    <3> QED BY <1>2, <2>3, <3>1, MailSteady, LocksStay
  <2>4. CASE EventStep
    <3>1. alive' \subseteq alive /\ mutex' = mutex
      BY <1>2, <2>4, EventShape, AliveShrinks DEF EventStep
    <3> QED BY <1>2, <2>4, <3>1, EventSteady, LocksStay
  <2>5. CASE ThreadsStep
    <3>1. alive' = alive /\ mutex' = mutex
      BY <1>2, <2>5, ThreadsShape DEF ThreadsStep
    <3> QED BY <1>2, <2>5, <3>1, ThreadsSteady, LocksStay
  <2> QED BY <1>2, <2>1, <2>2, <2>3, <2>4, <2>5 DEF ObjectsNext
<1>3. ASSUME LocksInv, UNCHANGED objectVars PROVE LocksInv'
  <2>1. Steady /\ alive' = alive /\ mutex' = mutex
    BY <1>3, StillSteady DEF objectVars, ipcVars, waitVars
  <2> QED BY <1>3, <2>1, LocksStay
<1>4. ObjInv /\ LocksInv /\ [ObjectsNext]_objectVars => LocksInv'  BY <1>2, <1>3
<1> QED BY <1>1, <1>4, ObjectsInvariant, PTL DEF ObjectsSpec

(* Priority inheritance: the owner of a mutex is at least as urgent as      *)
(* every thread that waits for it (rt_mutex_take, ipc.c).                   *)
THEOREM OwnersInherit ==
  ASSUME \A w \in Worlds : \A m, n \in w \cap Mutex : m = n,
         \A m \in Mutex : Flag[m] = "prio"
  PROVE  ObjectsSpec => []OwnerInherits
PROOF
<1>1. LocksInv => OwnerInherits  BY DEF LocksInv, Urgent, OwnerInherits, OnWait
<1>2. ObjectsSpec => []LocksInv  BY LocksInvariant
<1> QED BY <1>1, <1>2, PTL

(* A thread that has released every mutex has the priority it was created   *)
(* with (rt_mutex_release, ipc.c).                                          *)
THEOREM PrioritiesComeBack ==
  ASSUME \A w \in Worlds : \A m, n \in w \cap Mutex : m = n,
         \A m \in Mutex : Flag[m] = "prio"
  PROVE  ObjectsSpec => []PriorityRestored
PROOF
<1>1. LocksInv => PriorityRestored  BY DEF LocksInv
<1>2. ObjectsSpec => []LocksInv  BY LocksInvariant
<1> QED BY <1>1, <1>2, PTL

-----------------------------------------------------------------------------
(* First come, first served *)

(* A step of a mutex: its list gains a thread that waits, or loses the one  *)
(* that is handed the mutex.                                                *)
LEMMA MutexSettles ==
  ASSUME IpcInv, MutexInv, MutexStep
  PROVE  \A q \in WaitList : Settled(q)
PROOF
<1>1. PICK t \in Thread : MutexCall(t) \/ MutexTakeReturn(t)  BY DEF MutexStep
<1>2. "ok" \in Error /\ "timeout" \in Error /\ "error" \in Error  BY DEF Error
<1>3. ASSUME Steady PROVE \A q \in WaitList : Settled(q)  BY <1>3 DEF Steady
<1>4. ASSUME NEW m \in Mutex,
             \/ MutexTakeAgain(t, m) \/ MutexTakeFree(t, m) \/ MutexTakeRefused(t, m)
             \/ MutexReleaseRefused(t, m)
      PROVE  Steady
  BY <1>1, <1>2, <1>4, ErrorSteady
     DEF MutexTakeAgain, MutexTakeFree, MutexTakeRefused, MutexReleaseRefused, ClearError
<1>5. ASSUME NEW m \in Mutex, MutexReleaseInner(t, m) \/ DeleteBegin(t, m) PROVE Steady
  BY <1>5, StillSteady DEF MutexReleaseInner, DeleteBegin, ipcVars
<1>6. ASSUME MutexTakeReturn(t) PROVE Steady
  BY <1>6, StillSteady DEF MutexTakeReturn
<1>7. ASSUME NEW m \in Mutex, NEW n \in WaitTime, MutexTakeWait(t, m, n)
      PROVE  \A q \in WaitList : Settled(q)
  <2> DEFINE k == Inherit(t, m)
  <2>1. Uses(t, m) /\ Busy(t, m) /\ WaitOn(k, t, m, n)  BY <1>7 DEF MutexTakeWait
  <2>2. KInv(k) /\ \A q \in WaitList : k.list[Wait(q)] = kern.list[Wait(q)]
    BY <2>1, InheritPrio
  <2>3. kern' = Block(k, m, t, Flag[m], n) /\ n \in Nat /\ m \in WaitList
    BY <2>1, TimesAreNat, MutexLists DEF WaitOn
  <2>4. t \in Thread /\ t # Idle /\ \A q \in WaitList : ~OnWait(kern, q, t)
    BY <2>1, UsesFacts, RunsFacts
  <2> HIDE DEF k
  <2>5. \A q \in WaitList : ~OnWait(k, q, t)  BY <2>2, <2>4 DEF OnWait
  <2>6. kern'.prio = k.prio  BY <2>2, <2>3, <2>4, <2>5, BlockSleeps DEF Sleeps
  <2>7. \A q \in WaitList :
          kern'.list[Wait(q)] = IF q = m THEN Placed(k, m, t, Flag[m]) ELSE k.list[Wait(q)]
    BY <2>2, <2>3, <2>4, <2>5, BlockLists
  <2>8. Arrived(m)  BY <2>2, <2>3, <2>4, <2>6, <2>7 DEF Arrived, KInv
  <2> QED BY <2>2, <2>7, <2>8, WithinSelf DEF Settled
<1>8. ASSUME NEW m \in Mutex, MutexRelease(t, m) PROVE \A q \in WaitList : Settled(q)
  <2> DEFINE k == Disinherit(t, m)
             h == Head(k.list[Wait(m)])
  <2>1. Uses(t, m) /\ mutex[m].owner = t /\ kern' = Woke(k, m) /\ m \in WaitList
    BY <1>8, MutexLists DEF MutexRelease, ThenSchedule
  <2>2. Alike(k)  BY <2>1, DisinheritIs
  <2> HIDE DEF k
  <2>3. KInv(k) /\ \A q \in WaitList : k.list[Wait(q)] = kern.list[Wait(q)]
    BY <2>2 DEF Alike, Wakes
  <2>4. CASE Waiting(k, m)
    <3>1. h \in Thread  BY <2>1, <2>3, <2>4, FirstWaiter
    <3>2. kern' = Resume(k, h)  BY <2>1, <2>4 DEF Woke, IpcResume
    <3> HIDE DEF h
    <3>3. Thins(k, kern')  BY <2>3, <3>1, <3>2, ResumeThins
    <3> QED BY <2>3, <3>3 DEF Thins, Settled
  <2>5. CASE ~Waiting(k, m)
    BY <2>1, <2>3, <2>5, WithinSelf DEF Woke, Settled
  <2> QED BY <2>4, <2>5
<1> QED BY <1>1, <1>3, <1>4, <1>5, <1>6, <1>7, <1>8 DEF MutexCall

(* In every step, those who stay on a list keep their order.                *)
LEMMA StepSettles ==
  ASSUME ObjInv, [ObjectsNext]_objectVars
  PROVE  \A q \in WaitList : Settled(q)
PROOF
<1>1. CASE MutexStep  BY <1>1, MutexSettles DEF ObjInv
<1>2. CASE SemStep \/ MailStep \/ EventStep \/ ThreadsStep
  BY <1>2, SemSteady, MailSteady, EventSteady, ThreadsSteady DEF ObjInv, Steady
<1>3. CASE UNCHANGED objectVars
  BY <1>3, StillSteady DEF objectVars, ipcVars, Steady
<1> QED BY <1>1, <1>2, <1>3 DEF ObjectsNext

(* Where rt_ipc_list_suspend puts a newcomer: behind all who wait, or, with *)
(* RT_IPC_FLAG_PRIO, just before one that is less urgent.                   *)
LEMMA NewcomerStands ==
  ASSUME NEW k, k \in KernelState, NEW q \in WaitList, NEW t \in Thread, ~OnWait(k, q, t),
         NEW x, NEW y, Contains(k.list[Wait(q)], y),
         Before(Placed(k, q, t, Flag[q]), x, y)
  PROVE  LET w == k.list[Wait(q)]
             r == Placed(k, q, t, Flag[q])
         IN \/ Before(w, x, y)
            \/ /\ Flag[q] = "prio" /\ x = t
               /\ \E z \in Thread : /\ Before(r, x, z) /\ (z = y \/ Before(r, z, y))
                                   /\ k.prio[x] < k.prio[z]
PROOF
<1> DEFINE w == k.list[Wait(q)]
           r == Placed(k, q, t, Flag[q])
           p == PrioPosition(k, q, t)
<1>1. w \in Seq(Thread) /\ y # t /\ Flag[q] \in {"fifo", "prio"}
  BY ListKeys, IpcAssumption DEF KernelState, OnWait
<1>2. PICK i \in 1 .. Len(r), j \in 1 .. Len(r) : i < j /\ r[i] = x /\ r[j] = y
  BY DEF Before
<1>3. CASE Flag[q] = "fifo"
  <2>1. r = Append(w, t)  BY <1>3 DEF Placed
  <2> HIDE DEF w, r
  <2>2. Len(r) = Len(w) + 1 /\ r[Len(w) + 1] = t /\ \A n \in 1 .. Len(w) : r[n] = w[n]
    BY <1>1, <2>1
  <2>3. Len(w) \in Nat  BY <1>1
  <2>4. j # Len(w) + 1  BY <1>1, <1>2, <2>2
  <2>5. i \in 1 .. Len(w) /\ j \in 1 .. Len(w)  BY <1>2, <2>2, <2>3, <2>4
  <2>6. Before(w, x, y)  BY <1>2, <2>2, <2>5 DEF Before
  <2> QED BY <2>6 DEF w
<1>4. CASE Flag[q] = "prio"
  <2>1. r = InsertAt(w, p, t)  BY <1>4 DEF Placed
  <2>2. /\ p \in 1 .. Len(w) + 1
        /\ p <= Len(w) => k.prio[t] < k.prio[w[p]]
    BY PrioPositionIs, <1>1
  <2> HIDE DEF p, w, r
  <2>3. /\ Len(r) = Len(w) + 1 /\ r[p] = t
        /\ \A n \in 1 .. p - 1 : r[n] = w[n]
        /\ \A n \in p + 1 .. Len(w) + 1 : r[n] = w[n - 1]
    <3>1. /\ Len(r) = Len(w) + 1
          /\ \A n \in 1 .. Len(w) + 1 :
               r[n] = IF n < p THEN w[n] ELSE IF n = p THEN t ELSE w[n - 1]
      <4>1. w \in Seq(Thread) /\ p \in 1 .. Len(w) + 1 /\ t \in Thread  BY <1>1, <2>2
      <4>2. /\ Len(InsertAt(w, p, t)) = Len(w) + 1
            /\ \A n \in 1 .. Len(w) + 1 :
                 InsertAt(w, p, t)[n] = IF n < p THEN w[n] ELSE IF n = p THEN t ELSE w[n - 1]
        <5>1. RoomMade(InsertAt(w, p, t), w, p, t)  BY <4>1, InsertAtMakesRoom
        <5> QED BY <5>1 DEF RoomMade
      <4> QED BY <2>1, <4>2
    <3>2. p \in Nat /\ 1 <= p /\ p <= Len(w) + 1 /\ Len(w) \in Nat  BY <1>1, <2>2
    <3> QED BY <3>1, <3>2
  <2>4. Len(w) \in Nat /\ j # p
    <3>1. r[j] # r[p]  BY <1>1, <1>2, <2>3
    <3>2. j # p  BY <3>1
    <3> QED BY <1>1, <3>2
  <2> DEFINE old(n) == IF n < p THEN n ELSE n - 1
  <2>5. \A n \in 1 .. Len(r) : n # p => old(n) \in 1 .. Len(w) /\ r[n] = w[old(n)]
    BY <2>2, <2>3, <2>4
  <2>6. CASE i # p
    <3>1. old(i) < old(j)  BY <1>2, <2>2, <2>3, <2>4, <2>6
    <3>2. old(i) \in 1 .. Len(w) /\ old(j) \in 1 .. Len(w) /\ w[old(i)] = x /\ w[old(j)] = y
      BY <1>2, <2>4, <2>5, <2>6
    <3> HIDE DEF old
    <3>3. Before(w, x, y)  BY <3>1, <3>2 DEF Before
    <3> QED BY <3>3 DEF w
  <2>7. CASE i = p
    <3>1. x = t /\ p + 1 <= j /\ p <= Len(w) /\ p + 1 \in 1 .. Len(r) /\ p \in 1 .. Len(r)
      BY <1>2, <2>2, <2>3, <2>4, <2>7
    <3>2. r[p + 1] = w[p] /\ w[p] \in Thread  BY <1>1, <2>2, <2>3, <2>4, <3>1
    <3>3. Before(r, x, w[p])  BY <1>2, <2>2, <2>7, <3>1, <3>2 DEF Before
    <3>4. w[p] = y \/ Before(r, w[p], y)
      <4>1. CASE j = p + 1  BY <1>2, <3>2, <4>1
      <4>2. CASE j # p + 1
        <5>1. p + 1 < j  BY <2>2, <3>1, <4>2
        <5> QED BY <1>2, <3>1, <3>2, <5>1 DEF Before
      <4> QED BY <4>1, <4>2
    <3>5. k.prio[x] < k.prio[w[p]]  BY <2>2, <3>1
    <3> QED BY <1>4, <3>1, <3>2, <3>3, <3>4, <3>5 DEF r
  <2> QED BY <2>6, <2>7
<1> QED BY <1>1, <1>3, <1>4

(* First come, first served: no waiter is passed by a later one, unless the *)
(* later one gives up, waiters keep their order, and a newcomer stands      *)
(* behind all who are at least as urgent, or behind everybody               *)
(* (rt_ipc_list_suspend and rt_ipc_list_resume, ipc.c).                     *)
THEOREM FirstComeFirstServed == ObjectsSpec => FifoServed
PROOF
<1>1. ASSUME ObjInv, [ObjectsNext]_objectVars, NEW q \in WaitList,
             NEW x \in Thread, NEW y \in Thread,
             Before(kern'.list[Wait(q)], x, y), OnWait(kern, q, y)
      PROVE  \/ Before(kern.list[Wait(q)], x, y)
             \/ /\ Flag[q] = "prio" /\ ~OnWait(kern, q, x)
                /\ \E z \in Thread : /\ Before(kern'.list[Wait(q)], x, z)
                                    /\ (z = y \/ Before(kern'.list[Wait(q)], z, y))
                                    /\ kern'.prio[x] < kern'.prio[z]
  <2>1. CASE Within(kern'.list[Wait(q)], kern.list[Wait(q)])
    BY <1>1, <2>1 DEF Within
  <2>2. CASE Arrived(q)
    <3>1. PICK t \in Thread, k \in KernelState :
            /\ ~OnWait(kern, q, t) /\ k.list[Wait(q)] = kern.list[Wait(q)]
            /\ k.prio = kern'.prio /\ kern'.list[Wait(q)] = Placed(k, q, t, Flag[q])
      BY <2>2 DEF Arrived
    <3>2. ~OnWait(k, q, t) /\ Contains(k.list[Wait(q)], y)
      BY <1>1, <3>1 DEF OnWait
    <3> QED BY <1>1, <3>1, <3>2, NewcomerStands
  <2> QED BY <1>1, <2>1, <2>2, StepSettles DEF Settled
<1>2. ObjInv /\ [ObjectsNext]_objectVars =>
      [\A q \in WaitList :
           LET w == kern.list[Wait(q)]
               r == kern'.list[Wait(q)]
           IN r # w => \A x, y \in Thread :
                /\ q \notin EventSet /\ Before(w, x, y) /\ Contains(r, x) /\ ~Contains(r, y)
                     => kern'.error[y] # "ok"
                /\ Before(r, x, y) /\ Contains(w, y)
                     => \/ Before(w, x, y)
                        \/ /\ Flag[q] = "prio" /\ ~Contains(w, x)
                           /\ \E z \in Thread : /\ Before(r, x, z) /\ (z = y \/ Before(r, z, y))
                                               /\ kern'.prio[x] < kern'.prio[z]]_objectVars
  BY <1>1, NobodyIsPassed DEF OnWait
<1> QED BY <1>2, ObjectsInvariant, PTL DEF ObjectsSpec, FifoServed

-----------------------------------------------------------------------------
(* A semaphore is a counter of permits *)

(* A step of the kernel, seen as a step of the abstract semaphore of s.     *)
PermitStep(s) == [SemPermit(s)!PermitNext]_(SemPermit(s)!permitVars)

(* The permits of thread t: those it has taken, and the one it was handed.  *)
Own(t, s) == held[t][s] + (IF ServedAt(t, s) THEN 1 ELSE 0)

(* What the clients of s have, and who waits, before and after a step.      *)
LEMMA ClientsAre ==
  ASSUME NEW s
  PROVE  /\ Has(s) = [t \in Thread \ {Idle} |-> Own(t, s)]
         /\ Has(s)' = [t \in Thread \ {Idle} |-> Own(t, s)']
         /\ Waiters(s) = {t \in Thread : OnWait(kern, s, t)}
         /\ Waiters(s)' = {t \in Thread : OnWait(kern', s, t)}
BY DEF Has, Own, Served, ServedAt, ServedIn, Asleep, Waiters, OnWait

(* The idle thread waits for nothing, and thread t not while it runs.       *)
LEMMA ClientsWait ==
  ASSUME IpcInv, NEW s \in Semaphore
  PROVE  /\ \A t \in Waiters(s) : t \in Thread \ {Idle}
         /\ \A t : Uses(t, s) => t \in Thread \ {Idle} /\ t \notin Waiters(s) /\ ~ServedAt(t, s)
PROOF
<1>1. s \in WaitList  BY SemIs
<1>2. call[Idle].at = "app"  BY DEF IpcInv, Ipc
<1>3. ASSUME NEW t \in Waiters(s) PROVE t \in Thread \ {Idle}
  <2>1. t \in Thread /\ OnWait(kern, s, t)  BY <1>3, ClientsAre
  <2> QED BY <1>1, <1>2, <2>1, WaitersOf DEF Asleep
<1>4. ASSUME NEW t, Uses(t, s)
      PROVE  t \in Thread \ {Idle} /\ t \notin Waiters(s) /\ ~ServedAt(t, s)
  <2>1. t \in Thread /\ t # Idle /\ call[t].at = "app" /\ Runs(t, "app")  BY <1>4, UsesFacts
  <2>2. ~OnWait(kern, s, t)  BY <1>1, <2>1, RunsFacts
  <2> QED BY <2>1, <2>2, ClientsAre DEF ServedAt, ServedIn, Asleep
<1> QED BY <1>3, <1>4

(* A step that serves nobody on s, puts nobody there and takes nobody off   *)
(* is none of the abstract semaphore.                                       *)
LEMMA QuietPermit ==
  ASSUME NEW s \in Semaphore, Quiet(s), Held(s), value'[s] = value[s],
         \A t \in Thread : held'[t][s] = held[t][s]
  PROVE  PermitStep(s)
PROOF
<1>1. \A t \in Thread : /\ ServedAt(t, s)' <=> ServedAt(t, s)
                        /\ OnWait(kern', s, t) <=> OnWait(kern, s, t)
  BY DEF Quiet, Held, Unmoved, ServedAt
<1>2. Has(s)' = Has(s)  BY <1>1, ClientsAre DEF Own
<1>3. Waiters(s)' = Waiters(s)  BY <1>1, ClientsAre
<1> QED BY <1>2, <1>3 DEF PermitStep, SemPermit!permitVars

(* A step that serves nobody on s, puts nobody there and takes at most one  *)
(* waiter off: a timeout, or the loop of rt_ipc_list_resume_all.            *)
LEMMA OneOffPermit ==
  ASSUME IpcInv, NEW s \in Semaphore, Quiet(s), OneOff, value'[s] = value[s],
         \A t \in Thread : held'[t][s] = held[t][s]
  PROVE  PermitStep(s)
PROOF
<1>1. s \in WaitList  BY SemIs
<1>2. PICK u \in Thread : \A x \in Thread \ {u} : OnWait(kern, s, x) => OnWait(kern', s, x)
  BY <1>1 DEF OneOff
<1>3. CASE OnWait(kern, s, u) /\ ~OnWait(kern', s, u)
  <2>1. \A t \in Thread : /\ ServedAt(t, s)' <=> ServedAt(t, s)
                          /\ OnWait(kern', s, t) <=> OnWait(kern, s, t) /\ t # u
    BY <1>2, <1>3 DEF Quiet, Unmoved, ServedAt
  <2>2. Has(s)' = Has(s)  BY <2>1, ClientsAre DEF Own
  <2>3. Waiters(s)' = Waiters(s) \ {u}  BY <2>1, ClientsAre
  <2>4. u \in Waiters(s) /\ u \in Thread \ {Idle}  BY <1>3, ClientsAre, ClientsWait
  <2>5. SemPermit(s)!GiveUp(u)  BY <2>2, <2>3, <2>4 DEF SemPermit!GiveUp
  <2> QED BY <2>4, <2>5 DEF PermitStep, SemPermit!PermitNext
<1>4. CASE ~(OnWait(kern, s, u) /\ ~OnWait(kern', s, u))
  <2>1. Held(s)  BY <1>2, <1>4 DEF Held
  <2> QED BY <2>1, QuietPermit
<1> QED BY <1>3, <1>4

(* What a step about semaphore p is for the others.                         *)
LEMMA OtherPermit ==
  ASSUME NEW p \in Semaphore, NEW s \in Semaphore \ {p}, QuietOutside({p}), Orderly({p}),
         value'[s] = value[s], \A t \in Thread : held'[t][s] = held[t][s]
  PROVE  PermitStep(s)
PROOF
<1>1. s \in WaitList  BY SemIs
<1>2. Quiet(s) /\ Held(s)  BY <1>1 DEF QuietOutside, Orderly, HeldOutside
<1> QED BY <1>2, QuietPermit

(* rt_sem_take that finds a permit takes it.                                *)
LEMMA TakeNowPermit ==
  ASSUME IpcInv, SemInv, NEW t \in Thread, NEW p \in Semaphore, SemTakeNow(t, p),
         NEW s \in Semaphore
  PROVE  PermitStep(s)
PROOF
<1>1. Moves({}) /\ Orderly({}) /\ Uses(t, p) /\ value[p] > 0
  BY IdleStep, StillPass DEF SemTakeNow, ipcVars
<1>2. Quiet(s) /\ Held(s)  BY <1>1, NobodyMoves, SemIs DEF Orderly, HeldOutside
<1>3. /\ value' = [value EXCEPT ![p] = @ - 1] /\ held' = [held EXCEPT ![t][p] = @ + 1]
      /\ value \in [Semaphore -> 0 .. Modulus - 1] /\ held \in [Thread -> [Semaphore -> Nat]]
  BY DEF SemTakeNow, SemInv
<1>4. CASE s # p
  <2>1. value'[s] = value[s] /\ \A x \in Thread : held'[x][s] = held[x][s]  BY <1>3, <1>4
  <2> QED BY <1>2, <2>1, QuietPermit
<1>5. CASE s = p
  <2>1. /\ value'[s] = value[s] - 1 /\ value[s] > 0
        /\ \A x \in Thread : held'[x][s] = IF x = t THEN held[x][s] + 1 ELSE held[x][s]
    BY <1>1, <1>3, <1>5
  <2>2. \A x \in Thread : /\ ServedAt(x, s)' <=> ServedAt(x, s)
                          /\ OnWait(kern', s, x) <=> OnWait(kern, s, x)
    BY <1>2 DEF Quiet, Held, Unmoved, ServedAt
  <2>3. t \in Thread \ {Idle} /\ t \notin Waiters(s)  BY <1>1, <1>5, ClientsWait
  <2>4. \A x \in Thread : Own(x, s)' = IF x = t THEN Own(x, s) + 1 ELSE Own(x, s)
    BY <1>3, <2>1, <2>2 DEF Own
  <2>5. Has(s)' = [Has(s) EXCEPT ![t] = @ + 1]  BY <2>3, <2>4, ClientsAre
  <2>6. Waiters(s)' = Waiters(s)  BY <2>2, ClientsAre
  <2>7. SemPermit(s)!Take(t)  BY <2>1, <2>3, <2>5, <2>6 DEF SemPermit!Take
  <2> QED BY <2>3, <2>7 DEF PermitStep, SemPermit!PermitNext
<1> QED BY <1>4, <1>5

(* rt_sem_take that goes to sleep waits.                                    *)
LEMMA TakeWaitPermit ==
  ASSUME IpcInv, SemInv, NEW t \in Thread, NEW p \in Semaphore, NEW n \in WaitTime,
         SemTakeWait(t, p, n), NEW s \in Semaphore
  PROVE  PermitStep(s)
PROOF
<1>1. /\ Uses(t, p) /\ n \in Nat /\ WaitOn(kern, t, p, n) /\ p \in WaitList /\ s \in WaitList
      /\ value[p] = 0 /\ value' = value /\ held' = held
  BY SemIs, TimesAreNat DEF SemTakeWait, semVars
<1>2. Moves({<<t, p>>}) /\ ~ServedAt(t, p)' /\ OnWait(kern', p, t)
  BY <1>1, AlikeSelf, WaitsStep DEF Alike
<1>3. Held(s)
  BY <1>1, AlikeSelf, FirstWaitPass DEF Alike, Orderly, HeldOutside
<1>4. \A x \in Thread : x # t \/ s # p =>
        /\ ServedAt(x, s)' <=> ServedAt(x, s)
        /\ OnWait(kern', s, x) => OnWait(kern, s, x)
  BY <1>1, <1>2 DEF Moves, Same, Unmoved, ServedAt
<1>5. CASE s # p
  <2>1. Quiet(s)  BY <1>4, <1>5 DEF Quiet, Unmoved, ServedAt
  <2> QED BY <1>1, <1>3, <2>1, QuietPermit
<1>6. CASE s = p
  <2>1. t \in Thread \ {Idle} /\ t \notin Waiters(s) /\ ~ServedAt(t, s)
    BY <1>1, <1>6, ClientsWait
  <2>2. \A x \in Thread : ServedAt(x, s)' <=> ServedAt(x, s)  BY <1>2, <1>4, <1>6, <2>1
  <2>3. Has(s)' = Has(s)  BY <1>1, <2>2, ClientsAre DEF Own
  <2>4. \A x \in Thread : OnWait(kern', s, x) <=> OnWait(kern, s, x) \/ x = t
    BY <1>2, <1>3, <1>4, <1>6 DEF Held
  <2>5. Waiters(s)' = Waiters(s) \cup {t}  BY <2>4, ClientsAre
  <2>6. SemPermit(s)!WaitFor(t)
    BY <1>1, <1>6, <2>1, <2>3, <2>5 DEF SemPermit!WaitFor
  <2> QED BY <2>1, <2>6 DEF PermitStep, SemPermit!PermitNext
<1> QED BY <1>5, <1>6

(* rt_sem_take returns with the permit it has been handed, or with none:    *)
(* to the clients nothing happens.                                          *)
LEMMA TakeReturnPermit ==
  ASSUME IpcInv, SemInv, NEW t \in Thread, SemTakeReturn(t), NEW s \in Semaphore
  PROVE  PermitStep(s)
PROOF
<1> SUFFICES ASSUME NEW p, p = want[t] PROVE PermitStep(s)  OBVIOUS
<1>1. /\ Woken(t) /\ p \in Semaphore /\ WaitOver(t) /\ kern' = kern /\ value' = value
      /\ held' = IF kern.error[t] = "ok" THEN [held EXCEPT ![t][p] = @ + 1] ELSE held
      /\ held \in [Thread -> [Semaphore -> Nat]]
  BY DEF SemTakeReturn, SemInv
<1>2. Moves({<<t, p>>}) /\ ~ServedAt(t, p)' /\ p \in WaitList /\ s \in WaitList
  BY <1>1, ReturnsStep, SemIs
<1>3. \A x \in Thread : x # t \/ s # p =>
        /\ ServedAt(x, s)' <=> ServedAt(x, s)
        /\ OnWait(kern', s, x) <=> OnWait(kern, s, x)
  BY <1>1, <1>2 DEF Moves, Same, Unmoved, ServedAt
<1>4. CASE s # p
  <2>1. Quiet(s) /\ Held(s)  BY <1>3, <1>4 DEF Quiet, Held, Unmoved, ServedAt
  <2>2. \A x \in Thread : held'[x][s] = held[x][s]  BY <1>1, <1>4
  <2> QED BY <1>1, <2>1, <2>2, QuietPermit
<1>5. CASE s = p
  <2>1. ServedAt(t, s) <=> kern.error[t] = "ok"
    <3>1. Runs(t, "woken")  BY <1>1 DEF Woken
    <3>2. call[t].at = "woken" /\ ~OnWait(kern, s, t)  BY <1>2, <3>1, RunsFacts
    <3> QED BY <1>5, <3>2 DEF ServedAt, ServedIn, Asleep
  <2>2. \A x \in Thread : held'[x][s] =
          IF x = t /\ kern.error[t] = "ok" THEN held[x][s] + 1 ELSE held[x][s]
    BY <1>1, <1>5
  <2>3. \A x \in Thread : Own(x, s)' = Own(x, s)
    BY <1>1, <1>2, <1>3, <1>5, <2>1, <2>2 DEF Own
  <2>4. Has(s)' = Has(s)  BY <2>3, ClientsAre
  <2>5. Waiters(s)' = Waiters(s)  BY <1>1 DEF Waiters
  <2> QED BY <1>1, <2>4, <2>5 DEF PermitStep, SemPermit!permitVars
<1> QED BY <1>4, <1>5

(* A call that hands list q over takes nobody but its first waiter off.     *)
LEMMA HandsOne ==
  ASSUME IpcInv, NEW q \in WaitList, kern' = Woke(kern, q)
  PROVE  \A x \in Thread \ First(q) : OnWait(kern, q, x) => OnWait(kern', q, x)
PROOF
<1>1. HandsOver(q, kern')  BY AlikeSelf, HandOver
<1> QED BY <1>1 DEF HandsOver, Wakes

(* Nor does an interrupt handler.                                           *)
LEMMA HandlerOne ==
  ASSUME IpcInv, NEW o, NEW q \in WaitList, InHandler(o, q)
  PROVE  \A x \in Thread \ First(q) : OnWait(kern, q, x) => OnWait(kern', q, x)
PROOF
<1> DEFINE r == Woke(kern, q)
<1>1. HandsOver(q, r)  BY AlikeSelf, HandOver
<1>2. Wakes(First(q), kern, r) /\ KInv(r)  BY <1>1 DEF HandsOver, Wakes
<1>3. kern' = IF Waiting(kern, q) THEN Schedule(r) ELSE kern  BY DEF InHandler, Woke
<1> HIDE DEF r
<1>4. CASE Waiting(kern, q)
  <2>1. Wakes({}, r, kern')  BY <1>2, <1>3, <1>4, ScheduleWakes
  <2> QED BY <1>2, <2>1 DEF Wakes
<1> QED BY <1>3, <1>4

(* What the clients have once the caller has given its permit, and before   *)
(* it arrives.                                                              *)
Given(s) == [t \in Thread \ {Idle} |-> held'[t][s] + (IF ServedAt(t, s) THEN 1 ELSE 0)]

(* A function that differs from f in one place only.                        *)
LEMMA ChangedAt ==
  ASSUME NEW T, NEW w \in T, NEW f, NEW g, NEW n, f = [x \in T |-> f[x]],
         g = [x \in T |-> g[x]], g[w] = n, \A x \in T \ {w} : g[x] = f[x]
  PROVE  g = [f EXCEPT ![w] = n]
OBVIOUS

(* A release hands the permit to the first waiter, whose it is at once, or  *)
(* counts it.                                                               *)
LEMMA PermitArrives ==
  ASSUME IpcInv, IpcInv', SemInv, SemInv', NEW s \in Semaphore, HandedOver(s),
         Moves(Handed(s)),
         \A x \in Thread \ First(s) : OnWait(kern, s, x) => OnWait(kern', s, x),
         value' = SemCounted(s), value[s] + 1 < Modulus
  PROVE  SemPermit(s)!Arrive(Given(s))
PROOF
<1>1. s \in WaitList  BY SemIs
<1>2. \A x \in Thread : \/ x \in First(s)
                        \/ /\ ServedAt(x, s)' <=> ServedAt(x, s)
                           /\ OnWait(kern', s, x) <=> OnWait(kern, s, x)
  <2>1. \A x \in Thread : x \notin First(s) => <<x, s>> \notin Handed(s)  BY HandedOnly
  <2> QED BY <1>1, <2>1 DEF Moves, Same, Unmoved, ServedAt
<1>3. \A x \in First(s) : /\ x \in Thread /\ OnWait(kern, s, x) /\ ~OnWait(kern', s, x)
                          /\ ServedAt(x, s)' /\ ~ServedAt(x, s)
  BY DEF HandedOver, ServedAt, ServedIn
<1>4. CASE Waiting(kern, s)
  <2>1. PICK w : First(s) = {w}  BY <1>4 DEF First
  <2>2. w \in Waiters(s) /\ w \in Thread \ {Idle}
    BY <1>3, <2>1, ClientsAre, ClientsWait
  <2>3. Waiters(s)' = Waiters(s) \ {w}  BY <1>2, <1>3, <2>1, ClientsAre
  <2>4. value'[s] = value[s]  BY <1>4 DEF SemCounted
  <2>5. /\ Given(s) = [x \in Thread \ {Idle} |-> Given(s)[x]]
        /\ Has(s)' = [x \in Thread \ {Idle} |-> Has(s)'[x]]
        /\ \A x \in Thread \ {Idle, w} : Has(s)'[x] = Given(s)[x]
    BY <1>2, <2>1, ClientsAre DEF Own, Given
  <2>6. Has(s)'[w] = Given(s)[w] + 1
    <3>1. held'[w][s] \in Nat  BY <2>2 DEF SemInv
    <3>2. Given(s)[w] = held'[w][s] + 0  BY <1>3, <2>1, <2>2 DEF Given
    <3>3. Has(s)'[w] = held'[w][s] + 1  BY <1>3, <2>1, <2>2, ClientsAre DEF Own
    <3> QED BY <3>1, <3>2, <3>3
  <2>7. Has(s)' = [Given(s) EXCEPT ![w] = Given(s)[w] + 1]
    <3> DEFINE f == Given(s)
               g == Has(s)'
               n == f[w] + 1
    <3>1. /\ f = [x \in Thread \ {Idle} |-> f[x]] /\ g = [x \in Thread \ {Idle} |-> g[x]]
          /\ g[w] = n /\ \A x \in (Thread \ {Idle}) \ {w} : g[x] = f[x]
      BY <2>5, <2>6
    <3> HIDE DEF f, g, n
    <3>2. g = [f EXCEPT ![w] = n]  BY <2>2, <3>1, ChangedAt
    <3> QED BY <3>2 DEF f, g, n
  <2> QED BY <2>2, <2>3, <2>4, <2>7 DEF SemPermit!Arrive
<1>5. CASE ~Waiting(kern, s)
  <2>1. First(s) = {}  BY <1>5 DEF First
  <2>2. Waiters(s) = {}  BY <1>1, <1>5, WaitingIs, ClientsAre
  <2>3. Waiters(s)' = Waiters(s)  BY <1>2, <2>1, ClientsAre
  <2>4. Has(s)' = Given(s)  BY <1>2, <2>1, ClientsAre DEF Own, Given
  <2>5. value[s] \in Nat  BY Counted
  <2>6. value'[s] = value[s] + 1
    <3> DEFINE n == value[s]
               v == n + 1
    <3>1. n \in Nat /\ n + 1 < Modulus /\ v = IF Waiting(kern, s) THEN n ELSE n + 1
      BY <1>5, <2>5
    <3> HIDE DEF v
    <3>2. v \in 0 .. Modulus - 1 /\ value' = [value EXCEPT ![s] = v]  BY <3>1, CountedUp
    <3> QED BY <3>2 DEF v, SemInv
  <2> QED BY <2>2, <2>3, <2>4, <2>6 DEF SemPermit!Arrive
<1> QED BY <1>4, <1>5

(* rt_sem_release by a thread: it gives a permit, or adds one.              *)
LEMMA ReleasePermit ==
  ASSUME MaxSupply < Modulus, IpcInv, SemInv, NEW t \in Thread, NEW p \in Semaphore,
         SemRelease(t, p), NEW s \in Semaphore
  PROVE  PermitStep(s)
PROOF
<1>1. IpcInv' /\ SemInv' /\ Moves(Handed(p)) /\ HandedOver(p)  BY SemReleaseStep, ReleaseStep
<1>2. /\ Uses(t, p) /\ value' = SemCounted(p) /\ kern' = Woke(kern, p)
      /\ p \in WaitList /\ p \in alive /\ held \in [Thread -> [Semaphore -> Nat]]
  BY SemIs DEF SemRelease, ThenSchedule, Uses, SemInv
<1>3. CASE s # p
  <2>1. QuietOutside({p})  BY <1>1, HandedCounts
  <2>2. Orderly({p})  BY <1>2, AlikeSelf, HandsPass
  <2>3. value'[s] = value[s]  BY <1>2, <1>3 DEF SemCounted
  <2>4. \A x \in Thread : held'[x][s] = held[x][s]  BY <1>2, <1>3 DEF SemRelease
  <2> QED BY <1>3, <2>1, <2>2, <2>3, <2>4, OtherPermit
<1>4. CASE s = p
  <2>1. \A x \in Thread \ First(s) : OnWait(kern, s, x) => OnWait(kern', s, x)
    BY <1>2, <1>4, HandsOne
  <2>2. t \in Thread \ {Idle} /\ t \notin Waiters(s) /\ ~ServedAt(t, s)
    BY <1>2, <1>4, ClientsWait
  <2> DEFINE a == value[s]
             b == supply[s]
             m == Many(s)
             h == InHolders(s)
             c == held[t][s]
  <2>3. /\ a \in Nat /\ b \in Nat /\ m \in Nat /\ h \in Nat /\ c \in Nat /\ c <= h
        /\ a + m + h = b /\ b \in 0 .. Modulus - 1
    BY <1>2, <1>4, Counted
  <2>4. Modulus \in Nat /\ MaxSupply \in Nat  BY SemIs
  <2>5. CASE c > 0 /\ held' = [held EXCEPT ![t][s] = @ - 1]
    <3>1. a + 1 < Modulus
      <4> HIDE DEF a, b, m, h, c
      <4> QED BY <2>3, <2>4, <2>5
    <3>2. SemPermit(s)!Arrive(Given(s))  BY <1>1, <1>2, <1>4, <2>1, <3>1, PermitArrives
    <3>3. \A x \in Thread : held'[x][s] = IF x = t THEN held[x][s] - 1 ELSE held[x][s]
      BY <1>2, <2>5
    <3>4. Has(s)[t] > 0 /\ Given(s)[t] = Has(s)[t] - 1
      <4>1. Has(s)[t] = held[t][s] + 0  BY <2>2, ClientsAre DEF Own
      <4>2. Given(s)[t] = held[t][s] - 1 + 0  BY <2>2, <3>3 DEF Given
      <4> QED BY <2>3, <2>5, <4>1, <4>2
    <3>5. Given(s) = [Has(s) EXCEPT ![t] = Has(s)[t] - 1]
      <4> DEFINE f == Has(s)
                 g == Given(s)
                 n == f[t] - 1
      <4>1. f = [x \in Thread \ {Idle} |-> f[x]]  BY ClientsAre
      <4>2. g = [x \in Thread \ {Idle} |-> g[x]]  BY DEF Given
      <4>3. ASSUME NEW x \in (Thread \ {Idle}) \ {t} PROVE g[x] = f[x]
        <5>1. held'[x][s] = held[x][s]  BY <3>3, <4>3
        <5>2. f[x] = Own(x, s)  BY <4>3, ClientsAre
        <5> QED BY <4>3, <5>1, <5>2 DEF Own, Given
      <4>4. g[t] = n  BY <3>4
      <4> HIDE DEF f, g, n
      <4>5. g = [f EXCEPT ![t] = n]  BY <2>2, <4>1, <4>2, <4>3, <4>4, ChangedAt
      <4> QED BY <4>5 DEF f, g, n
    <3>6. SemPermit(s)!Give(t)  BY <2>2, <3>2, <3>4, <3>5 DEF SemPermit!Give
    <3> QED BY <2>2, <3>6 DEF PermitStep, SemPermit!PermitNext
  <2>6. CASE b < MaxSupply /\ held' = held
    <3>1. a + 1 < Modulus
      <4> HIDE DEF a, b, m, h, c
      <4> QED BY <2>3, <2>4, <2>6
    <3>2. SemPermit(s)!Arrive(Given(s))  BY <1>1, <1>2, <1>4, <2>1, <3>1, PermitArrives
    <3>3. Given(s) = Has(s)  BY <2>6, ClientsAre DEF Own, Given
    <3>4. SemPermit(s)!Add  BY <3>2, <3>3 DEF SemPermit!Add
    <3> QED BY <3>4 DEF PermitStep, SemPermit!PermitNext
  <2> QED BY <1>4, <2>5, <2>6 DEF SemRelease
<1> QED BY <1>3, <1>4

(* rt_sem_release from an interrupt handler adds one.                       *)
LEMMA SignalPermit ==
  ASSUME MaxSupply < Modulus, IpcInv, SemInv, NEW p \in Semaphore, SemSignal(p),
         NEW s \in Semaphore
  PROVE  PermitStep(s)
PROOF
<1>1. InHandler(p, p) /\ p \in WaitList  BY SemIs DEF SemSignal
<1>2. IpcInv' /\ SemInv' /\ Moves(Handed(p)) /\ HandedOver(p)
  BY <1>1, HandlerStep, SignalStep
<1>3. /\ value' = SemCounted(p) /\ held' = held /\ p \in alive /\ supply[p] < MaxSupply
  BY DEF SemSignal, InHandler
<1>4. CASE s # p
  <2>1. QuietOutside({p})  BY <1>2, HandedCounts
  <2>2. Orderly({p})  BY <1>1, HandlerPass
  <2>3. value'[s] = value[s]  BY <1>3, <1>4 DEF SemCounted
  <2> QED BY <1>3, <1>4, <2>1, <2>2, <2>3, OtherPermit
<1>5. CASE s = p
  <2>1. \A x \in Thread \ First(s) : OnWait(kern, s, x) => OnWait(kern', s, x)
    BY <1>1, <1>5, HandlerOne
  <2> DEFINE a == value[s]
             b == supply[s]
             m == Many(s)
             h == InHolders(s)
  <2>2. /\ a \in Nat /\ b \in Nat /\ m \in Nat /\ h \in Nat /\ a + m + h = b
    BY <1>3, <1>5, Counted
  <2>3. Modulus \in Nat /\ MaxSupply \in Nat /\ b < MaxSupply  BY <1>3, <1>5, SemIs
  <2>4. a + 1 < Modulus
    <3> HIDE DEF a, b, m, h
    <3> QED BY <2>2, <2>3
  <2>5. SemPermit(s)!Arrive(Given(s))  BY <1>2, <1>3, <1>5, <2>1, <2>4, PermitArrives
  <2>6. Given(s) = Has(s)  BY <1>3, ClientsAre DEF Own, Given
  <2>7. SemPermit(s)!Add  BY <2>5, <2>6 DEF SemPermit!Add
  <2> QED BY <2>7 DEF PermitStep, SemPermit!PermitNext
<1> QED BY <1>4, <1>5

(* rt_sem_control(RESET) restarts the semaphore.                            *)
LEMMA ResetPermit ==
  ASSUME IpcInv, SemInv, NEW t \in Thread, NEW p \in Semaphore, NEW v \in 0 .. Value0[p],
         SemReset(t, p, v), NEW s \in Semaphore
  PROVE  PermitStep(s)
PROOF
<1>1. IpcInv' /\ Moves({}) /\ ~Waiting(kern', p)  BY ResetOneStep DEF SemReset
<1>2. /\ kern' = ResumeAll(kern, p) /\ p \in WaitList /\ s \in WaitList /\ held' = held
      /\ value' = [value EXCEPT ![p] = v] /\ value \in [Semaphore -> 0 .. Modulus - 1]
  BY SemIs DEF SemReset, ThenSchedule, SemInv
<1>3. Quiet(s) /\ QuietOutside({p})  BY <1>1, <1>2, NobodyMoves DEF QuietOutside
<1>4. CASE s # p
  <2>1. Orderly({p})  BY <1>2, ResetPass
  <2> QED BY <1>2, <1>3, <1>4, <2>1, OtherPermit
<1>5. CASE s = p
  <2>1. value'[s] = v /\ v \in Nat
    <3>1. Value0[p] \in 0 .. Modulus - 1 /\ Modulus \in Nat \ {0}  BY SemAssumption
    <3> QED BY <1>2, <1>5, <3>1
  <2>2. Waiters(s)' = {}
    <3>1. KInv(kern')  BY <1>1 DEF IpcInv, Ipc
    <3>2. \A x \in Thread : ~OnWait(kern', s, x)  BY <1>1, <1>2, <1>5, <3>1, FirstWaiter
    <3> QED BY <3>2, ClientsAre
  <2>3. Has(s)' = Has(s)
    <3>1. \A x \in Thread : ServedAt(x, s)' <=> ServedAt(x, s)
      BY <1>3 DEF Quiet, Unmoved, ServedAt
    <3> QED BY <1>2, <3>1, ClientsAre DEF Own
  <2>4. SemPermit(s)!Restart  BY <2>1, <2>2, <2>3 DEF SemPermit!Restart
  <2> QED BY <2>4 DEF PermitStep, SemPermit!PermitNext
<1> QED BY <1>4, <1>5

(* Every step of the kernel is one of the abstract semaphore.               *)
LEMMA StepPermits ==
  ASSUME MaxSupply < Modulus, ObjInv, SemInv, [ObjectsNext]_objectVars, NEW s \in Semaphore
  PROVE  PermitStep(s)
PROOF
<1>1. IpcInv /\ s \in WaitList  BY SemIs DEF ObjInv
<1>2. CASE SemStep
  <2>1. ASSUME NEW t \in Thread, NEW p \in Semaphore, DeleteBegin(t, p), UNCHANGED semVars
        PROVE  PermitStep(s)
    <3>1. Moves({}) /\ kern' = kern  BY <1>1, <2>1, DeleteBeginStep DEF DeleteBegin
    <3>2. Quiet(s) /\ Held(s)  BY <1>1, <3>1, NobodyMoves DEF Held
    <3> QED BY <2>1, <3>2, QuietPermit DEF semVars
  <2> QED
    BY <1>1, <1>2, <2>1, TakeNowPermit, TakeWaitPermit, TakeReturnPermit, ReleasePermit,
       SignalPermit, ResetPermit
       DEF SemStep, SemCall, SemHandler
<1>3. CASE MutexStep
  <2>1. QuietOutside(Mutex) /\ Orderly(Mutex) /\ UNCHANGED semVars
    BY <1>1, <1>3, MutexStepMoves, MutexPasses DEF ObjInv, MutexStep
  <2>2. Quiet(s) /\ Held(s)
    BY <1>1, <2>1, KindsApart DEF QuietOutside, Orderly, HeldOutside
  <2> QED BY <2>1, <2>2, QuietPermit DEF semVars
<1>4. CASE MailStep
  <2>1. QuietOutside(MailList) /\ (HeldOutside(MailList) \/ OneOff) /\ UNCHANGED semVars
    BY <1>1, <1>4, MailStepMoves, MailPasses DEF ObjInv, MailStep
  <2>2. Quiet(s) /\ (Held(s) \/ OneOff)
    BY <1>1, <2>1, KindsApart DEF QuietOutside, HeldOutside
  <2> QED BY <1>1, <2>1, <2>2, QuietPermit, OneOffPermit DEF semVars
<1>5. CASE EventStep
  <2>1. QuietOutside(EventSet) /\ UNCHANGED semVars
    BY <1>1, <1>5, EventStepMoves DEF ObjInv, QuietEvents, EventStep
  <2>2. Quiet(s)  BY <1>1, <2>1, KindsApart DEF QuietOutside
  <2>3. CASE Orderly(EventSet)
    BY <1>1, <2>1, <2>2, <2>3, KindsApart, QuietPermit DEF Orderly, HeldOutside, semVars
  <2>4. ASSUME NEW e \in EventSet, NEW a \in SUBSET Event, EventsArrive(e, a) PROVE PermitStep(s)
    <3>1. PICK R \in SUBSET {x \in Thread : OnWait(kern, e, x)} : Wakes(R, kern, kern')
      BY <1>1, <2>4, ArrivalIs DEF ObjInv
    <3>2. s # e  BY <2>4, KindsApart
    <3>3. Held(s)  BY <1>1, <2>4, <3>1, <3>2, OthersStay DEF Held
    <3> QED BY <2>1, <2>2, <3>3, QuietPermit DEF semVars
  <2> QED BY <1>1, <1>5, <2>3, <2>4, EventPasses
<1>6. CASE ThreadsStep
  <2>1. Moves({}) /\ OneOff /\ UNCHANGED semVars
    BY <1>1, <1>6, ThreadsStepMoves, ThreadsPass DEF ObjInv, ThreadsStep
  <2>2. Quiet(s)  BY <1>1, <2>1, NobodyMoves
  <2> QED BY <1>1, <2>1, <2>2, OneOffPermit DEF semVars
<1>7. CASE UNCHANGED objectVars
  <2>1. UNCHANGED ipcVars /\ UNCHANGED semVars  BY <1>7 DEF objectVars, ipcVars, waitVars
  <2>2. Moves({}) /\ kern' = kern  BY <1>1, <2>1, IdleStep DEF ipcVars
  <2>3. Quiet(s) /\ Held(s)  BY <1>1, <2>2, NobodyMoves DEF Held
  <2> QED BY <2>1, <2>3, QuietPermit DEF semVars
<1> QED BY <1>2, <1>3, <1>4, <1>5, <1>6, <1>7 DEF ObjectsNext

(* rt_sem_take and rt_sem_release, with the interrupts, timeouts, resets    *)
(* and deletions of the kernel between them, implement a counter of permits *)
(* whose clients wait only while none is free: as long as fewer permits are *)
(* ever given than the 16-bit value can count.                              *)
THEOREM SemaphoreIsPermit ==
  ASSUME MaxSupply < Modulus
  PROVE  ObjectsSpec => ImplementsPermit
PROOF
<1>1. ASSUME ObjectsInit, NEW s \in Semaphore PROVE SemPermit(s)!PermitInit
  <2>1. \A x \in Thread : call[x].at = "app" /\ ~OnWait(kern, s, x)
    BY <1>1, NobodyMoving, SemIs DEF ObjectsInit
  <2>2. value = Value0 /\ held = [t \in Thread |-> [q \in Semaphore |-> 0]]
    BY <1>1 DEF ObjectsInit, SemInit
  <2>3. Value0[s] \in 0 .. Modulus - 1 /\ Modulus \in Nat \ {0}  BY SemAssumption
  <2>4. value[s] \in Nat  BY <2>2, <2>3
  <2>5. \A x \in Thread : ~ServedAt(x, s)  BY <2>1 DEF ServedAt, ServedIn, Asleep
  <2>6. Has(s) = [t \in Thread \ {Idle} |-> 0]
    <3>1. \A x \in Thread : Own(x, s) = 0  BY <2>2, <2>5 DEF Own
    <3> QED BY <3>1, ClientsAre
  <2>7. Waiters(s) = {}  BY <2>1, ClientsAre
  <2> QED BY <2>4, <2>6, <2>7 DEF SemPermit!PermitInit
<1>2. ASSUME ObjInv, SemInv, [ObjectsNext]_objectVars
      PROVE  [\A s \in Semaphore : [SemPermit(s)!PermitNext]_(SemPermit(s)!permitVars)]_allSemVars
  BY <1>2, StepPermits DEF PermitStep
<1>3. ObjectsInit => \A s \in Semaphore : SemPermit(s)!PermitInit  BY <1>1
<1>4. ObjInv /\ SemInv /\ [ObjectsNext]_objectVars
      => [\A s \in Semaphore : [SemPermit(s)!PermitNext]_(SemPermit(s)!permitVars)]_allSemVars
  BY <1>2
<1> QED BY <1>3, <1>4, ObjectsInvariant, SemInvariant, PTL DEF ObjectsSpec, ImplementsPermit

=============================================================================
