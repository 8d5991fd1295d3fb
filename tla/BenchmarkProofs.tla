-------------------------- MODULE BenchmarkProofs --------------------------
(***************************************************************************)
(* Proofs about Benchmark for any numbers of inferences, warm-up rounds    *)
(* and requests, and any order in which the device completes them.         *)
(***************************************************************************)
EXTENDS Benchmark, OrderLemmas

\* A multiple of n that lies between -n and n is 0.
LEMMA SmallMultiple ==
    ASSUME NEW d \in Int, NEW n \in Nat \ {0}, n * d < n, n * d > -n
    PROVE  d = 0
<1>1. ASSUME d >= 1
      PROVE  FALSE
  <2>1. n * d >= n
    BY <1>1, Z3
  <2>2. QED
    BY <2>1
<1>2. ASSUME d <= -1
      PROVE  FALSE
  <2>1. n * d <= -n
    BY <1>2, Z3
  <2>2. QED
    BY <2>1
<1>3. QED
  BY <1>1, <1>2

\* A division with remainder has one remainder.
LEMMA OneRemainder ==
    ASSUME NEW n \in Nat \ {0}, NEW p \in Int, NEW q \in Int,
           NEW s \in 0..(n - 1), NEW t \in 0..(n - 1), n * p + s = n * q + t
    PROVE  s = t
<1>1. n * (p - q) = t - s
  BY Z3
<1>2. p - q = 0
  BY <1>1, SmallMultiple
<1>3. QED
  BY <1>1, <1>2, Z3

LEMMA DivMod ==
    ASSUME NEW a \in Nat, NEW n \in Nat \ {0}
    PROVE  /\ a \div n \in Int
           /\ a % n \in 0..(n - 1)
           /\ a = n * (a \div n) + (a % n)
  BY Z3

LEMMA ModRange ==
    ASSUME NEW a \in Nat, NEW n \in Nat \ {0}
    PROVE  a % n \in 0..(n - 1)
  BY DivMod

LEMMA ModSmall ==
    ASSUME NEW n \in Nat \ {0}, NEW a \in 0..(n - 1)
    PROVE  a % n = a
  BY Z3

\* The ring comes round to the same request after as many steps as there are.
LEMMA ModRound ==
    ASSUME NEW a \in Nat, NEW n \in Nat \ {0}
    PROVE  (a + n) % n = a % n
<1> DEFINE p == (a + n) \div n
           q == a \div n
           s == (a + n) % n
           t == a % n
<1>1. p \in Int /\ s \in 0..(n - 1) /\ a + n = n * p + s
  BY DivMod
<1>2. q \in Int /\ t \in 0..(n - 1) /\ a = n * q + t
  BY DivMod
<1> HIDE DEF p, q, s, t
<1>3. n * (q + 1) = n * q + n
  BY <1>2, Z3
<1>4. n * p + s = n * (q + 1) + t
  BY <1>1, <1>2, <1>3
<1>5. q + 1 \in Int
  BY <1>2
<1>6. s = t
  BY <1>1, <1>2, <1>4, <1>5, OneRemainder
<1>7. QED
  BY <1>6 DEF s, t
-----------------------------------------------------------------------------
\* How many members of its domain a function maps to a value.
HowMany(f, v) == Cardinality({x \in DOMAIN f : f[x] = v})

LEMMA CountChange ==
    ASSUME NEW f, IsFiniteSet(DOMAIN f), NEW r \in DOMAIN f, NEW a, NEW b,
           f[r] = a, a # b, NEW g, DOMAIN g = DOMAIN f, g[r] = b,
           \A x \in DOMAIN f : x # r => g[x] = f[x]
    PROVE  /\ HowMany(g, b) = HowMany(f, b) + 1
           /\ HowMany(g, a) = HowMany(f, a) - 1
           /\ \A c : c # b /\ c # a => HowMany(g, c) = HowMany(f, c)
<1> DEFINE At(h, v) == {x \in DOMAIN f : h[x] = v}
<1>1. \A v : HowMany(f, v) = Cardinality(At(f, v)) /\ HowMany(g, v) = Cardinality(At(g, v))
  BY DEF HowMany
<1>2. At(g, b) = At(f, b) \cup {r} /\ r \notin At(f, b)
  OBVIOUS
<1>3. At(g, a) = At(f, a) \ {r} /\ r \in At(f, a)
  OBVIOUS
<1>4. \A c : c # b /\ c # a => At(g, c) = At(f, c)
  OBVIOUS
<1>5. \A v : At(f, v) \subseteq DOMAIN f
  OBVIOUS
<1> HIDE DEF At
<1>6. IsFiniteSet(At(f, b)) /\ IsFiniteSet(At(f, a))
  BY <1>5, FS_Subset
<1>7. Cardinality(At(g, b)) = Cardinality(At(f, b)) + 1
  BY <1>2, <1>6, FS_AddElement
<1>8. Cardinality(At(g, a)) = Cardinality(At(f, a)) - 1
  BY <1>3, <1>6, FS_RemoveElement
<1>9. QED
  BY <1>1, <1>4, <1>7, <1>8

LEMMA Clamps ==
    ASSUME cl \in CommandLines
    PROVE  /\ nireq \in Nat \ {0} /\ niter \in Nat \ {0} /\ nwarmup \in Nat
           /\ IsFiniteSet(Requests)
<1>1. cl.nireq \in Int /\ cl.niter \in Int /\ cl.nwarmup \in Int
  BY CommandLinesAssumption DEF CommandLine
<1>2. nireq \in Nat \ {0} /\ niter \in Nat \ {0} /\ nwarmup \in Nat
  BY <1>1 DEF nireq, niter, nwarmup, AtLeast
<1>3. QED
  BY <1>2, FS_Interval DEF Requests
-----------------------------------------------------------------------------
Setup == {"args", "load", "create", "warmup"}
SyncPart == {"sync", "infer", "inferred"}
AsyncPart == {"prime", "loop", "wait", "collected", "restart"}

BmTypeOK ==
    /\ cl \in CommandLines
    /\ pc \in Setup \cup SyncPart \cup AsyncPart \cup {"statistics", "end"}
    /\ exit \in {"none", "ok", "error", "abort"}
    /\ count \in Nat
    /\ status \in [Requests -> {"none", "idle", "running", "ready"}]
    /\ slot \in Requests
    /\ launched \in Nat /\ done \in Nat /\ now \in Nat
    /\ start_times \in [Requests -> Nat]
    /\ number \in [Requests -> Nat]
    /\ begun \in [Inferences -> Nat]
    /\ finished \in [Inferences -> Nat]
    /\ pc # "end" => latencies \in Seq(Int)
    /\ busy \in BOOLEAN

\* The request that the k-th inference is given to.
Ring(k) == IF Async THEN (k - 1) % nireq ELSE 0

Busy(r) == status[r] \in {"running", "ready"}

\* An inference is collected when wait() returns, and counted later.
Collected == IF pc \in {"collected", "inferred"} THEN done + 1 ELSE done

\* Where the loops are.
PhaseInv ==
    /\ pc \in Setup => launched = 0 /\ done = 0 /\ slot = 0 /\ \A r \in Requests : ~Busy(r)
    /\ pc \in {"args", "load"} => count = 0
    /\ pc = "create" => count <= nireq /\ \A r \in Requests : r < count => status[r] = "idle"
    /\ pc = "warmup" => \A r \in Requests : status[r] = "idle"
    /\ pc \in SyncPart => ~Async /\ slot = 0 /\ done <= niter
    /\ pc = "sync" => launched = done
    /\ pc \in {"infer", "inferred"} => launched = done + 1 /\ launched <= niter
    /\ pc \in AsyncPart => Async
    /\ pc = "prime" => done = 0 /\ launched <= nireq /\ launched <= niter
    /\ pc \in {"loop", "wait", "collected"} =>
            done <= niter /\ launched = Smaller(done + nireq, niter)
    /\ pc \in {"wait", "collected"} => done < niter /\ slot = done % nireq
    /\ pc = "restart" => /\ done \in 1..niter /\ slot = (done - 1) % nireq
                         /\ launched = Smaller(done - 1 + nireq, niter)
    /\ pc = "statistics" => done = niter /\ launched = done
    /\ pc \notin Setup => \A r \in Requests : status[r] # "none"
    /\ pc \in {"collected", "inferred"} => start_times[slot] = begun[done + 1]
    /\ pc \in {"collected", "inferred", "restart"} => ~Busy(slot)

\* The inferences that are under way, and who has them.
RingInv ==
    /\ \A k \in (Collected + 1)..launched :
         Busy(Ring(k)) /\ number[Ring(k)] = k /\ start_times[Ring(k)] = begun[k]
    /\ \A r \in Requests : Busy(r) => /\ number[r] \in (Collected + 1)..launched
                                      /\ Ring(number[r]) = r

\* The clock counts the inferences that have completed.
ClockInv ==
    /\ now + HowMany(status, "running") = launched
    /\ now = Collected + HowMany(status, "ready")

\* What has been measured.
TimeInv ==
    /\ \A k \in Inferences : finished[k] <= now
    /\ \A k \in 1..launched : begun[k] >= k - nireq
    /\ Len(latencies) = done
    /\ \A k \in 1..done :
         latencies[k] >= finished[k] - begun[k] /\ latencies[k] <= 2 * nireq - 1

BmInv ==
    /\ BmTypeOK
    /\ NeverBusy
    /\ pc # "end" => PhaseInv /\ RingInv /\ ClockInv /\ TimeInv
-----------------------------------------------------------------------------
USE DEF Setup, SyncPart, AsyncPart

\* A step of main alone: the requests, what was measured and the clock stay.
LEMMA QuietStep ==
    ASSUME BmTypeOK, RingInv, ClockInv, TimeInv,
           UNCHANGED <<cl, status, ring, device>>, Collected' = Collected
    PROVE  RingInv' /\ ClockInv' /\ TimeInv'
<1>1. UNCHANGED <<launched, done, start_times, latencies, number, begun, now, finished>>
  BY DEF ring, device
<1>2. UNCHANGED <<nireq, niter, Async, Requests, Inferences>>
  BY DEF nireq, niter, Async, Requests, Inferences, AtLeast
<1>3. RingInv'
  BY <1>1, <1>2 DEF RingInv, Ring, Busy
<1>4. ClockInv'
  BY <1>1, <1>2 DEF ClockInv
<1>5. TimeInv'
  BY <1>1, <1>2 DEF TimeInv
<1>6. QED
  BY <1>3, <1>4, <1>5

\* Nothing is asked of a state in which the program has ended.
LEMMA EndStep ==
    ASSUME BmInv, pc' = "end", exit' \in {"ok", "error", "abort"}, busy' = busy,
           UNCHANGED <<setup, status, slot, launched, done, start_times, number, begun, device>>
    PROVE  BmInv'
<1>1. UNCHANGED <<Requests, Inferences>>
  BY DEF nireq, niter, Requests, Inferences, AtLeast, setup
<1>2. QED
  BY <1>1 DEF BmInv, BmTypeOK, NeverBusy, setup, device

\* How many requests there are in a state, and what is under way.
LEMMA Counts ==
    ASSUME BmTypeOK
    PROVE  /\ IsFiniteSet(DOMAIN status)
           /\ \A v : HowMany(status, v) \in Nat
           /\ ClockInv => done <= now /\ now <= launched
<1>1. IsFiniteSet(DOMAIN status)
  BY Clamps DEF BmTypeOK
<1>2. ASSUME NEW v
      PROVE  HowMany(status, v) \in Nat
  <2> DEFINE S == {x \in DOMAIN status : status[x] = v}
  <2>1. S \subseteq DOMAIN status
    OBVIOUS
  <2>2. HowMany(status, v) = Cardinality(S)
    BY DEF HowMany
  <2> HIDE DEF S
  <2>3. QED
    BY <1>1, <2>1, <2>2, FS_Subset, FS_CardinalityType
<1>3. Collected \in Nat /\ Collected >= done
  BY DEF Collected, BmTypeOK
<1>4. QED
  BY <1>1, <1>2, <1>3 DEF ClockInv, BmTypeOK

\* What start_async does to the ring.
LEMMA BeginStep ==
    ASSUME BmTypeOK, RingInv, ClockInv, TimeInv, NEW r \in Requests, Begin(r),
           r = Ring(launched + 1), launched < niter, launched - done < nireq,
           Collected = done, Collected' = done
    PROVE  /\ RingInv' /\ ClockInv' /\ TimeInv'
           /\ launched' = launched + 1
           /\ \A q \in Requests : q # r => status'[q] = status[q]
           /\ status'[r] = "running" /\ start_times'[r] = begun'[launched']
           /\ UNCHANGED <<cl, count, slot, done, latencies, now, finished, busy, report>>
<1>1. UNCHANGED <<cl, count, slot, done, latencies, now, finished, busy, report>>
  BY DEF Begin, setup, device
<1>2. UNCHANGED <<nireq, niter, Async, Requests, Inferences>>
  BY <1>1 DEF nireq, niter, Async, Requests, Inferences, AtLeast
<1>3. nireq \in Nat \ {0} /\ niter \in Nat \ {0} /\ IsFiniteSet(Requests)
  BY Clamps DEF BmTypeOK
<1>4. /\ status' = [status EXCEPT ![r] = "running"] /\ status[r] = "idle"
      /\ number' = [number EXCEPT ![r] = launched + 1]
      /\ start_times' = [start_times EXCEPT ![r] = now]
      /\ begun' = [begun EXCEPT ![launched + 1] = now]
      /\ launched' = launched + 1
  BY DEF Begin
<1>5. launched + 1 \in Inferences
  BY <1>3 DEF Inferences, BmTypeOK
<1>6. RingInv'
  <2>1. ASSUME NEW k \in (done + 1)..launched
        PROVE  /\ Busy(Ring(k))' /\ number'[Ring(k)] = k
               /\ start_times'[Ring(k)] = begun'[k]
    <3>1. Busy(Ring(k)) /\ number[Ring(k)] = k /\ start_times[Ring(k)] = begun[k]
      BY <2>1 DEF RingInv
    <3>2. Ring(k) # r
      BY <3>1, <1>4 DEF Busy
    <3>3. k # launched + 1
      BY <2>1 DEF BmTypeOK
    <3>4. UNCHANGED Ring(k)
      BY <1>2 DEF Ring
    <3>5. QED
      BY <3>1, <3>2, <3>3, <3>4, <1>4 DEF BmTypeOK, Busy
  <2>2. /\ Busy(r)' /\ number'[r] = launched + 1
        /\ start_times'[r] = begun'[launched + 1]
    BY <1>4, <1>5 DEF BmTypeOK, Busy
  <2>3. \A k : Ring(k)' = Ring(k)
    BY <1>2 DEF Ring
  <2>4. ASSUME NEW q \in Requests, q # r, Busy(q)'
        PROVE  number'[q] \in (done + 1)..launched /\ Ring(number'[q]) = q
    <3>1. Busy(q) /\ number'[q] = number[q]
      BY <2>4, <1>4 DEF Busy, BmTypeOK
    <3>2. QED
      BY <3>1 DEF RingInv
  <2>5. done <= launched
    BY Counts DEF BmTypeOK
  <2>6. QED
    BY <2>1, <2>2, <2>3, <2>4, <2>5, <1>1, <1>2, <1>4, SMTT(30) DEF RingInv, BmTypeOK
<1>7. ClockInv'
  <2>1. /\ HowMany(status', "running") = HowMany(status, "running") + 1
        /\ HowMany(status', "ready") = HowMany(status, "ready")
    <3>1. IsFiniteSet(DOMAIN status) /\ DOMAIN status = Requests
      BY Counts DEF BmTypeOK
    <3>2. /\ status[r] = "idle" /\ status'[r] = "running"
          /\ DOMAIN status' = DOMAIN status
          /\ \A x \in DOMAIN status : x # r => status'[x] = status[x]
      BY <1>4, <3>1
    <3>3. QED
      BY <3>1, <3>2, CountChange
  <2>2. now \in Nat /\ launched \in Nat /\ HowMany(status, "running") \in Nat
    BY Counts DEF BmTypeOK
  <2>3. now + HowMany(status, "running") = launched /\ now = done + HowMany(status, "ready")
    BY DEF ClockInv
  <2>4. now' = now /\ launched' = launched + 1
    BY <1>1, <1>4
  <2>5. now' + HowMany(status', "running") = launched'
    BY <2>1, <2>2, <2>3, <2>4
  <2>6. QED
    BY <2>1, <2>3, <2>4, <2>5 DEF ClockInv
<1>8. TimeInv'
  <2>1. now >= done
    BY Counts DEF BmTypeOK
  <2>2. \A k \in 1..launched' : begun'[k] >= k - nireq
    BY <2>1, <1>3, <1>4, <1>5 DEF TimeInv, BmTypeOK
  <2>3. \A k \in 1..done : begun'[k] = begun[k]
    <3>1. done <= launched
      BY Counts DEF BmTypeOK
    <3>2. QED
      BY <3>1, <1>4 DEF BmTypeOK
  <2>4. QED
    BY <2>2, <2>3, <1>1, <1>2 DEF TimeInv
<1>9. QED
  BY <1>1, <1>4, <1>5, <1>6, <1>7, <1>8 DEF BmTypeOK

\* One request changes its state.
Becomes(r, s) == status' = [status EXCEPT ![r] = s]

\* What wait() does to it: the request of the oldest inference is idle again.
LEMMA WaitStep ==
    ASSUME BmTypeOK, RingInv, ClockInv, TimeInv, NEW r \in Requests,
           r = Ring(done + 1), done < launched, status[r] # "running", Becomes(r, "idle"),
           UNCHANGED <<cl, ring, device, slot>>, Collected = done, Collected' = done + 1
    PROVE  /\ RingInv' /\ ClockInv' /\ TimeInv'
           /\ start_times[r] = begun[done + 1]
<1>1. UNCHANGED <<launched, done, start_times, latencies, number, begun, now, finished>>
  BY DEF ring, device
<1>2. UNCHANGED <<nireq, niter, Async, Requests, Inferences>>
  BY DEF nireq, niter, Async, Requests, Inferences, AtLeast
<1>3. \A k : Ring(k)' = Ring(k)
  BY <1>2 DEF Ring
<1>4. /\ status[r] = "ready" /\ number[r] = done + 1
      /\ start_times[r] = begun[done + 1]
  <2>1. done + 1 \in (Collected + 1)..launched
    BY DEF BmTypeOK
  <2>2. QED
    BY <2>1 DEF RingInv, Busy
<1>5. RingInv'
  <2>1. ASSUME NEW k \in (done + 2)..launched
        PROVE  Busy(Ring(k))' /\ number[Ring(k)] = k /\ start_times[Ring(k)] = begun[k]
    <3>1. k \in (done + 1)..launched /\ k # done + 1
      BY <2>1 DEF BmTypeOK
    <3>2. Busy(Ring(k)) /\ number[Ring(k)] = k /\ start_times[Ring(k)] = begun[k]
      BY <3>1 DEF RingInv
    <3>3. Ring(k) # r
      BY <3>1, <3>2, <1>4
    <3>4. QED
      BY <3>2, <3>3, <1>3 DEF Becomes, Busy, BmTypeOK
  <2>2. ASSUME NEW q \in Requests, Busy(q)'
        PROVE  number[q] \in (done + 2)..launched /\ Ring(number[q]) = q
    <3>1. q # r /\ Busy(q)
      BY <2>2 DEF Becomes, Busy, BmTypeOK
    <3>2. number[q] \in (done + 1)..launched /\ Ring(number[q]) = q
      BY <3>1 DEF RingInv
    <3>3. number[q] # done + 1
      BY <3>1, <3>2
    <3>4. QED
      BY <3>2, <3>3 DEF BmTypeOK
  <2>3. Collected' + 1 = done + 2
    BY DEF BmTypeOK
  <2>4. QED
    BY <2>1, <2>2, <2>3, <1>1, <1>2, <1>3 DEF RingInv
<1>6. ClockInv'
  <2>1. IsFiniteSet(DOMAIN status) /\ DOMAIN status = Requests
    BY Counts DEF BmTypeOK
  <2>2. /\ r \in DOMAIN status /\ status[r] = "ready" /\ status'[r] = "idle"
        /\ DOMAIN status' = DOMAIN status
        /\ \A x \in DOMAIN status : x # r => status'[x] = status[x]
    BY <1>4, <2>1 DEF Becomes, BmTypeOK
  <2>3. /\ HowMany(status', "ready") = HowMany(status, "ready") - 1
        /\ \A c : c # "idle" /\ c # "ready" => HowMany(status', c) = HowMany(status, c)
    BY <2>1, <2>2, CountChange
  <2>4. now \in Nat /\ done \in Nat /\ HowMany(status, "ready") \in Nat
    BY Counts DEF BmTypeOK
  <2>5. now + HowMany(status, "running") = launched /\ now = done + HowMany(status, "ready")
    BY DEF ClockInv
  <2>6. now = done + 1 + HowMany(status', "ready")
    BY <2>3, <2>4, <2>5
  <2>7. HowMany(status', "running") = HowMany(status, "running")
    BY <2>3
  <2>8. QED
    BY <2>5, <2>6, <2>7, <1>1 DEF ClockInv
<1>7. TimeInv'
  BY <1>1, <1>2 DEF TimeInv
<1>8. QED
  BY <1>4, <1>5, <1>6, <1>7

\* What is measured is the inference that has been waited for.
LEMMA MeasureStep ==
    ASSUME BmTypeOK, pc # "end", RingInv, ClockInv, TimeInv, Measure, done < launched,
           launched <= niter, launched <= done + nireq,
           start_times[slot] = begun[done + 1], Collected = done + 1, Collected' = done'
    PROVE  /\ RingInv' /\ ClockInv' /\ TimeInv'
           /\ latencies' \in Seq(Int)
<1>1. /\ UNCHANGED <<cl, status, slot, launched, start_times, number, begun, now, finished>>
      /\ done' = done + 1 /\ latencies' = Append(latencies, now - start_times[slot])
  BY DEF Measure, setup, device
<1>2. UNCHANGED <<nireq, niter, Async, Requests, Inferences>>
  BY <1>1 DEF nireq, niter, Async, Requests, Inferences, AtLeast
<1>3. nireq \in Nat \ {0} /\ niter \in Nat \ {0}
  BY Clamps DEF BmTypeOK
<1>4. done + 1 \in Inferences /\ done + 1 \in 1..launched
  BY <1>3 DEF Inferences, BmTypeOK
<1>5. begun[done + 1] \in Nat /\ finished[done + 1] \in Nat
  BY <1>4 DEF BmTypeOK
<1>6. /\ finished[done + 1] <= now
      /\ begun[done + 1] >= done + 1 - nireq
      /\ now <= launched
  <2>1. now <= launched
    BY Counts
  <2>2. QED
    BY <1>3, <1>4, <1>5, <2>1 DEF TimeInv, BmTypeOK
<1>7. now - begun[done + 1] >= finished[done + 1] - begun[done + 1]
  BY <1>5, <1>6 DEF BmTypeOK
<1>8. now - begun[done + 1] <= 2 * nireq - 1
  BY <1>3, <1>5, <1>6 DEF BmTypeOK
<1>9. latencies \in Seq(Int) /\ now - begun[done + 1] \in Int /\ Len(latencies) = done
  BY <1>5 DEF BmTypeOK, TimeInv
<1>10. /\ latencies' \in Seq(Int) /\ Len(latencies') = done + 1
       /\ latencies'[done + 1] = now - begun[done + 1]
       /\ \A k \in 1..done : latencies'[k] = latencies[k]
  BY <1>1, <1>9
<1>11. RingInv'
  BY <1>1, <1>2 DEF RingInv, Ring, Busy
<1>12. ClockInv'
  BY <1>1 DEF ClockInv
<1>13. TimeInv'
  <2>1. ASSUME NEW k \in 1..(done + 1)
        PROVE  latencies'[k] >= finished[k] - begun[k] /\ latencies'[k] <= 2 * nireq - 1
    <3>1. CASE k = done + 1
      BY <3>1, <1>7, <1>8, <1>10
    <3>2. CASE k # done + 1
      <4>1. k \in 1..done
        BY <3>2 DEF BmTypeOK
      <4>2. QED
        BY <4>1, <1>10 DEF TimeInv
    <3>3. QED
      BY <3>1, <3>2
  <2>2. QED
    BY <2>1, <1>1, <1>2, <1>10 DEF TimeInv
<1>14. QED
  BY <1>10, <1>11, <1>12, <1>13

\* The device completes an inference that is under way.
LEMMA CompleteStep ==
    ASSUME BmInv, NEW r \in Requests, Complete(r)
    PROVE  BmInv'
<1>1. /\ UNCHANGED <<cl, count, pc, exit, slot, busy, launched, done, start_times, latencies,
                     number, begun>>
      /\ now' = now + 1 /\ finished' = [finished EXCEPT ![number[r]] = now + 1]
      /\ status[r] = "running" /\ status' = [status EXCEPT ![r] = "ready"] /\ pc # "end"
  BY DEF Complete, setup, ring
<1>2. UNCHANGED <<nireq, niter, nwarmup, Async, Requests, Inferences, Collected>>
  BY <1>1 DEF nireq, niter, nwarmup, Async, Requests, Inferences, AtLeast, Collected
<1>3. BmTypeOK /\ NeverBusy /\ PhaseInv /\ RingInv /\ ClockInv /\ TimeInv
  BY <1>1 DEF BmInv
<1>4. \A q \in Requests : /\ Busy(q)' = Busy(q)
                          /\ status[q] # "running" => status'[q] = status[q]
                          /\ status'[q] # "none" <=> status[q] # "none"
  BY <1>1, <1>3 DEF Busy, BmTypeOK
<1>5. BmTypeOK'
  <2>1. status' \in [Requests -> {"none", "idle", "running", "ready"}]
    BY <1>1, <1>3 DEF BmTypeOK
  <2>2. now + 1 \in Nat
    BY <1>3 DEF BmTypeOK
  <2>3. finished' \in [Inferences -> Nat]
    BY <2>2, <1>1, <1>3 DEF BmTypeOK
  <2>4. QED
    BY <2>1, <2>2, <2>3, <1>1, <1>2, <1>3 DEF BmTypeOK
<1>6. NeverBusy'
  BY <1>1, <1>3 DEF NeverBusy
<1>7. PhaseInv'
  BY <1>1, <1>2, <1>3, <1>4 DEF PhaseInv, BmTypeOK, Busy
<1>8. RingInv'
  <2>1. \A k : Ring(k)' = Ring(k)
    BY <1>2 DEF Ring
  <2>2. nireq \in Nat \ {0}
    BY <1>3, Clamps DEF BmTypeOK
  <2>3. \A k \in (Collected + 1)..launched : Ring(k) \in Requests
    BY <2>2, <1>3, ModRange DEF Ring, Requests, BmTypeOK, Collected
  <2>4. QED
    BY <2>1, <2>3, <1>1, <1>2, <1>3, <1>4 DEF RingInv
<1>9. ClockInv'
  <2>1. IsFiniteSet(DOMAIN status) /\ DOMAIN status = Requests
    BY <1>3, Counts DEF BmTypeOK
  <2>2. /\ status[r] = "running" /\ status'[r] = "ready"
        /\ DOMAIN status' = DOMAIN status
        /\ \A x \in DOMAIN status : x # r => status'[x] = status[x]
    BY <1>1, <2>1
  <2>3. /\ HowMany(status', "ready") = HowMany(status, "ready") + 1
        /\ HowMany(status', "running") = HowMany(status, "running") - 1
    BY <2>1, <2>2, CountChange
  <2>4. /\ now \in Nat /\ Collected \in Nat /\ launched \in Nat
        /\ HowMany(status, "ready") \in Nat /\ HowMany(status, "running") \in Nat
    BY <1>3, Counts DEF BmTypeOK, Collected
  <2>5. now + HowMany(status, "running") = launched /\ now = Collected + HowMany(status, "ready")
    BY <1>3 DEF ClockInv
  <2>6. /\ now + 1 + HowMany(status', "running") = launched
        /\ now + 1 = Collected + HowMany(status', "ready")
    BY <2>3, <2>4, <2>5
  <2>7. QED
    BY <2>6, <1>1, <1>2 DEF ClockInv
<1>10. TimeInv'
  <2>1. number[r] > done
    BY <1>1, <1>3 DEF RingInv, Busy, Collected, BmTypeOK
  <2>2. \A k \in 1..done : finished'[k] = finished[k]
    BY <2>1, <1>1, <1>3 DEF BmTypeOK
  <2>3. \A k \in Inferences : finished'[k] <= now + 1
    BY <1>1, <1>3 DEF BmTypeOK, TimeInv
  <2>4. QED
    BY <2>2, <2>3, <1>1, <1>2, <1>3 DEF TimeInv
<1>11. QED
  BY <1>5, <1>6, <1>7, <1>8, <1>9, <1>10 DEF BmInv
-----------------------------------------------------------------------------
Pcs == Setup \cup SyncPart \cup AsyncPart \cup {"statistics"}

\* What a step does to the two counters, the only thing that Window sees.
Windowed == W!Launch \/ W!Collect \/ UNCHANGED <<niter, nireq, launched, done>>

LEMMA Unwindowed ==
    ASSUME UNCHANGED <<cl, launched, done>>
    PROVE  Windowed
  BY DEF Windowed, niter, nireq, AtLeast

\* A step of main alone that moves it to another part.
LEMMA MoveStep ==
    ASSUME BmInv, pc # "end", UNCHANGED <<cl, exit, status, ring, device, busy>>,
           Collected' = Collected, pc' \in Pcs, count' \in Nat, slot' \in Requests, PhaseInv'
    PROVE  BmInv' /\ Windowed
<1>1. BmTypeOK /\ NeverBusy /\ RingInv /\ ClockInv /\ TimeInv
  BY DEF BmInv
<1>2. RingInv' /\ ClockInv' /\ TimeInv'
  BY <1>1, QuietStep
<1>3. UNCHANGED <<Requests, Inferences>>
  BY DEF nireq, niter, Requests, Inferences, AtLeast
<1>4. UNCHANGED <<launched, done, start_times, latencies, number, begun, now, finished>>
  BY DEF ring, device
<1>5. BmTypeOK' /\ NeverBusy'
  BY <1>1, <1>3, <1>4 DEF BmTypeOK, NeverBusy, Pcs
<1>6. QED
  BY <1>2, <1>4, <1>5, Unwindowed DEF BmInv

LEMMA ThrowsStep ==
    ASSUME BmInv, Throws
    PROVE  BmInv' /\ Windowed
<1>1. BmInv'
  BY EndStep DEF Throws, Return, ring, setup
<1>2. Windowed
  BY Unwindowed DEF Throws, ring, setup
<1>3. QED
  BY <1>1, <1>2

\* A request that is not busy is refused because of the device.
LEMMA RefuseStep ==
    ASSUME BmInv, NEW r \in Requests, status[r] = "idle", Refuse(r)
    PROVE  BmInv' /\ Windowed
<1>1. busy' = busy
  <2>1. busy = FALSE
    BY DEF BmInv, BmTypeOK, NeverBusy
  <2>2. busy' = (busy \/ status[r] # "idle")
    BY DEF Refuse
  <2>3. QED
    BY <2>1, <2>2
<1>2. BmInv'
  BY <1>1, EndStep DEF Refuse, Return, ring, setup
<1>3. Windowed
  BY Unwindowed DEF Refuse, ring, setup
<1>4. QED
  BY <1>2, <1>3

\* What stays when only main's place changes.
LEMMA Params ==
    ASSUME UNCHANGED cl
    PROVE  UNCHANGED <<nireq, niter, nwarmup, Async, Requests, Inferences>>
  BY DEF nireq, niter, nwarmup, Async, Requests, Inferences, AtLeast

Still == UNCHANGED <<cl, exit, status, ring, device, busy>>

LEMMA KindTypes ==
    ASSUME BmInv
    PROVE  cl.kind \in {"run", "help", "unknown", "no number", "no model"}
  BY CommandLinesAssumption DEF BmInv, BmTypeOK, CommandLine

LEMMA ParseArgsStep ==
    ASSUME BmInv, ParseArgs
    PROVE  BmInv' /\ Windowed
<1>1. UNCHANGED <<setup, status, slot, ring, device, busy, report>> /\ pc = "args"
  BY DEF ParseArgs
<1>2. BmTypeOK /\ PhaseInv
  BY <1>1 DEF BmInv
<1>3. CASE pc' = "end"
  <2>1. exit' \in {"ok", "error", "abort"}
    BY <1>3, KindTypes DEF ParseArgs, Return, Goto
  <2>2. BmInv'
    BY <1>1, <1>3, <2>1, EndStep DEF ring, setup
  <2>3. QED
    BY <1>1, <2>2, Unwindowed DEF ring, setup
<1>4. CASE pc' = "load" /\ exit' = exit
  <2>1. PhaseInv'
    BY <1>1, <1>2, <1>4, Params DEF PhaseInv, ring, setup, Busy
  <2>2. QED
    BY <1>1, <1>2, <1>4, <2>1, MoveStep DEF BmTypeOK, Pcs, Collected, ring, setup
<1>5. QED
  BY <1>3, <1>4, KindTypes DEF ParseArgs, Return, Goto

LEMMA LoadStep ==
    ASSUME BmInv, Load
    PROVE  BmInv' /\ Windowed
<1>1. CASE Throws
  BY <1>1, ThrowsStep
<1>2. CASE Goto("create") /\ UNCHANGED <<setup, status, slot, ring, device, busy, report>>
  <2>1. pc = "load" /\ pc' = "create" /\ Still /\ UNCHANGED <<count, slot, launched, done>>
    BY <1>2 DEF Load, Goto, Still, setup, ring
  <2>2. BmTypeOK /\ PhaseInv /\ nireq \in Nat
    BY <2>1, Clamps DEF BmInv, BmTypeOK
  <2>3. PhaseInv'
    <3>1. count = 0 /\ \A r \in Requests : ~(r < 0)
      BY <2>1, <2>2 DEF PhaseInv, Requests
    <3>2. QED
      BY <3>1, <2>1, <2>2, Params DEF PhaseInv, Busy, Still
  <2>4. QED
    BY <2>1, <2>2, <2>3, MoveStep DEF BmTypeOK, Pcs, Collected, Still
<1>3. QED
  BY <1>1, <1>2 DEF Load

LEMMA CreateStep ==
    ASSUME BmInv, Create
    PROVE  BmInv' /\ Windowed
<1>1. CASE Throws
  BY <1>1, ThrowsStep
<1>2. CASE /\ status' = [status EXCEPT ![count] = "idle"] /\ count' = count + 1
           /\ UNCHANGED <<cl, pc, exit, slot, ring, device, busy, report>>
  <2>1. /\ pc = "create" /\ count < nireq /\ pc' = pc /\ count' = count + 1
        /\ UNCHANGED <<cl, exit, slot, busy, launched, done, start_times, latencies, number,
                       begun, now, finished>>
    BY <1>2 DEF Create, ring, device
  <2>2. BmTypeOK /\ NeverBusy /\ PhaseInv /\ RingInv /\ ClockInv /\ TimeInv
    BY <2>1 DEF BmInv
  <2>3. UNCHANGED <<nireq, niter, nwarmup, Async, Requests, Inferences, Collected>>
    BY <2>1, Params DEF Collected
  <2>4. nireq \in Nat \ {0} /\ count \in Requests /\ Collected = 0
    BY <2>1, <2>2, Clamps DEF Requests, BmTypeOK, PhaseInv, Collected
  <2>5. \A q \in Requests : ~Busy(q) /\ ~Busy(q)' /\ (q # count => status'[q] = status[q])
    BY <1>2, <2>1, <2>2, <2>4 DEF Busy, BmTypeOK, PhaseInv
  <2>6. BmTypeOK'
    <3>1. status' \in [Requests -> {"none", "idle", "running", "ready"}]
      BY <1>2, <2>2 DEF BmTypeOK
    <3>2. QED
      BY <3>1, <2>1, <2>2, <2>3 DEF BmTypeOK
  <2>7. PhaseInv'
    <3>1. \A r \in Requests : r < count' => status'[r] = "idle"
      BY <1>2, <2>1, <2>2, <2>4 DEF BmTypeOK, PhaseInv, Requests
    <3>2. QED
      BY <3>1, <2>1, <2>2, <2>3, <2>4, <2>5 DEF PhaseInv, BmTypeOK
  <2>8. RingInv'
    BY <2>1, <2>2, <2>3, <2>4, <2>5 DEF RingInv, PhaseInv
  <2>9. ClockInv'
    <3>1. \A v \in {"running", "ready"} : HowMany(status, v) = 0 /\ HowMany(status', v) = 0
      <4>1. ASSUME NEW v \in {"running", "ready"}
            PROVE  /\ {x \in DOMAIN status : status[x] = v} = {}
                   /\ {x \in DOMAIN status' : status'[x] = v} = {}
        BY <2>2, <2>3, <2>5, <2>6 DEF Busy, BmTypeOK
      <4>2. QED
        BY <4>1, FS_EmptySet DEF HowMany
    <3>2. QED
      BY <3>1, <2>1, <2>2, <2>3 DEF ClockInv
  <2>10. TimeInv'
    BY <2>1, <2>2, <2>3 DEF TimeInv
  <2>11. QED
    BY <2>1, <2>2, <2>6, <2>7, <2>8, <2>9, <2>10, Unwindowed DEF BmInv, NeverBusy
<1>3. QED
  BY <1>1, <1>2 DEF Create

LEMMA CreatedStep ==
    ASSUME BmInv, Created
    PROVE  BmInv' /\ Windowed
<1>1. /\ pc = "create" /\ count = nireq /\ pc' = "warmup" /\ count' = 0
      /\ Still /\ UNCHANGED <<slot, launched, done>>
  BY DEF Created, Goto, Still, ring
<1>2. BmTypeOK /\ PhaseInv /\ nireq \in Nat
  BY <1>1, Clamps DEF BmInv, BmTypeOK
<1>3. \A r \in Requests : r < count
  BY <1>1, <1>2 DEF Requests
<1>4. PhaseInv'
  BY <1>1, <1>2, <1>3, Params DEF PhaseInv, Busy, Still
<1>5. QED
  BY <1>1, <1>2, <1>4, MoveStep DEF BmTypeOK, Pcs, Collected, Still

LEMMA WarmupStep ==
    ASSUME BmInv, Warmup
    PROVE  BmInv' /\ Windowed
<1>1. CASE Throws
  BY <1>1, ThrowsStep
<1>2. CASE count' = count + 1 /\ UNCHANGED <<cl, pc, exit, status, slot, ring, device, busy, report>>
  <2>1. /\ pc = "warmup" /\ pc' = pc /\ count' = count + 1
        /\ Still /\ UNCHANGED <<slot, launched, done>>
    BY <1>2 DEF Warmup, Still, ring
  <2>2. BmTypeOK /\ PhaseInv
    BY <2>1 DEF BmInv
  <2>3. PhaseInv'
    BY <2>1, <2>2, Params DEF PhaseInv, Busy, Still
  <2>4. QED
    BY <2>1, <2>2, <2>3, MoveStep DEF BmTypeOK, Pcs, Collected, Still
<1>3. QED
  BY <1>1, <1>2 DEF Warmup

\* The steps between the loops: warm-up, sync or async, statistics.
LEMMA WarmStep ==
    ASSUME BmInv, Warm
    PROVE  BmInv' /\ Windowed
<1>1. /\ pc = "warmup" /\ pc' = IF Async THEN "prime" ELSE "sync"
      /\ Still /\ UNCHANGED <<count, slot, launched, done>>
  BY DEF Warm, Goto, Still, setup, ring
<1>2. BmTypeOK /\ PhaseInv /\ nireq \in Nat \ {0} /\ niter \in Nat \ {0}
  BY <1>1, Clamps DEF BmInv, BmTypeOK
<1>3. PhaseInv'
  BY <1>1, <1>2, Params DEF PhaseInv, Busy, Still
<1>4. QED
  BY <1>1, <1>2, <1>3, MoveStep DEF BmTypeOK, Pcs, Collected, Still

LEMMA SyncedStep ==
    ASSUME BmInv, Synced
    PROVE  BmInv' /\ Windowed
<1>1. /\ pc = "sync" /\ pc' = "statistics" /\ done = niter
      /\ Still /\ UNCHANGED <<count, slot, launched, done>>
  BY DEF Synced, Goto, Still, setup, ring
<1>2. BmTypeOK /\ PhaseInv
  BY <1>1 DEF BmInv
<1>3. PhaseInv'
  BY <1>1, <1>2, Params DEF PhaseInv, Busy, Still
<1>4. QED
  BY <1>1, <1>2, <1>3, MoveStep DEF BmTypeOK, Pcs, Collected, Still

LEMMA PrimedStep ==
    ASSUME BmInv, Primed
    PROVE  BmInv' /\ Windowed
<1>1. /\ pc = "prime" /\ pc' = "loop" /\ (launched >= nireq \/ launched >= niter)
      /\ Still /\ UNCHANGED <<count, slot, launched, done>>
  BY DEF Primed, Goto, Still, setup, ring
<1>2. BmTypeOK /\ PhaseInv /\ nireq \in Nat \ {0} /\ niter \in Nat \ {0}
  BY <1>1, Clamps DEF BmInv, BmTypeOK
<1>3. done <= niter /\ launched = Smaller(done + nireq, niter)
  BY <1>1, <1>2 DEF PhaseInv, Smaller, BmTypeOK
<1>4. PhaseInv'
  BY <1>1, <1>2, <1>3, Params DEF PhaseInv, Busy, Still
<1>5. QED
  BY <1>1, <1>2, <1>4, MoveStep DEF BmTypeOK, Pcs, Collected, Still

LEMMA DrainedStep ==
    ASSUME BmInv, Drained
    PROVE  BmInv' /\ Windowed
<1>1. /\ pc = "loop" /\ pc' = "statistics" /\ done = niter
      /\ Still /\ UNCHANGED <<count, slot, launched, done>>
  BY DEF Drained, Goto, Still, setup, ring
<1>2. BmTypeOK /\ PhaseInv /\ nireq \in Nat \ {0} /\ niter \in Nat \ {0}
  BY <1>1, Clamps DEF BmInv, BmTypeOK
<1>3. launched = done
  BY <1>1, <1>2 DEF PhaseInv, Smaller
<1>4. PhaseInv'
  BY <1>1, <1>2, <1>3, Params DEF PhaseInv, Busy, Still
<1>5. QED
  BY <1>1, <1>2, <1>4, MoveStep DEF BmTypeOK, Pcs, Collected, Still
-----------------------------------------------------------------------------
\* An inference is launched.
LEMMA LaunchStep ==
    ASSUME BmInv, pc \in {"sync", "prime", "restart"}, NEW r \in Requests, Begin(r),
           r = Ring(launched + 1), launched < niter, launched - done < nireq,
           pc' \in {"infer", "prime", "loop"}, exit' = exit, PhaseInv'
    PROVE  BmInv' /\ Windowed
<1>1. BmTypeOK /\ NeverBusy /\ RingInv /\ ClockInv /\ TimeInv
  BY DEF BmInv
<1>2. Collected = done
  BY DEF Collected
<1>3. done' = done
  BY DEF Begin
<1>4. Collected' = done
  BY <1>3 DEF Collected
<1>5. /\ RingInv' /\ ClockInv' /\ TimeInv' /\ launched' = launched + 1
      /\ UNCHANGED <<cl, count, slot, done, latencies, now, finished, busy>>
  BY <1>1, <1>2, <1>4, BeginStep
<1>6. UNCHANGED <<nireq, niter, Requests, Inferences>>
  BY <1>5, Params
<1>7. BmTypeOK'
  <2>1. status' \in [Requests -> {"none", "idle", "running", "ready"}]
    BY <1>1 DEF Begin, BmTypeOK
  <2>2. number' \in [Requests -> Nat]
    <3>1. launched + 1 \in Nat
      BY <1>1 DEF BmTypeOK
    <3>2. QED
      BY <3>1, <1>1 DEF Begin, BmTypeOK
  <2>3. start_times' \in [Requests -> Nat] /\ begun' \in [Inferences -> Nat]
    BY <1>1 DEF Begin, BmTypeOK
  <2>4. QED
    BY <2>1, <2>2, <2>3, <1>1, <1>5, <1>6 DEF BmTypeOK
<1>8. Windowed
  BY <1>5, <1>6 DEF Windowed, W!Launch
<1>9. QED
  BY <1>1, <1>5, <1>7, <1>8 DEF BmInv, NeverBusy

\* An inference is counted.
LEMMA CollectStep ==
    ASSUME BmInv, pc \in {"inferred", "collected"}, Measure, done < launched,
           launched <= niter, launched <= done + nireq,
           pc' \in {"sync", "restart"}, exit' = exit, PhaseInv'
    PROVE  BmInv' /\ Windowed
<1>1. BmTypeOK /\ NeverBusy /\ PhaseInv /\ RingInv /\ ClockInv /\ TimeInv
  BY DEF BmInv
<1>2. Collected = done + 1 /\ start_times[slot] = begun[done + 1]
  BY <1>1 DEF Collected, PhaseInv
<1>3. Collected' = done'
  BY DEF Collected
<1>4. RingInv' /\ ClockInv' /\ TimeInv' /\ latencies' \in Seq(Int)
  BY <1>1, <1>2, <1>3, MeasureStep
<1>5. /\ UNCHANGED <<cl, count, status, slot, launched, start_times, number, begun, now,
                     finished, busy>>
      /\ done' = done + 1
  BY DEF Measure, setup, device
<1>6. UNCHANGED <<nireq, niter, Requests, Inferences>>
  BY <1>5, Params
<1>7. BmTypeOK'
  BY <1>1, <1>4, <1>5, <1>6 DEF BmTypeOK
<1>8. Windowed
  BY <1>5, <1>6 DEF Windowed, W!Collect
<1>9. QED
  BY <1>1, <1>4, <1>5, <1>7, <1>8 DEF BmInv, NeverBusy

\* wait() returns.
LEMMA ReturnStep ==
    ASSUME BmInv, pc \in {"infer", "wait"}, NEW r \in Requests, r = Ring(done + 1), r = slot,
           done < launched, status[r] # "running", status' = [status EXCEPT ![r] = "idle"],
           UNCHANGED <<setup, slot, ring, device, busy>>, exit' = exit,
           pc' = IF pc = "infer" THEN "inferred" ELSE "collected"
    PROVE  BmInv' /\ Windowed
<1>1. BmTypeOK /\ NeverBusy /\ PhaseInv /\ RingInv /\ ClockInv /\ TimeInv
  BY DEF BmInv
<1>2. UNCHANGED <<cl, count, slot, launched, done, start_times, latencies, number, begun, now,
                  finished, busy>>
  BY DEF setup, ring, device
<1>3. Collected = done /\ Collected' = done + 1
  BY <1>2 DEF Collected
<1>4. Becomes(r, "idle")
  BY DEF Becomes
<1>5. UNCHANGED <<cl, ring, device, slot>>
  BY DEF setup
<1>6. RingInv' /\ ClockInv' /\ TimeInv' /\ start_times[r] = begun[done + 1]
  BY <1>1, <1>3, <1>4, <1>5, WaitStep
<1>7. UNCHANGED <<nireq, niter, Async, Requests, Inferences>>
  BY <1>2, Params
<1>8. status' \in [Requests -> {"none", "idle", "running", "ready"}]
  BY <1>1 DEF BmTypeOK
<1>9. BmTypeOK'
  BY <1>1, <1>2, <1>7, <1>8 DEF BmTypeOK
<1>10. PhaseInv'
  <2>1. ~Busy(slot)'
    BY <1>1, <1>2 DEF Busy, BmTypeOK
  <2>2. \A q \in Requests : status'[q] # "none"
    BY <1>1 DEF PhaseInv, BmTypeOK
  <2>3. QED
    BY <2>1, <2>2, <1>1, <1>2, <1>6, <1>7 DEF PhaseInv
<1>11. QED
  BY <1>1, <1>2, <1>6, <1>9, <1>10, Unwindowed DEF BmInv, NeverBusy
-----------------------------------------------------------------------------
LEMMA SyncBeginStep ==
    ASSUME BmInv, SyncBegin
    PROVE  BmInv' /\ Windowed
<1>1. pc = "sync" /\ done < niter
  BY DEF SyncBegin
<1>2. BmTypeOK /\ PhaseInv /\ RingInv
  BY <1>1 DEF BmInv
<1>3. nireq \in Nat \ {0} /\ niter \in Nat \ {0} /\ 0 \in Requests
  BY <1>2, Clamps DEF BmTypeOK, Requests
<1>4. launched = done /\ ~Async /\ slot = 0 /\ Collected = done
  BY <1>1, <1>2 DEF PhaseInv, Collected
<1>5. status[0] = "idle"
  <2>1. ~Busy(0)
    BY <1>2, <1>3, <1>4 DEF RingInv, BmTypeOK
  <2>2. QED
    BY <2>1, <1>1, <1>2, <1>3 DEF Busy, PhaseInv, BmTypeOK
<1>6. CASE Refuse(0)
  BY <1>3, <1>5, <1>6, RefuseStep
<1>7. CASE Begin(0) /\ Goto("infer")
  <2>1. pc' = "infer" /\ exit' = exit
    BY <1>7 DEF Goto
  <2>2. UNCHANGED <<cl, count, slot, done>> /\ launched' = launched + 1
    BY <1>7 DEF Begin, setup
  <2>3. \A q \in Requests : status'[q] # "none"
    BY <1>1, <1>2, <1>7 DEF Begin, PhaseInv, BmTypeOK
  <2>4. PhaseInv'
    <3>1. UNCHANGED <<nireq, niter, Async, Requests>>
      BY <2>2, Params
    <3>2. launched' = done' + 1 /\ launched' <= niter /\ done <= niter
      BY <2>2, <1>1, <1>2, <1>3, <1>4 DEF BmTypeOK
    <3>3. QED
      BY <2>1, <2>2, <2>3, <3>1, <3>2, <1>4 DEF PhaseInv
  <2>5. 0 = Ring(launched + 1) /\ launched < niter /\ launched - done < nireq
    BY <1>1, <1>2, <1>3, <1>4 DEF Ring, BmTypeOK
  <2>6. QED
    BY <2>1, <2>4, <2>5, <1>1, <1>3, <1>7, LaunchStep
<1>8. QED
  BY <1>6, <1>7 DEF SyncBegin

LEMMA SyncInferStep ==
    ASSUME BmInv, SyncInfer
    PROVE  BmInv' /\ Windowed
<1>1. pc = "infer" /\ status[0] # "running"
  BY DEF SyncInfer, Wait
<1>2. BmTypeOK /\ PhaseInv
  BY <1>1 DEF BmInv
<1>3. 0 \in Requests
  BY <1>2, Clamps DEF BmTypeOK, Requests
<1>4. CASE Throws
  BY <1>4, ThrowsStep
<1>5. CASE /\ status' = [status EXCEPT ![0] = "idle"] /\ Goto("inferred")
           /\ UNCHANGED <<setup, slot, ring, device, busy, report>>
  <2>1. 0 = Ring(done + 1) /\ slot = 0 /\ done < launched
    BY <1>1, <1>2 DEF PhaseInv, Ring, BmTypeOK
  <2>2. pc' = "inferred" /\ exit' = exit /\ UNCHANGED <<setup, slot, ring, device, busy>>
    BY <1>5 DEF Goto
  <2>3. QED
    BY <2>1, <2>2, <1>1, <1>3, <1>5, ReturnStep
<1>6. QED
  BY <1>4, <1>5 DEF SyncInfer, Wait

LEMMA SyncMeasureStep ==
    ASSUME BmInv, SyncMeasure
    PROVE  BmInv' /\ Windowed
<1>1. pc = "inferred" /\ Measure /\ pc' = "sync" /\ exit' = exit
  BY DEF SyncMeasure, Goto
<1>2. BmTypeOK /\ PhaseInv
  BY <1>1 DEF BmInv
<1>3. nireq \in Nat \ {0} /\ niter \in Nat \ {0}
  BY <1>2, Clamps DEF BmTypeOK
<1>4. UNCHANGED <<cl, count, status, slot, launched>> /\ done' = done + 1
  BY <1>1 DEF Measure, setup
<1>5. launched = done + 1 /\ launched <= niter
  BY <1>1, <1>2 DEF PhaseInv
<1>6. PhaseInv'
  BY <1>1, <1>2, <1>4, <1>5, Params DEF PhaseInv, Busy
<1>7. done < launched /\ launched <= done + nireq
  BY <1>2, <1>3, <1>5 DEF BmTypeOK
<1>8. QED
  BY <1>1, <1>5, <1>6, <1>7, CollectStep

LEMMA PrimeStep ==
    ASSUME BmInv, Prime
    PROVE  BmInv' /\ Windowed
<1>1. pc = "prime" /\ launched < nireq /\ launched < niter
  BY DEF Prime
<1>2. BmTypeOK /\ PhaseInv /\ RingInv
  BY <1>1 DEF BmInv
<1>3. nireq \in Nat \ {0} /\ niter \in Nat \ {0} /\ launched \in Requests
  BY <1>1, <1>2, Clamps DEF BmTypeOK, Requests
<1>4. done = 0 /\ Async /\ slot \in Requests /\ Collected = 0
  BY <1>1, <1>2 DEF PhaseInv, Collected, BmTypeOK
<1>5. launched = Ring(launched + 1)
  <2>1. launched \in 0..(nireq - 1) /\ (launched + 1) - 1 = launched
    BY <1>1, <1>2, <1>3 DEF BmTypeOK
  <2>2. launched % nireq = launched
    BY <2>1, <1>3, ModSmall
  <2>3. QED
    BY <2>1, <2>2, <1>4 DEF Ring
<1>6. status[launched] = "idle"
  <2>1. ASSUME Busy(launched)
        PROVE  FALSE
    <3>1. number[launched] \in 1..launched /\ Ring(number[launched]) = launched
      BY <2>1, <1>2, <1>3, <1>4 DEF RingInv
    <3>2. number[launched] - 1 \in 0..(nireq - 1)
      BY <3>1, <1>1, <1>2, <1>3 DEF BmTypeOK
    <3>3. Ring(number[launched]) = number[launched] - 1
      BY <3>2, <1>3, <1>4, ModSmall DEF Ring
    <3>4. QED
      BY <3>1, <3>3, <1>2 DEF BmTypeOK
  <2>2. QED
    BY <2>1, <1>1, <1>2, <1>3 DEF Busy, PhaseInv, BmTypeOK
<1>7. CASE Refuse(launched)
  BY <1>3, <1>6, <1>7, RefuseStep
<1>8. CASE Begin(launched) /\ UNCHANGED <<pc, exit>>
  <2>1. UNCHANGED <<cl, count, slot, done>> /\ launched' = launched + 1
    BY <1>8 DEF Begin, setup
  <2>2. \A q \in Requests : status'[q] # "none"
    BY <1>1, <1>2, <1>8 DEF Begin, PhaseInv, BmTypeOK
  <2>3. PhaseInv'
    <3>1. UNCHANGED <<nireq, niter, Async, Requests>>
      BY <2>1, Params
    <3>2. launched' <= nireq /\ launched' <= niter
      BY <2>1, <1>1, <1>2, <1>3 DEF BmTypeOK
    <3>3. QED
      BY <2>1, <2>2, <3>1, <3>2, <1>1, <1>4, <1>8 DEF PhaseInv
  <2>4. launched - done < nireq
    BY <1>1, <1>2, <1>3, <1>4 DEF BmTypeOK
  <2>5. QED
    BY <2>3, <2>4, <1>1, <1>3, <1>5, <1>8, LaunchStep
<1>9. QED
  BY <1>7, <1>8 DEF Prime

LEMMA TurnStep ==
    ASSUME BmInv, Turn
    PROVE  BmInv' /\ Windowed
<1>1. /\ pc = "loop" /\ pc' = "wait" /\ done < niter /\ slot' = done % nireq
      /\ Still /\ UNCHANGED <<count, launched, done>>
  BY DEF Turn, Goto, Still, Slot, setup, ring
<1>2. BmTypeOK /\ PhaseInv
  BY <1>1 DEF BmInv
<1>3. slot' \in Requests
  BY <1>1, <1>2, Clamps, ModRange DEF BmTypeOK, Requests
<1>4. PhaseInv'
  BY <1>1, <1>2, Params DEF PhaseInv, Busy, Still
<1>5. QED
  BY <1>1, <1>2, <1>3, <1>4, MoveStep DEF BmTypeOK, Pcs, Collected, Still

LEMMA WaitingStep ==
    ASSUME BmInv, Collect
    PROVE  BmInv' /\ Windowed
<1>1. pc = "wait" /\ status[slot] # "running"
  BY DEF Collect, Wait
<1>2. BmTypeOK /\ PhaseInv /\ slot \in Requests
  BY <1>1 DEF BmInv, BmTypeOK
<1>3. nireq \in Nat \ {0} /\ niter \in Nat \ {0}
  BY <1>2, Clamps DEF BmTypeOK
<1>4. CASE Throws
  BY <1>4, ThrowsStep
<1>5. CASE /\ status' = [status EXCEPT ![slot] = "idle"] /\ Goto("collected")
           /\ UNCHANGED <<setup, slot, ring, device, busy, report>>
  <2>1. slot = done % nireq /\ Async /\ done < niter /\ launched = Smaller(done + nireq, niter)
    BY <1>1, <1>2 DEF PhaseInv
  <2>2. slot = Ring(done + 1) /\ done < launched
    BY <2>1, <1>2, <1>3 DEF Ring, Smaller, BmTypeOK
  <2>3. pc' = "collected" /\ exit' = exit /\ UNCHANGED <<setup, slot, ring, device, busy>>
    BY <1>5 DEF Goto
  <2>4. QED
    BY <2>2, <2>3, <1>1, <1>2, <1>5, ReturnStep
<1>6. QED
  BY <1>4, <1>5 DEF Collect, Wait

LEMMA MeasureOldestStep ==
    ASSUME BmInv, MeasureOldest
    PROVE  BmInv' /\ Windowed
<1>1. pc = "collected" /\ Measure /\ pc' = "restart" /\ exit' = exit
  BY DEF MeasureOldest, Goto
<1>2. BmTypeOK /\ PhaseInv
  BY <1>1 DEF BmInv
<1>3. nireq \in Nat \ {0} /\ niter \in Nat \ {0}
  BY <1>2, Clamps DEF BmTypeOK
<1>4. UNCHANGED <<cl, count, status, slot, launched>> /\ done' = done + 1
  BY <1>1 DEF Measure, setup
<1>5. /\ done < niter /\ slot = done % nireq /\ launched = Smaller(done + nireq, niter)
      /\ Async /\ ~Busy(slot) /\ \A r \in Requests : status[r] # "none"
  BY <1>1, <1>2 DEF PhaseInv
<1>6. done < launched /\ launched <= niter /\ launched <= done + nireq
  BY <1>2, <1>3, <1>5 DEF Smaller, BmTypeOK
<1>7. done' \in 1..niter /\ done' - 1 = done
  BY <1>2, <1>3, <1>4, <1>5 DEF BmTypeOK
<1>8. PhaseInv'
  BY <1>1, <1>2, <1>4, <1>5, <1>7, Params DEF PhaseInv, Busy
<1>9. QED
  BY <1>1, <1>6, <1>8, CollectStep

LEMMA RestartStep ==
    ASSUME BmInv, Restart
    PROVE  BmInv' /\ Windowed
<1>1. pc = "restart" /\ launched < niter
  BY DEF Restart
<1>2. BmTypeOK /\ PhaseInv /\ slot \in Requests
  BY <1>1 DEF BmInv, BmTypeOK
<1>3. nireq \in Nat \ {0} /\ niter \in Nat \ {0}
  BY <1>2, Clamps DEF BmTypeOK
<1>4. /\ done \in 1..niter /\ slot = (done - 1) % nireq /\ Async /\ ~Busy(slot)
      /\ launched = Smaller(done - 1 + nireq, niter) /\ \A r \in Requests : status[r] # "none"
  BY <1>1, <1>2 DEF PhaseInv
<1>5. launched = done - 1 + nireq /\ done - 1 \in Nat
  BY <1>1, <1>2, <1>3, <1>4 DEF Smaller
<1>6. slot = Ring(launched + 1)
  <2>1. (launched + 1) - 1 = (done - 1) + nireq
    BY <1>2, <1>3, <1>5 DEF BmTypeOK
  <2>2. ((done - 1) + nireq) % nireq = (done - 1) % nireq
    BY <1>3, <1>5, ModRound
  <2>3. QED
    BY <2>1, <2>2, <1>4 DEF Ring
<1>7. status[slot] = "idle"
  BY <1>2, <1>4 DEF Busy, BmTypeOK
<1>8. CASE Refuse(slot)
  BY <1>2, <1>7, <1>8, RefuseStep
<1>9. CASE Begin(slot) /\ Goto("loop")
  <2>1. pc' = "loop" /\ exit' = exit
    BY <1>9 DEF Goto
  <2>2. UNCHANGED <<cl, count, slot, done>> /\ launched' = launched + 1
    BY <1>9 DEF Begin, setup
  <2>3. \A q \in Requests : status'[q] # "none"
    BY <1>2, <1>4, <1>9 DEF Begin, BmTypeOK
  <2>4. PhaseInv'
    <3>1. UNCHANGED <<nireq, niter, Async, Requests>>
      BY <2>2, Params
    <3>2. done <= niter /\ launched' = Smaller(done + nireq, niter)
      BY <2>2, <1>1, <1>2, <1>3, <1>4, <1>5 DEF Smaller, BmTypeOK
    <3>3. QED
      BY <2>1, <2>2, <2>3, <3>1, <3>2, <1>4 DEF PhaseInv, Smaller
  <2>5. launched - done < nireq
    BY <1>2, <1>3, <1>5 DEF BmTypeOK
  <2>6. QED
    BY <2>1, <2>4, <2>5, <1>1, <1>2, <1>6, <1>9, LaunchStep
<1>10. QED
  BY <1>8, <1>9 DEF Restart

LEMMA RestStep ==
    ASSUME BmInv, Rest
    PROVE  BmInv' /\ Windowed
<1>1. /\ pc = "restart" /\ pc' = "loop" /\ launched >= niter
      /\ Still /\ UNCHANGED <<count, slot, launched, done>>
  BY DEF Rest, Goto, Still, setup, ring
<1>2. BmTypeOK /\ PhaseInv /\ nireq \in Nat \ {0} /\ niter \in Nat \ {0}
  BY <1>1, Clamps DEF BmInv, BmTypeOK
<1>3. done <= niter /\ launched = Smaller(done + nireq, niter)
  BY <1>1, <1>2 DEF PhaseInv, Smaller, BmTypeOK
<1>4. PhaseInv'
  BY <1>1, <1>2, <1>3, Params DEF PhaseInv, Busy, Still
<1>5. QED
  BY <1>1, <1>2, <1>4, MoveStep DEF BmTypeOK, Pcs, Collected, Still

LEMMA StatisticsStep ==
    ASSUME BmInv, Statistics
    PROVE  BmInv' /\ Windowed
<1>1. /\ pc' = "end" /\ exit' = "ok"
      /\ UNCHANGED <<setup, status, slot, launched, done, start_times, number, begun, device, busy>>
  BY DEF Statistics, Return
<1>2. BmInv'
  BY <1>1, EndStep
<1>3. QED
  BY <1>1, <1>2, Unwindowed DEF setup
-----------------------------------------------------------------------------
LEMMA NextStep ==
    ASSUME BmInv, BmNext
    PROVE  BmInv' /\ Windowed
<1>1. CASE Program
  BY <1>1, ParseArgsStep, LoadStep, CreateStep, CreatedStep, WarmupStep, WarmStep,
     SyncBeginStep, SyncInferStep, SyncMeasureStep, SyncedStep, PrimeStep, PrimedStep, TurnStep,
     WaitingStep, MeasureOldestStep, RestartStep, RestStep, DrainedStep, StatisticsStep
     DEF Program
<1>2. ASSUME NEW r \in Requests, Complete(r)
      PROVE  BmInv' /\ Windowed
  BY <1>2, CompleteStep, Unwindowed DEF Complete, setup, ring
<1>3. QED
  BY <1>1, <1>2 DEF BmNext

LEMMA StutterStep ==
    ASSUME BmInv, UNCHANGED bmVars
    PROVE  BmInv' /\ Windowed
<1>1. UNCHANGED <<cl, pc, exit, count, status, slot, launched, done, start_times, latencies, now,
                  number, begun, finished, busy>>
  BY DEF bmVars
<1>2. CASE pc = "end"
  <2>1. UNCHANGED <<Requests, Inferences>>
    BY <1>1, Params
  <2>2. QED
    BY <2>1, <1>1, <1>2, Unwindowed DEF BmInv, BmTypeOK, NeverBusy
<1>3. CASE pc # "end"
  <2>1. PhaseInv'
    BY <1>1, <1>3, Params DEF BmInv, PhaseInv, Busy
  <2>2. QED
    BY <2>1, <1>1, <1>3, MoveStep DEF BmInv, BmTypeOK, Pcs, Collected, ring, device
<1>4. QED
  BY <1>2, <1>3
-----------------------------------------------------------------------------
LEMMA InitInv ==
    ASSUME BmInit
    PROVE  BmInv
<1>1. /\ cl \in CommandLines /\ pc = "args" /\ exit = "none" /\ count = 0 /\ slot = 0
      /\ status = [r \in Requests |-> "none"] /\ number = [r \in Requests |-> 0]
      /\ launched = 0 /\ done = 0 /\ latencies = <<>> /\ now = 0 /\ busy = FALSE
      /\ start_times = [r \in Requests |-> 0]
      /\ begun = [k \in Inferences |-> 0] /\ finished = [k \in Inferences |-> 0]
  BY DEF BmInit, Fresh
<1>2. nireq \in Nat \ {0} /\ niter \in Nat \ {0} /\ 0 \in Requests
  BY <1>1, Clamps DEF Requests
<1>3. BmTypeOK /\ NeverBusy
  <2>1. /\ status \in [Requests -> {"none", "idle", "running", "ready"}]
        /\ number \in [Requests -> Nat] /\ start_times \in [Requests -> Nat]
        /\ begun \in [Inferences -> Nat] /\ finished \in [Inferences -> Nat]
    BY <1>1
  <2>2. latencies \in Seq(Int)
    BY <1>1
  <2>3. QED
    BY <1>1, <1>2, <2>1, <2>2 DEF BmTypeOK, NeverBusy
<1>4. \A r \in Requests : ~Busy(r)
  BY <1>1 DEF Busy
<1>5. PhaseInv
  BY <1>1, <1>4 DEF PhaseInv
<1>6. Collected = 0
  BY <1>1 DEF Collected
<1>7. RingInv
  BY <1>1, <1>4, <1>6 DEF RingInv
<1>8. ClockInv
  <2>1. ASSUME NEW v \in {"running", "ready"}
        PROVE  {x \in DOMAIN status : status[x] = v} = {}
    BY <1>1, <2>1
  <2>2. HowMany(status, "running") = 0 /\ HowMany(status, "ready") = 0
    BY <2>1, FS_EmptySet DEF HowMany
  <2>3. QED
    BY <2>2, <1>1, <1>6 DEF ClockInv
<1>9. TimeInv
  BY <1>1, <1>2 DEF TimeInv
<1>10. QED
  BY <1>3, <1>5, <1>7, <1>8, <1>9 DEF BmInv

LEMMA Inductive == BmSafety => []BmInv
<1>1. BmInit => BmInv
  BY InitInv
<1>2. BmInv /\ [BmNext]_bmVars => BmInv'
  BY NextStep, StutterStep
<1>3. QED
  BY <1>1, <1>2, PTL DEF BmSafety

\* The variables of the benchmark keep their types.
THEOREM BmTypeCorrect == BmSafety => []BmTypeOK
<1>1. BmInv => BmTypeOK
  BY DEF BmInv
<1>2. QED
  BY <1>1, Inductive, PTL

\* No request is started while it is busy (benchmark.cpp:171, 183-187), however
\* many requests and inferences there are and however they complete.
THEOREM NeverStartsBusy == BmSafety => []NeverBusy
<1>1. BmInv => NeverBusy
  BY DEF BmInv
<1>2. QED
  BY <1>1, Inductive, PTL

\* Every latency is the one of its own inference and is bounded by the size of
\* the ring (benchmark.cpp:177-182).
THEOREM LatenciesMeasured == BmSafety => []EachMeasured
<1>1. BmInv => EachMeasured
  BY DEF BmInv, TimeInv, EachMeasured
<1>2. QED
  BY <1>1, Inductive, PTL

\* The benchmark implements the window: nireq inferences at most are between
\* launch and collection, and each is launched and collected once
\* (benchmark.cpp:166-188).
THEOREM WindowImplemented == BmSafety => ImplementsWindow
<1>1. BmInit => W!Init
  BY InitInv, Clamps DEF BmInit, Fresh, W!Init
<1>2. BmInv /\ [BmNext]_bmVars => [W!Next]_<<niter, nireq, launched, done>>
  BY NextStep, StutterStep DEF Windowed, W!Next
<1>3. QED
  BY <1>1, <1>2, Inductive, PTL DEF BmSafety, ImplementsWindow, W!Spec
-----------------------------------------------------------------------------
\* std::sort puts the values in order (benchmark.cpp:195).
LEMMA SortedInOrder ==
    ASSUME NEW v \in Seq(Int)
    PROVE  /\ Sorted(v) \in Seq(Int) /\ Len(Sorted(v)) = Len(v)
           /\ \A k, l \in 1..Len(v) : k <= l => Sorted(v)[k] <= Sorted(v)[l]
<1> DEFINE D == DOMAIN v
           Below(x) == {j \in D : v[j] < x}
           Upto(x) == {j \in D : v[j] <= x}
           Values == {v[j] : j \in D}
           Is(k, x) == Cardinality(Below(x)) < k /\ k <= Cardinality(Upto(x))
<1>1. D = 1..Len(v) /\ Len(v) \in Nat /\ \A j \in D : v[j] \in Int
  OBVIOUS
<1>2. IsFiniteSet(D) /\ Cardinality(D) = Len(v)
  BY <1>1, FS_Interval
<1>3. Sorted(v) = [k \in 1..Len(v) |-> CHOOSE x \in Values : Is(k, x)]
  BY DEF Sorted
<1>4. ASSUME NEW k \in 1..Len(v)
      PROVE  Sorted(v)[k] \in Values /\ Is(k, Sorted(v)[k])
  <2>1. \E x \in D : Is(k, v[x])
    <3>1. PICK x \in D : Cardinality(Under(D, v, x)) < k /\ k <= Cardinality(UpTo(D, v, x))
      BY <1>1, <1>2, Ranked
    <3>2. Under(D, v, x) = Below(v[x]) /\ UpTo(D, v, x) = Upto(v[x])
      BY DEF Under, UpTo
    <3>3. QED
      BY <3>1, <3>2
  <2>2. \E x \in Values : Is(k, x)
    BY <2>1
  <2> HIDE DEF Is, Values
  <2>3. QED
    BY <1>3, <2>2
<1>5. Values \subseteq Int
  BY <1>1
<1>6. Sorted(v) \in [1..Len(v) -> Int]
  <2> HIDE DEF Is, Values
  <2>1. QED
    BY <1>3, <1>4, <1>5
<1>7. ASSUME NEW k \in 1..Len(v), NEW l \in 1..Len(v), k <= l
      PROVE  Sorted(v)[k] <= Sorted(v)[l]
  <2> DEFINE a == Sorted(v)[k]
             b == Sorted(v)[l]
  <2>1. a \in Int /\ b \in Int /\ Is(k, a) /\ Is(l, b)
    <3> HIDE DEF Is, Values
    <3>1. QED
      BY <1>4, <1>5
  <2>2. ASSUME b < a
        PROVE  FALSE
    <3>1. Upto(b) \in SUBSET Below(a) /\ Below(a) \in SUBSET D
      BY <1>1, <2>1, <2>2, SMTT(30)
    <3> HIDE DEF Upto, Below, a, b, D
    <3>2. /\ Cardinality(Upto(b)) <= Cardinality(Below(a))
          /\ Cardinality(Upto(b)) \in Nat /\ Cardinality(Below(a)) \in Nat
      BY <1>2, <3>1, Fewer
    <3>3. QED
      BY <1>7, <2>1, <3>2
  <2>3. QED
    BY <2>1, <2>2
<1>8. QED
  BY <1>1, <1>6, <1>7

LEMMA Products ==
    ASSUME NEW a \in Nat, NEW p \in Nat, NEW q \in Nat, p <= q
    PROVE  a * p \in Nat /\ a * q \in Nat /\ a * p <= a * q
BY Z3

\* The point that is p hundredths of the way from a to b.
LEMMA Between ==
    ASSUME NEW a \in Int, NEW b \in Int, a <= b, NEW p \in 0..100, NEW q \in 0..100, p <= q
    PROVE  /\ a * (100 - p) + b * p \in Int /\ a * (100 - q) + b * q \in Int
           /\ 100 * a <= a * (100 - p) + b * p
           /\ a * (100 - p) + b * p <= a * (100 - q) + b * q
           /\ a * (100 - q) + b * q <= 100 * b
<1> DEFINE d == b - a
<1>1. d \in Nat /\ 100 * b = 100 * a + d * 100
  OBVIOUS
<1>2. \A f \in 0..100 : a * (100 - f) + b * f = 100 * a + d * f
  BY Z3
<1>3. p \in Nat /\ q \in Nat /\ 100 \in Nat /\ q <= 100 /\ p <= 100
  OBVIOUS
<1> HIDE DEF d
<1>4. d * p \in Nat /\ d * q \in Nat /\ d * p <= d * q /\ d * q <= d * 100
  BY <1>1, <1>3, Products
<1>5. a * (100 - p) + b * p = 100 * a + d * p /\ a * (100 - q) + b * q = 100 * a + d * q
  BY <1>2
<1>6. QED
  BY <1>1, <1>4, <1>5, SMTT(30)

\* It lies between the two.
LEMMA BetweenTwo ==
    ASSUME NEW a \in Int, NEW b \in Int, a <= b, NEW p \in 0..100
    PROVE  LET x == a * (100 - p) + b * p IN x \in Int /\ 100 * a <= x /\ x <= 100 * b
<1>1. p <= p
  OBVIOUS
<1>2. QED
  BY <1>1, Between, ZenonT(60)

\* Where the r-th percentile of n + 1 values lies, counted from 0: in the last place at
\* most.
LEMMA Position ==
    ASSUME NEW n \in Nat, NEW r \in 0..100
    PROVE  /\ r * n \in Nat
           /\ (r * n) \div 100 \in 0..n /\ (r * n) % 100 \in 0..99
           /\ r * n = 100 * ((r * n) \div 100) + ((r * n) % 100)
<1> DEFINE x == r * n
           lo == x \div 100
           frac == x % 100
<1>1. r \in Nat /\ 100 \in Nat /\ r <= 100
  OBVIOUS
<1>2. n * r \in Nat /\ n * r <= n * 100
  BY <1>1, Products
<1>3. x = n * r
  BY Z3
<1>4. x \in Nat /\ x <= 100 * n
  BY <1>2, <1>3
<1> HIDE DEF x
<1>5. lo \in Int /\ frac \in 0..99 /\ x = 100 * lo + frac
  <2>1. 100 \in Nat \ {0}
    OBVIOUS
  <2>2. lo \in Int /\ frac \in 0..(100 - 1) /\ x = 100 * lo + frac
    BY <1>4, <2>1, DivMod
  <2>3. QED
    BY <2>2
<1> HIDE DEF lo, frac
<1>6. lo \in 0..n
  BY <1>4, <1>5
<1>7. QED
  BY <1>4, <1>5, <1>6 DEF lo, frac, x

LEMMA Positions ==
    ASSUME NEW n \in Nat, NEW p \in 0..100, NEW q \in 0..100, p <= q
    PROVE  /\ (p * n) \div 100 <= (q * n) \div 100
           /\ (p * n) \div 100 = (q * n) \div 100 => (p * n) % 100 <= (q * n) % 100
<1> DEFINE x == p * n
           y == q * n
           i == x \div 100
           j == y \div 100
           f == x % 100
           g == y % 100
<1>1. x <= y
  <2>1. p \in Nat /\ q \in Nat
    OBVIOUS
  <2>2. n * p <= n * q
    BY <2>1, Products
  <2>3. x = n * p /\ y = n * q
    BY Z3
  <2>4. QED
    BY <2>2, <2>3
<1>2. x \in Nat /\ i \in 0..n /\ f \in 0..99 /\ x = 100 * i + f
  BY Position, ZenonT(30)
<1>3. y \in Nat /\ j \in 0..n /\ g \in 0..99 /\ y = 100 * j + g
  BY Position, ZenonT(30)
<1> HIDE DEF x, y, i, j, f, g
<1>4. i <= j /\ (i = j => f <= g)
  BY <1>1, <1>2, <1>3
<1>5. QED
  BY <1>4 DEF x, y, i, j, f, g

\* The higher percentile of a sorted sequence is not the smaller one.
LEMMA PercentileInOrder ==
    ASSUME NEW v \in Seq(Int), Len(v) > 0,
           \A k, l \in 1..Len(v) : k <= l => v[k] <= v[l],
           NEW p \in 0..100, NEW q \in 0..100, p <= q
    PROVE  /\ Percentile(v, p) \in Int /\ Percentile(v, q) \in Int
           /\ 100 * v[1] <= Percentile(v, p)
           /\ Percentile(v, p) <= Percentile(v, q)
           /\ Percentile(v, q) <= 100 * v[Len(v)]
<1> DEFINE n == Len(v) - 1
           i == (p * n) \div 100
           j == (q * n) \div 100
           f == (p * n) % 100
           g == (q * n) % 100
           ii == Smaller(i + 1, n)
           jj == Smaller(j + 1, n)
           a == v[i + 1]
           b == v[ii + 1]
           c == v[j + 1]
           d == v[jj + 1]
           x == a * (100 - f) + b * f
           y == c * (100 - g) + d * g
<1>1. x = Percentile(v, p) /\ y = Percentile(v, q)
  BY DEF Percentile
<1>2. n \in Nat /\ Len(v) = n + 1
  OBVIOUS
<1> HIDE DEF n
<1>3. i \in 0..n /\ j \in 0..n /\ f \in 0..100 /\ g \in 0..100
  <2>1. i \in 0..n /\ j \in 0..n /\ f \in 0..99 /\ g \in 0..99
    BY <1>2, Position, ZenonT(30)
  <2> HIDE DEF i, j, f, g
  <2>2. QED
    BY <2>1
<1>4. i <= j /\ (i = j => f <= g)
  BY <1>2, Positions
<1> HIDE DEF i, j, f, g
<1>5. ii \in 0..n /\ jj \in 0..n /\ i <= ii /\ j <= jj /\ ii <= i + 1
  BY <1>2, <1>3 DEF Smaller
<1>6. i = j => ii = jj
  OBVIOUS
<1> HIDE DEF ii, jj
<1>7. /\ a \in Int /\ b \in Int /\ c \in Int /\ d \in Int
      /\ a <= b /\ c <= d /\ v[1] <= a /\ d <= v[Len(v)]
      /\ v[1] \in Int /\ v[Len(v)] \in Int
  BY <1>2, <1>3, <1>5
<1>8. (i = j => a = c /\ b = d) /\ (i < j => b <= c)
  <2>1. CASE i = j
    BY <1>6, <2>1, <1>3
  <2>2. CASE i < j
    <3>1. ii + 1 <= j + 1 /\ ii + 1 \in 1..Len(v) /\ j + 1 \in 1..Len(v)
      BY <1>2, <1>3, <1>5, <2>2
    <3>2. QED
      BY <1>3, <2>2, <3>1
  <2>3. QED
    BY <1>3, <1>4, <2>1, <2>2
<1> HIDE DEF a, b, c, d
<1>9. x \in Int /\ 100 * a <= x /\ x <= 100 * b
  BY <1>3, <1>7, BetweenTwo, ZenonT(60)
<1>10. y \in Int /\ 100 * c <= y /\ y <= 100 * d
  BY <1>3, <1>7, BetweenTwo, ZenonT(60)
<1>11. i = j => x <= y
  <2>1. SUFFICES ASSUME i = j
                 PROVE  x <= y
    OBVIOUS
  <2>2. a * (100 - f) + b * f <= a * (100 - g) + b * g
    BY <1>3, <1>4, <1>7, <2>1, Between
  <2>3. a = c /\ b = d
    BY <1>8, <2>1
  <2>4. QED
    BY <2>2, <2>3
<1> HIDE DEF x, y
<1>12. x <= y
  BY <1>3, <1>4, <1>7, <1>8, <1>9, <1>10, <1>11
<1>13. 100 * v[1] <= x /\ y <= 100 * v[Len(v)]
  BY <1>7, <1>9, <1>10
<1>14. QED
  BY <1>1, <1>9, <1>10, <1>12, <1>13

\* The exit code is that of the step that ended the program.
ReportInv ==
    /\ BmInv
    /\ pc # "end" => exit = "none"
    /\ ReportInOrder

LEMMA StatisticsReports ==
    ASSUME BmInv, Statistics
    PROVE  ReportInOrder'
<1> DEFINE s == Sorted(latencies)
<1>1. latencies \in Seq(Int) /\ done = niter /\ Len(latencies) = niter /\ niter \in Nat \ {0}
  BY Clamps DEF BmInv, BmTypeOK, PhaseInv, TimeInv, Statistics
<1>2. /\ s \in Seq(Int) /\ Len(s) = niter
      /\ \A k, l \in 1..Len(s) : k <= l => s[k] <= s[l]
  BY <1>1, SortedInOrder
<1>3. latencies' = s /\ UNCHANGED <<done, cl, niter>>
  BY DEF Statistics, setup, niter
<1>4. report' = <<100 * s[1], Percentile(s, 50), Percentile(s, 90), Percentile(s, 99),
                  100 * s[Len(s)]>>
  BY <1>1, <1>2, <1>3 DEF Statistics
<1> HIDE DEF s
<1>5. /\ 100 * s[1] <= Percentile(s, 50) /\ Percentile(s, 50) <= Percentile(s, 90)
      /\ Percentile(s, 50) \in Int /\ Percentile(s, 90) \in Int
  <2>1. 50 \in 0..100 /\ 90 \in 0..100 /\ 50 <= 90 /\ Len(s) > 0
    BY <1>1, <1>2
  <2>2. QED
    BY <1>2, <2>1, PercentileInOrder, ZenonT(30)
<1>6. /\ Percentile(s, 90) <= Percentile(s, 99) /\ Percentile(s, 99) <= 100 * s[Len(s)]
      /\ Percentile(s, 99) \in Int
  <2>1. 90 \in 0..100 /\ 99 \in 0..100 /\ 90 <= 99 /\ Len(s) > 0
    BY <1>1, <1>2
  <2>2. QED
    BY <1>2, <2>1, PercentileInOrder, ZenonT(30)
<1>7. \A i, j \in 1..5 : i <= j => report'[i] <= report'[j]
  <2> DEFINE a == 100 * s[1]
             b == Percentile(s, 50)
             c == Percentile(s, 90)
             d == Percentile(s, 99)
             e == 100 * s[Len(s)]
  <2>1. s[1] \in Int /\ s[Len(s)] \in Int
    BY <1>1, <1>2
  <2>2. a \in Int /\ b \in Int /\ c \in Int /\ d \in Int /\ e \in Int
    BY <1>5, <1>6, <2>1
  <2>3. a <= b /\ b <= c /\ c <= d /\ d <= e /\ report' = <<a, b, c, d, e>>
    BY <1>4, <1>5, <1>6
  <2> HIDE DEF a, b, c, d, e
  <2>4. QED
    BY <2>2, <2>3
<1>8. QED
  BY <1>1, <1>2, <1>3, <1>7 DEF ReportInOrder

\* Every other step leaves the exit code as it is, or ends the program without one that
\* says that a benchmark has run.
LEMMA OtherExits ==
    ASSUME BmInv, BmNext, ~Statistics
    PROVE  /\ pc # "end"
           /\ \/ exit' = exit
              \/ pc' = "end" /\ exit' # "ok"
              \/ pc' = "end" /\ cl.kind # "run" /\ UNCHANGED cl
<1> USE DEF Return, Goto, Throws, Refuse, Wait
<1>1. CASE ParseArgs
  <2>1. CASE cl.kind = "run"
    BY <1>1, <2>1 DEF ParseArgs
  <2>2. CASE cl.kind # "run"
    BY <1>1, <2>2, KindTypes DEF ParseArgs, setup
  <2>3. QED
    BY <2>1, <2>2
<1>2. CASE Load \/ Create \/ Created \/ Warmup \/ Warm
  BY <1>2 DEF Load, Create, Created, Warmup, Warm
<1>3. CASE SyncBegin \/ SyncInfer \/ SyncMeasure \/ Synced
  BY <1>3 DEF SyncBegin, SyncInfer, SyncMeasure, Synced
<1>4. CASE Prime \/ Primed \/ Turn \/ Collect
  BY <1>4 DEF Prime, Primed, Turn, Collect
<1>5. CASE MeasureOldest \/ Restart \/ Rest \/ Drained
  BY <1>5 DEF MeasureOldest, Restart, Rest, Drained
<1>6. CASE \E r \in Requests : Complete(r)
  BY <1>6 DEF Complete
<1>7. QED
  BY <1>1, <1>2, <1>3, <1>4, <1>5, <1>6 DEF BmNext, Program

\* What the program prints is in order (benchmark.cpp:81, 195-210), for any number of
\* inferences and whatever they take.
THEOREM ReportsInOrder == BmSafety => []ReportInOrder
<1>1. BmInit => ReportInv
  BY InitInv DEF BmInit, Fresh, ReportInv, ReportInOrder
<1>2. ReportInv /\ [BmNext]_bmVars => ReportInv'
  <2>1. ASSUME ReportInv, BmNext
        PROVE  ReportInv'
    <3>1. CASE Statistics
      BY <2>1, <3>1, NextStep, StatisticsReports DEF ReportInv, Statistics, Return
    <3>2. CASE ~Statistics
      BY <2>1, <3>2, NextStep, OtherExits DEF ReportInv, ReportInOrder
    <3>3. QED
      BY <3>1, <3>2
  <2>2. ASSUME ReportInv, UNCHANGED bmVars
        PROVE  ReportInv'
    <3>1. UNCHANGED <<pc, exit, cl, done, latencies, report, niter>>
      BY <2>2 DEF bmVars, niter
    <3>2. QED
      BY <2>2, <3>1, StutterStep DEF ReportInv, ReportInOrder
  <2>3. QED
    BY <2>1, <2>2
<1>3. ReportInv => ReportInOrder
  BY DEF ReportInv
<1>4. QED
  BY <1>1, <1>2, <1>3, PTL DEF BmSafety
=============================================================================
