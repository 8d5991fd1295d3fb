------------------------------ MODULE Benchmark ------------------------------
(***************************************************************************)
(* The OpenVINO benchmark (openvino-benchmark/src/benchmark.cpp): it       *)
(* compiles a model, creates inference requests and measures how long      *)
(* inferences take, one after the other or as a ring of requests that run  *)
(* at the same time and complete in any order.                             *)
(*                                                                         *)
(* Time is counted in completed inferences: a latency of k means that k of *)
(* them completed between the two readings of the clock.  An exception of  *)
(* the library can end the program wherever it calls the library.          *)
(***************************************************************************)
EXTENDS Integers, Sequences, FiniteSets

CONSTANT CommandLines   \* what parse_args may be given

CommandLine ==
    [kind : {"run", "help", "unknown", "no number", "no model"},
     niter : Int, nwarmup : Int, nireq : Int, async : BOOLEAN]

ASSUME CommandLinesAssumption == CommandLines \subseteq CommandLine

VARIABLES
    cl,         \* the command line
    pc,         \* the part of main that is next
    exit,       \* the exit code: "ok" (0), "error" (1) or "abort"; "none" while it runs
    count,      \* the loop variable i of the loops before the benchmark
    status,     \* of each request: "none", "idle", "running" or "ready"
    slot,       \* the variable r: the request the pipeline turns to
    launched, done, start_times, latencies,
    now,        \* the clock
    number,     \* history: the inference each request was started for last
    begun,      \* history: when each inference was launched, ...
    finished,   \* ... and when it completed
    busy,       \* history: whether a request was started that was not idle
    report      \* the statistics printed, in hundredths of the unit of time

bmVars == <<cl, pc, exit, count, status, slot, launched, done, start_times, latencies, now,
            number, begun, finished, busy, report>>

AtLeast(n, low) == IF n < low THEN low ELSE n
nireq == AtLeast(cl.nireq, 1)
niter == AtLeast(cl.niter, 1)
nwarmup == AtLeast(cl.nwarmup, 0)
Async == cl.async /\ nireq > 1
Requests == 0..(nireq - 1)
Inferences == 1..niter

\* The state of a program that has done nothing yet.
Fresh ==
    /\ exit = "none" /\ count = 0 /\ slot = 0
    /\ status = [r \in Requests |-> "none"]
    /\ number = [r \in Requests |-> 0]
    /\ launched = 0 /\ done = 0 /\ latencies = <<>>
    /\ start_times = [r \in Requests |-> 0]
    /\ now = 0 /\ busy = FALSE /\ report = <<>>
    /\ begun = [k \in Inferences |-> 0] /\ finished = [k \in Inferences |-> 0]

BmInit == cl \in CommandLines /\ pc = "args" /\ Fresh

setup == <<cl, count>>
ring == <<launched, done, start_times, latencies, number, begun>>
device == <<now, finished>>

Return(code) == pc' = "end" /\ exit' = code
Goto(p) == pc' = p /\ UNCHANGED exit

\* An exception of the library, which main catches; the one of stoi it does not.
Throws == Return("error") /\ UNCHANGED <<setup, status, slot, ring, device, busy, report>>

ParseArgs ==
    /\ pc = "args"
    /\ CASE cl.kind = "run" -> Goto("load")
         [] cl.kind = "help" -> Return("ok")
         [] cl.kind \in {"unknown", "no model"} -> Return("error")
         [] cl.kind = "no number" -> Return("abort")
    /\ UNCHANGED <<setup, status, slot, ring, device, busy, report>>

\* read_model and compile_model
Load ==
    /\ pc = "load"
    /\ \/ Goto("create") /\ UNCHANGED <<setup, status, slot, ring, device, busy, report>>
       \/ Throws

\* create_infer_request and fill_inputs, for one request.
Create ==
    /\ pc = "create" /\ count < nireq
    /\ \/ /\ status' = [status EXCEPT ![count] = "idle"] /\ count' = count + 1
          /\ UNCHANGED <<cl, pc, exit, slot, ring, device, busy, report>>
       \/ Throws
Created ==
    /\ pc = "create" /\ count = nireq
    /\ Goto("warmup") /\ count' = 0
    /\ UNCHANGED <<cl, status, slot, ring, device, busy, report>>

\* One reqs[0].infer() of the warm-up.
Warmup ==
    /\ pc = "warmup" /\ count < nwarmup
    /\ \/ /\ count' = count + 1
          /\ UNCHANGED <<cl, pc, exit, status, slot, ring, device, busy, report>>
       \/ Throws
Warm ==
    /\ pc = "warmup" /\ count = nwarmup
    /\ Goto(IF Async THEN "prime" ELSE "sync")
    /\ UNCHANGED <<setup, status, slot, ring, device, busy, report>>
-----------------------------------------------------------------------------
\* start_async() of an idle request: the device begins the next inference.
Begin(r) ==
    /\ status[r] = "idle"
    /\ start_times' = [start_times EXCEPT ![r] = now]
    /\ status' = [status EXCEPT ![r] = "running"]
    /\ number' = [number EXCEPT ![r] = launched + 1]
    /\ begun' = [begun EXCEPT ![launched + 1] = now]
    /\ launched' = launched + 1
    /\ UNCHANGED <<setup, slot, done, latencies, device, busy, report>>

\* It throws when the device fails, and always when the request is not idle.
Refuse(r) ==
    /\ Return("error") /\ busy' = (busy \/ status[r] # "idle")
    /\ UNCHANGED <<setup, status, slot, ring, device, report>>

\* The device completes any of the inferences that are running.
Complete(r) ==
    /\ pc # "end" /\ status[r] = "running"
    /\ status' = [status EXCEPT ![r] = "ready"]
    /\ now' = now + 1
    /\ finished' = [finished EXCEPT ![number[r]] = now + 1]
    /\ UNCHANGED <<setup, pc, exit, slot, ring, busy, report>>

\* wait() returns when the request is not running (any more), or throws what its
\* inference has thrown.
Wait(r, next) ==
    /\ status[r] # "running"
    /\ \/ /\ status' = [status EXCEPT ![r] = "idle"] /\ Goto(next)
          /\ UNCHANGED <<setup, slot, ring, device, busy, report>>
       \/ Throws

Measure ==
    /\ latencies' = Append(latencies, now - start_times[slot])
    /\ done' = done + 1
    /\ UNCHANGED <<setup, status, slot, launched, start_times, number, begun, device, busy, report>>
-----------------------------------------------------------------------------
\* The sync mode: reqs[0].infer(), which is start_async() and wait().
SyncBegin ==
    /\ pc = "sync" /\ done < niter
    /\ \/ Begin(0) /\ Goto("infer")
       \/ Refuse(0)
SyncInfer == pc = "infer" /\ Wait(0, "inferred")
SyncMeasure == pc = "inferred" /\ Measure /\ Goto("sync")
Synced ==
    /\ pc = "sync" /\ done = niter
    /\ Goto("statistics") /\ UNCHANGED <<setup, status, slot, ring, device, busy, report>>

\* The async mode: as many requests are started as there are, ...
Prime ==
    /\ pc = "prime" /\ launched < nireq /\ launched < niter
    /\ \/ Begin(launched) /\ UNCHANGED <<pc, exit>>
       \/ Refuse(launched)

\* Mutant of Primed: only a full ring is enough.
PrimedFull ==
    /\ pc = "prime" /\ launched >= nireq
    /\ Goto("loop") /\ UNCHANGED <<setup, status, slot, ring, device, busy, report>>

Primed ==
    /\ pc = "prime" /\ (launched >= nireq \/ launched >= niter)
    /\ Goto("loop") /\ UNCHANGED <<setup, status, slot, ring, device, busy, report>>

\* Mutants of Slot and Restart: the request after the oldest one; the request
\* after the collected one is started again; there is always one more inference.
NextSlot == (done + 1) % nireq
RestartNext ==
    /\ pc = "restart" /\ launched < niter
    /\ \/ Begin((slot + 1) % nireq) /\ Goto("loop")
       \/ Refuse((slot + 1) % nireq)
RestartAlways ==
    /\ pc = "restart"
    /\ \/ Begin(slot) /\ Goto("loop")
       \/ Refuse(slot)

\* ... and then they are waited for, measured and started again in ring order.
Slot == done % nireq

Turn ==
    /\ pc = "loop" /\ done < niter
    /\ slot' = Slot /\ Goto("wait")
    /\ UNCHANGED <<setup, status, ring, device, busy, report>>
Collect == pc = "wait" /\ Wait(slot, "collected")
MeasureOldest == pc = "collected" /\ Measure /\ Goto("restart")
Restart ==
    /\ pc = "restart" /\ launched < niter
    /\ \/ Begin(slot) /\ Goto("loop")
       \/ Refuse(slot)

Rest ==
    /\ pc = "restart" /\ launched >= niter
    /\ Goto("loop") /\ UNCHANGED <<setup, status, slot, ring, device, busy, report>>
Drained ==
    /\ pc = "loop" /\ done = niter
    /\ Goto("statistics") /\ UNCHANGED <<setup, status, slot, ring, device, busy, report>>
-----------------------------------------------------------------------------
Smaller(a, b) == IF a < b THEN a ELSE b

\* Mutant of Percentile: the weights of the two neighbours swapped.
SwappedPercentile(v, p) ==
    LET idx == p * (Len(v) - 1)
        lo == idx \div 100
        hi == Smaller(lo + 1, Len(v) - 1)
        frac == idx % 100
    IN v[lo + 1] * frac + v[hi + 1] * (100 - frac)

\* The p-th percentile of a sorted sequence, in hundredths: between its two
\* nearest members, which the code counts from 0.
Percentile(v, p) ==
    LET idx == p * (Len(v) - 1)
        lo == idx \div 100
        hi == Smaller(lo + 1, Len(v) - 1)
        frac == idx % 100
    IN v[lo + 1] * (100 - frac) + v[hi + 1] * frac

\* std::sort: in the k-th place is a value that has fewer than k below it, and at
\* least k up to it.
Sorted(v) ==
    [k \in 1..Len(v) |-> CHOOSE x \in {v[j] : j \in DOMAIN v} :
        /\ Cardinality({j \in DOMAIN v : v[j] < x}) < k
        /\ k <= Cardinality({j \in DOMAIN v : v[j] <= x})]

Statistics ==
    /\ pc = "statistics"
    /\ latencies' = Sorted(latencies)
    /\ report' = <<100 * latencies'[1], Percentile(latencies', 50), Percentile(latencies', 90),
                   Percentile(latencies', 99), 100 * latencies'[Len(latencies)]>>
    /\ Return("ok")
    /\ UNCHANGED <<setup, status, slot, launched, done, start_times, number, begun, device, busy>>

Program ==
    \/ ParseArgs \/ Load \/ Create \/ Created \/ Warmup \/ Warm
    \/ SyncBegin \/ SyncInfer \/ SyncMeasure \/ Synced
    \/ Prime \/ Primed \/ Turn \/ Collect \/ MeasureOldest \/ Restart \/ Rest \/ Drained
    \/ Statistics

BmNext == Program \/ \E r \in Requests : Complete(r)

\* The program runs, and while inferences are running the device completes one.
BmFairness == WF_bmVars(Program) /\ WF_bmVars(\E r \in Requests : Complete(r))

BmSafety == BmInit /\ [][BmNext]_bmVars
-----------------------------------------------------------------------------
\* No request is started while it is busy: start_async would throw, and the
\* benchmark end without a result, although nothing has failed
\* (benchmark.cpp:171, 183-187).
NeverBusy == ~busy

\* The k-th latency is the one of the k-th inference launched, although they
\* complete in any order (benchmark.cpp:177): it covers the inference and,
\* apart from it, at most what the other requests completed while it was under
\* way and until its turn came.
EachMeasured == pc # "end" =>
    \A k \in 1..done :
        /\ latencies[k] >= finished[k] - begun[k]
        /\ latencies[k] <= 2 * nireq - 1

\* A program that ends well has collected every inference once, and reports
\* min <= p50 <= p90 <= p99 <= max (benchmark.cpp:81, 195-210).
ReportInOrder == exit = "ok" /\ cl.kind = "run" =>
    /\ done = niter /\ Len(latencies) = niter
    /\ \A i, j \in 1..5 : i <= j => report[i] <= report[j]

\* The pipeline launches each inference once and collects each once, with at
\* most nireq of them under way (benchmark.cpp:166-188).
W == INSTANCE Window
ImplementsWindow == W!Spec

\* The program ends: it never waits for a request that was not started, also
\* when there are fewer inferences than requests (benchmark.cpp:171, 178).
BmEnds == <>(pc = "end")
=============================================================================
