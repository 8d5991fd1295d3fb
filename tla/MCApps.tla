------------------------------- MODULE MCApps -------------------------------
(***************************************************************************)
(* One of the programs of the board is started at a time.                  *)
(***************************************************************************)
EXTENDS Benchmark, Detect

Bench(n, w, r, a) == [kind |-> "run", niter |-> n, nwarmup |-> w, nireq |-> r, async |-> a]
MCCommandLines ==
    {Bench(0, 1, -1, TRUE), Bench(3, -1, 2, FALSE), Bench(2, 1, 3, TRUE), Bench(5, 0, 2, TRUE),
     Bench(6, 0, 3, TRUE), Bench(5, 0, 4, TRUE)}
    \cup {[Bench(1, 0, 1, FALSE) EXCEPT !.kind = k] :
              k \in {"help", "unknown", "no number", "no model"}}

Row(id, sure, x1, y1, x2, y2) ==
    [id |-> id, sure |-> sure, x1 |-> x1, y1 |-> y1, x2 |-> x2, y2 |-> y2]
Picture(path, name, readable, picture, rows) ==
    [path |-> path, name |-> name, readable |-> readable, picture |-> picture,
     w |-> 4, h |-> 3, rows |-> rows]

\* A box across the border, one beyond it, one that ends before it begins, an
\* uncertain one, a row without an image between two good ones.
Street == Picture(1, "street", TRUE, TRUE,
    <<Row(0, TRUE, -3, 2, 5, 12), Row(0, FALSE, 1, 1, 9, 9), Row(-1, TRUE, 1, 1, 9, 9),
      Row(0, TRUE, 11, 0, 15, 9), Row(0, TRUE, 4, 0, 9, 9)>>)
Square == Picture(2, "square", TRUE, TRUE, <<Row(0, TRUE, 6, 1, 3, 9)>>)
Torn == Picture(3, "torn", FALSE, TRUE, <<>>)
OtherStreet == Picture(4, "street", TRUE, FALSE, <<Row(0, TRUE, 0, 0, 9, 9)>>)

\* There is no file of such a name.
MCArgument == Picture(5, "--help", FALSE, FALSE, <<>>)

MCScanned == {Street, Square, Torn, OtherStreet}

Detection(program, kind, images) ==
    [program |-> program, kind |-> kind, images |-> images, listDevices |-> FALSE,
     model |-> TRUE]
Hello(kind, listDevices, model) ==
    [program |-> "vino-hello", kind |-> kind, images |-> <<>>, listDevices |-> listDevices,
     model |-> model]
MCRequested ==
    {Detection(d, k, i) :
        d \in Detectors, k \in {"run", "help", "unknown"},
        i \in {<<>>, <<Torn>>, <<Street, OtherStreet>>, <<Square, OtherStreet, Street>>}}
    \cup {Hello("run", l, m) : l \in BOOLEAN, m \in BOOLEAN}
    \cup {Hello("help", FALSE, FALSE), Hello("unknown", FALSE, TRUE)}

AppsInit ==
    \/ BmInit /\ request = Hello("help", FALSE, FALSE) /\ at = "end" /\ Blank
    \/ DtInit /\ cl = Bench(0, 1, -1, TRUE) /\ pc = "end" /\ Fresh
AppsNext ==
    \/ BmNext /\ UNCHANGED dtVars
    \/ DtNext /\ UNCHANGED bmVars
AppsSpec == AppsInit /\ [][AppsNext]_<<bmVars, dtVars>> /\ BmFairness
=============================================================================
