------------------------------- MODULE Detect -------------------------------
(***************************************************************************)
(* The programs that run a model on the device: vino-detect (app/          *)
(* detection), the packaged openvino-detect (openvino-demo) that it        *)
(* mirrors, and vino-hello (app/hello).  The detectors annotate one        *)
(* picture after the other and save each under its file name.              *)
(*                                                                         *)
(* A picture is a record: its path (a number: paths are sorted), its file  *)
(* name, whether its extension is one that a scan takes, whether it can be *)
(* read, its size, and the rows that the model makes of it, with           *)
(* coordinates in tenths of the width and the height.  The content of      *)
(* pictures is left out.                                                   *)
(***************************************************************************)
EXTENDS Integers, Sequences, FiniteSets

CONSTANTS
    Requested,      \* what the programs may be given
    Argument,       \* --help or an unknown argument, as the path of a picture
    Scanned         \* the pictures of /usr/share/openvino-demo/images

\* detector.images: the pictures named, or <<>> to scan the directory.
Detectors == {"vino-detect", "openvino-detect"}

ASSUME RequestedAssumption ==
    \A q \in Requested :
        /\ q.program \in Detectors \cup {"vino-hello"}
        /\ q.kind \in {"run", "help", "unknown"}
        /\ q.listDevices \in BOOLEAN /\ q.model \in BOOLEAN
        /\ q.images \in Seq({q.images[k] : k \in DOMAIN q.images})

Pictures == Scanned \cup {Argument} \cup UNION {{q.images[k] : k \in DOMAIN q.images} : q \in Requested}
DetectionRow == [id : Int, sure : BOOLEAN, x1 : Int, y1 : Int, x2 : Int, y2 : Int]

\* What can be read has a size, and a directory has one file of a path.
ASSUME PicturesAssumption ==
    /\ IsFiniteSet(Scanned)
    /\ \A p, q \in Scanned : p.path \in Int /\ (p.path = q.path => p = q)
    /\ \A p \in Pictures : p.readable => /\ p.w \in Nat \ {0} /\ p.h \in Nat \ {0}
                                         /\ p.rows \in Seq(DetectionRow)

VARIABLES
    request,    \* the command line
    at,         \* the part of the program that is next
    code,       \* the exit code: "ok" (0), "error" (1) or "abort"; "none" while it runs
    todo,       \* the pictures left
    saved,      \* the output directory: file names and what was saved there
    listed,     \* whether vino-hello has listed the devices
    inferred    \* whether it has run an inference

dtVars == <<request, at, code, todo, saved, listed, inferred>>

Broken == [broken |-> TRUE]     \* a file that imwrite could not finish

Blank ==
    /\ code = "none" /\ todo = <<>> /\ saved = [n \in {} |-> 0]
    /\ listed = FALSE /\ inferred = FALSE

DtInit == request \in Requested /\ at = "args" /\ Blank

End(c) == at' = "end" /\ code' = c
Go(p) == at' = p /\ UNCHANGED code

\* vino-detect and vino-hello catch exceptions; openvino-detect is aborted.
Fails ==
    /\ End(IF request.program = "openvino-detect" THEN "abort" ELSE "error")
    /\ UNCHANGED <<request, todo, saved, listed, inferred>>
-----------------------------------------------------------------------------
\* openvino-detect goes on with every argument that it does not know as a picture.
DetectArgs ==
    /\ request.program \in Detectors /\ at = "args"
    /\ CASE request.kind = "run" \/ request.program = "openvino-detect" -> Go("collect")
         [] OTHER -> End(IF request.kind = "help" THEN "ok" ELSE "error")
    /\ UNCHANGED <<request, todo, saved, listed, inferred>>

\* std::sort: the k-th has k paths up to its own.
InOrder(pictures) ==
    [k \in 1..Cardinality(pictures) |->
        CHOOSE p \in pictures : Cardinality({q \in pictures : q.path <= p.path}) = k]

\* The pictures named: by openvino-detect also an argument that it does not know.
ImagePaths ==
    IF request.program = "openvino-detect" /\ request.kind # "run"
    THEN <<Argument>> \o request.images ELSE request.images

\* These, in the order given, or those of the directory, sorted.
CollectImages == IF ImagePaths # <<>> THEN ImagePaths ELSE InOrder({p \in Scanned : p.picture})

\* There may be no directory to scan, or no picture.
CollectStep ==
    /\ at = "collect"
    /\ \/ /\ todo' = CollectImages
          /\ IF CollectImages = <<>> THEN End("error") ELSE Go("mkdir")
          /\ UNCHANGED <<request, saved, listed, inferred>>
       \/ ImagePaths = <<>> /\ Fails

\* create_directories, then compile_model; either can throw.
CreateDirectories ==
    /\ at = "mkdir"
    /\ \/ Go("compile") /\ UNCHANGED <<request, todo, saved, listed, inferred>>
       \/ Fails
CompileModel ==
    /\ at = "compile"
    /\ \/ Go("images") /\ UNCHANGED <<request, todo, saved, listed, inferred>>
       \/ Fails
-----------------------------------------------------------------------------
\* static_cast<int>: towards zero.
Truncate(tenths) == IF tenths < 0 THEN -((-tenths) \div 10) ELSE tenths \div 10

\* Mutant of Clamp: a box may end outside of the picture.
ClampBelow(n, high) == IF n < 0 THEN 0 ELSE n

\* How vino-detect keeps a coordinate within the picture, and how openvino-detect
\* does: std::clamp(n, 0, high) and std::max(0, std::min(n, high)).
Clamp(n, high) == IF n < 0 THEN 0 ELSE IF n > high THEN high ELSE n

DemoClamp(n, high) ==
    LET least == IF n < high THEN n ELSE high IN IF least > 0 THEN least ELSE 0

Within(n, high, program) == IF program = "vino-detect" THEN Clamp(n, high) ELSE DemoClamp(n, high)

BoxOf(row, p, program) ==
    LET x1 == Within(Truncate(row.x1 * p.w), p.w - 1, program)
        y1 == Within(Truncate(row.y1 * p.h), p.h - 1, program)
        x2 == Within(Truncate(row.x2 * p.w), p.w - 1, program)
        y2 == Within(Truncate(row.y2 * p.h), p.h - 1, program)
    IN  [x |-> x1, y |-> y1, width |-> x2 - x1, height |-> y2 - y1]

\* A row without an image, with a low confidence or with an empty box is skipped, and
\* the rows go on.
Push(boxes, row, p, program) ==
    LET box == BoxOf(row, p, program)
    IN  IF row.id < 0 \/ ~row.sure \/ box.width <= 0 \/ box.height <= 0 THEN boxes
        ELSE Append(boxes, box)

\* The detections of a picture: what the loop over its rows has pushed.
Decode(p, program) ==
    LET Boxes[n \in 0..Len(p.rows)] ==
            IF n = 0 THEN <<>> ELSE Push(Boxes[n - 1], p.rows[n], p, program)
    IN  Boxes[Len(p.rows)]

DecodeDetections(p) == Decode(p, "vino-detect")
DemoDetections(p) == Decode(p, "openvino-detect")

Store(name, content) ==
    saved' = [n \in DOMAIN saved \cup {name} |-> IF n = name THEN content ELSE saved[n]]

\* Mutant of AnnotateAndWrite: a failure to write goes unnoticed.
WriteUnchecked(p) ==
    /\ Store(p.name, [of |-> p.path, boxes |-> DecodeDetections(p)]) \/ Store(p.name, Broken)
    /\ todo' = Tail(todo) /\ UNCHANGED <<request, at, code, listed, inferred>>

\* annotate_and_write: a failure ends the program.
AnnotateAndWrite(p) ==
    \/ /\ Store(p.name, [of |-> p.path, boxes |-> DecodeDetections(p)])
       /\ todo' = Tail(todo) /\ UNCHANGED <<request, at, code, listed, inferred>>
    \/ /\ End("error") /\ Store(p.name, Broken)
       /\ UNCHANGED <<request, todo, listed, inferred>>

\* An unreadable picture is warned of and left out; the inference can throw, and
\* so can the check of the shape of its result.
RunImage(p) ==
    /\ request.program = "vino-detect"
    /\ \/ ~p.readable /\ todo' = Tail(todo) /\ UNCHANGED <<request, at, code, saved, listed, inferred>>
       \/ p.readable /\ AnnotateAndWrite(p)
       \/ p.readable /\ Fails

\* openvino-detect does not look at what imwrite returns.
DemoRunImage(p) ==
    /\ request.program = "openvino-detect"
    /\ \/ /\ ~p.readable /\ UNCHANGED saved
       \/ /\ p.readable
          /\ \/ Store(p.name, [of |-> p.path, boxes |-> DemoDetections(p)])
             \/ Store(p.name, Broken) \/ UNCHANGED saved
    /\ todo' = Tail(todo)
    /\ UNCHANGED <<request, at, code, listed, inferred>>
DemoInferFails(p) == request.program = "openvino-detect" /\ p.readable /\ Fails

NextImage ==
    /\ at = "images" /\ todo # <<>>
    /\ RunImage(Head(todo)) \/ DemoRunImage(Head(todo)) \/ DemoInferFails(Head(todo))
ImagesDone ==
    /\ at = "images" /\ todo = <<>>
    /\ End("ok") /\ UNCHANGED <<request, todo, saved, listed, inferred>>
-----------------------------------------------------------------------------
\* vino-hello lists the devices, or runs one inference on a model, or both.
HelloArgs ==
    /\ request.program = "vino-hello" /\ at = "args"
    /\ CASE request.kind = "run" -> Go("core")
         [] request.kind = "help" -> End("ok")
         [] request.kind = "unknown" -> End("error")
    /\ UNCHANGED <<request, todo, saved, listed, inferred>>

ListDevices ==
    /\ at = "core" /\ request.listDevices
    /\ \/ /\ listed' = TRUE
          /\ IF request.model THEN Go("model") ELSE End("ok")
          /\ UNCHANGED <<request, todo, saved, inferred>>
       \/ Fails
NoList ==
    /\ at = "core" /\ ~request.listDevices
    /\ IF request.model THEN Go("model") ELSE End("error")
    /\ UNCHANGED <<request, todo, saved, listed, inferred>>

\* read_model, compile_model, fill_inputs and infer
HelloInfer ==
    /\ at = "model"
    /\ \/ /\ inferred' = TRUE /\ End("ok")
          /\ UNCHANGED <<request, todo, saved, listed>>
       \/ Fails

DtNext ==
    \/ DetectArgs \/ CollectStep \/ CreateDirectories \/ CompileModel \/ NextImage \/ ImagesDone
    \/ HelloArgs \/ ListDevices \/ NoList \/ HelloInfer

DtSafety == DtInit /\ [][DtNext]_dtVars
-----------------------------------------------------------------------------
Distance(a, b) == IF a < b THEN b - a ELSE a - b

\* The pixel of a picture that is nearest to a coordinate in tenths.
Nearest(tenths, size) ==
    CHOOSE c \in 0..(size - 1) : \A d \in 0..(size - 1) :
        Distance(c, Truncate(tenths * size)) <= Distance(d, Truncate(tenths * size))

\* What is drawn into a picture: the boxes that are sure and not empty there, the i-th
\* that of the i-th such row.
Cut(row, p) ==
    [x |-> Nearest(row.x1, p.w), y |-> Nearest(row.y1, p.h),
     width |-> Nearest(row.x2, p.w) - Nearest(row.x1, p.w),
     height |-> Nearest(row.y2, p.h) - Nearest(row.y1, p.h)]
Drawn(p) ==
    {k \in DOMAIN p.rows : /\ p.rows[k].id >= 0 /\ p.rows[k].sure
                           /\ Cut(p.rows[k], p).width > 0 /\ Cut(p.rows[k], p).height > 0}
Place(k, p) == Cardinality({j \in Drawn(p) : j <= k})
Expected(p) ==
    [i \in 1..Cardinality(Drawn(p)) |-> Cut(p.rows[CHOOSE k \in Drawn(p) : Place(k, p) = i], p)]

\* "image_id < 0 signals end-of-detections" (detect.cpp:81), but both loops skip such a
\* row and go on: whether what comes behind it is to be drawn, too, is left open.
BeforeEnd(p) == {k \in DOMAIN p.rows : \A j \in 1..k : p.rows[j].id >= 0}
Ended(p) == [p EXCEPT !.rows = SubSeq(@, 1, Cardinality(BeforeEnd(p)))]
Annotated(p) == [of : {p.path}, boxes : {Expected(p), Expected(Ended(p))}]

\* Whatever is in the output directory was made of a picture of that name, with
\* the boxes of that very picture cut to its size, by either detector, or is a
\* file that could not be written in full (main.cpp:110-118, detect.cpp:85-90).
SavedAsDecoded == \A n \in DOMAIN saved :
    saved[n] # Broken =>
        \E k \in DOMAIN CollectImages :
            LET p == CollectImages[k]
            IN p.name = n /\ p.readable /\ saved[n] \in Annotated(p)

\* A success is one: vino-detect has saved, under each file name, the last picture
\* of that name that can be read (it only warns of the others, main.cpp:176-178), and
\* none of them is broken (168-170); vino-hello has listed the devices when it was asked
\* to, and otherwise run an inference on the model that it was given.
OkMeansDone == code = "ok" /\ request.kind = "run" =>
    /\ request.program = "vino-detect" =>
         \A k \in DOMAIN CollectImages :
            LET p == CollectImages[k]
                q(j) == CollectImages[j]
            IN  p.readable /\ (\A j \in DOMAIN CollectImages :
                                  j > k /\ q(j).readable => q(j).name # p.name) =>
                    p.name \in DOMAIN saved /\ saved[p.name] \in Annotated(p)
    /\ request.program = "vino-hello" =>
            IF request.listDevices THEN listed ELSE request.model /\ inferred
=============================================================================
