---------------------------- MODULE DetectProofs ----------------------------
(***************************************************************************)
(* Proofs about Detect for any pictures, sizes and rows of the detection   *)
(* tensor: what is saved is what was to be drawn, and an exit code of 0    *)
(* means that everything was.                                              *)
(***************************************************************************)
EXTENDS Detect, OrderLemmas

\* static_cast<int> makes an integer of a coordinate.
LEMMA Truncated ==
    ASSUME NEW n \in Int
    PROVE  Truncate(n) \in Int
BY DEF Truncate

\* Cutting a coordinate to the picture takes the nearest pixel of it.
LEMMA ClampIsNearest ==
    ASSUME NEW tenths \in Int, NEW size \in Nat \ {0}
    PROVE  /\ Clamp(Truncate(tenths * size), size - 1) = Nearest(tenths, size)
           /\ DemoClamp(Truncate(tenths * size), size - 1) = Nearest(tenths, size)
           /\ Nearest(tenths, size) \in Int
<1> DEFINE n == Truncate(tenths * size)
           high == size - 1
           Is(c) == \A d \in 0..high : Distance(c, n) <= Distance(d, n)
<1>1. n \in Int
  <2>1. tenths * size \in Int
    BY Z3
  <2>2. QED
    BY <2>1, Truncated
<1>2. Nearest(tenths, size) = CHOOSE c \in 0..high : Is(c)
  BY DEF Nearest
<1> HIDE DEF n
<1>3. Clamp(n, high) \in 0..high /\ Is(Clamp(n, high))
  BY <1>1 DEF Clamp, Distance
<1>4. DemoClamp(n, high) = Clamp(n, high)
  BY <1>1 DEF DemoClamp, Clamp
<1>5. \A c \in 0..high : Is(c) => c = Clamp(n, high)
  BY <1>1 DEF Clamp, Distance
<1>6. Nearest(tenths, size) = Clamp(n, high)
  <2> HIDE DEF Is, high
  <2>1. QED
    BY <1>2, <1>3, <1>5
<1>7. QED
  BY <1>3, <1>4, <1>6 DEF n

\* The box of a row is what is cut out of the picture, with either way to clamp.
LEMMA BoxIsCut ==
    ASSUME NEW p, p.w \in Nat \ {0}, p.h \in Nat \ {0}, NEW row \in DetectionRow, NEW program
    PROVE  /\ BoxOf(row, p, program) = Cut(row, p)
           /\ Cut(row, p).width \in Int /\ Cut(row, p).height \in Int
<1>1. row.x1 \in Int /\ row.x2 \in Int /\ row.y1 \in Int /\ row.y2 \in Int
  BY DEF DetectionRow
<1>2. /\ Within(Truncate(row.x1 * p.w), p.w - 1, program) = Nearest(row.x1, p.w)
      /\ Within(Truncate(row.x2 * p.w), p.w - 1, program) = Nearest(row.x2, p.w)
      /\ Within(Truncate(row.y1 * p.h), p.h - 1, program) = Nearest(row.y1, p.h)
      /\ Within(Truncate(row.y2 * p.h), p.h - 1, program) = Nearest(row.y2, p.h)
  BY <1>1, ClampIsNearest DEF Within
<1>3. /\ Nearest(row.x1, p.w) \in Int /\ Nearest(row.x2, p.w) \in Int
      /\ Nearest(row.y1, p.h) \in Int /\ Nearest(row.y2, p.h) \in Int
  BY <1>1, ClampIsNearest
<1>4. QED
  BY <1>2, <1>3 DEF BoxOf, Cut
-----------------------------------------------------------------------------
\* The loop over the rows, and how it goes on.
Boxes(p, program) ==
    CHOOSE f : f = [n \in 0..Len(p.rows) |->
                      IF n = 0 THEN <<>> ELSE Push(f[n - 1], p.rows[n], p, program)]

\* The loop over the rows has a value for each number of rows: by induction.
LEMMA LoopExists ==
    ASSUME NEW p, NEW program, Len(p.rows) \in Nat
    PROVE  Boxes(p, program) = [n \in 0..Len(p.rows) |->
               IF n = 0 THEN <<>> ELSE Push(Boxes(p, program)[n - 1], p.rows[n], p, program)]
<1> DEFINE L == Len(p.rows)
           Step(b, n) == Push(b, p.rows[n], p, program)
           Loop(f, n) == f = [m \in 0..n |-> IF m = 0 THEN <<>> ELSE Step(f[m - 1], m)]
           T == {n \in 0..L : \E f : Loop(f, n)}
<1> HIDE DEF Step
<1>1. 0 \in T
  <2>1. Loop([m \in 0..0 |-> <<>>], 0)
    OBVIOUS
  <2>2. 0 \in 0..L
    OBVIOUS
  <2> HIDE DEF Loop, L
  <2>3. QED
    BY <2>1, <2>2
<1>2. ASSUME NEW n \in 0..L, n \in T, n < L
      PROVE  n + 1 \in T
  <2>1. PICK f : Loop(f, n)
    BY <1>2
  <2> DEFINE g == [m \in 0..(n + 1) |-> IF m <= n THEN f[m] ELSE Step(f[n], n + 1)]
  <2>2. DOMAIN g = 0..(n + 1) /\ g[0] = <<>>
    BY <2>1
  <2>3. ASSUME NEW m \in 1..n
        PROVE  g[m] = Step(g[m - 1], m)
    <3>1. f[m] = Step(f[m - 1], m)
      BY <2>1
    <3>2. g[m] = f[m] /\ g[m - 1] = f[m - 1]
      OBVIOUS
    <3>3. QED
      BY <3>1, <3>2
  <2>4. g[n + 1] = Step(g[n], n + 1)
    OBVIOUS
  <2>5. \A m \in 0..(n + 1) : m = 0 \/ m \in 1..n \/ (m = n + 1 /\ m - 1 = n)
    OBVIOUS
  <2>6. \A m \in 0..(n + 1) : g[m] = IF m = 0 THEN <<>> ELSE Step(g[m - 1], m)
    <3> HIDE DEF g
    <3>1. QED
      BY <2>2, <2>3, <2>4, <2>5
  <2>7. g = [m \in 0..(n + 1) |-> IF m = 0 THEN <<>> ELSE Step(g[m - 1], m)]
    BY <2>6
  <2>8. Loop(g, n + 1)
    BY <2>7
  <2>9. n + 1 \in 0..L
    BY <1>2
  <2> HIDE DEF Loop, g, L
  <2>10. QED
    BY <2>8, <2>9
<1>3. 0..L \subseteq T
  <2> HIDE DEF T
  <2>1. QED
    BY <1>1, <1>2, Reached
<1>4. PICK f : Loop(f, L)
  BY <1>3
<1>5. Boxes(p, program) = CHOOSE h : Loop(h, L)
  BY DEF Boxes, Step
<1> HIDE DEF Loop
<1>6. Loop(Boxes(p, program), L)
  BY <1>4, <1>5
<1>7. QED
  BY <1>6 DEF Loop, Step
-----------------------------------------------------------------------------
\* How many of the first n rows are drawn, and that the loop has a box for each.
Prefix(p, n) == {k \in Drawn(p) : k <= n}

LEMMA PlaceOf ==
    ASSUME NEW p, p.rows \in Seq(DetectionRow), NEW n \in 0..Len(p.rows)
    PROVE  /\ IsFiniteSet(Drawn(p)) /\ IsFiniteSet(Prefix(p, n))
           /\ Cardinality(Prefix(p, n)) \in Nat
           /\ \A k \in Prefix(p, n) : Place(k, p) \in 1..Cardinality(Prefix(p, n))
           /\ Place(n, p) = Cardinality(Prefix(p, n))
<1>1. Drawn(p) \subseteq 1..Len(p.rows) /\ Len(p.rows) \in Nat
  BY DEF Drawn
<1>2. IsFiniteSet(Drawn(p))
  <2>1. IsFiniteSet(1..Len(p.rows))
    BY <1>1, FS_Interval
  <2>2. QED
    BY <1>1, <2>1, FS_Subset
<1>3. \A m : Prefix(p, m) \in SUBSET Drawn(p)
  BY DEF Prefix
<1>4. \A m : IsFiniteSet(Prefix(p, m)) /\ Cardinality(Prefix(p, m)) \in Nat
  BY <1>2, <1>3, Fewer
<1>5. \A m : Place(m, p) = Cardinality(Prefix(p, m))
  BY DEF Place, Prefix
<1>6. ASSUME NEW k \in Prefix(p, n)
      PROVE  Place(k, p) \in 1..Cardinality(Prefix(p, n))
  <2>1. k \in Prefix(p, k) /\ Prefix(p, k) \in SUBSET Prefix(p, n)
    BY <1>1 DEF Prefix
  <2>2. Cardinality(Prefix(p, k)) # 0
    BY <1>4, <2>1, FS_EmptySet
  <2>3. Cardinality(Prefix(p, k)) <= Cardinality(Prefix(p, n))
    BY <1>4, <2>1, Fewer
  <2>4. QED
    BY <1>4, <1>5, <2>2, <2>3
<1>7. QED
  BY <1>2, <1>4, <1>5, <1>6

\* After n rows the boxes are those of the rows up to n that are drawn, in order.
LEMMA LoopDraws ==
    ASSUME NEW p, NEW program, p.rows \in Seq(DetectionRow), p.w \in Nat \ {0}, p.h \in Nat \ {0},
           NEW n \in 0..Len(p.rows)
    PROVE  /\ Boxes(p, program)[n] \in Seq({Cut(p.rows[k], p) : k \in DOMAIN p.rows})
           /\ Len(Boxes(p, program)[n]) = Cardinality(Prefix(p, n))
           /\ \A k \in Prefix(p, n) : Boxes(p, program)[n][Place(k, p)] = Cut(p.rows[k], p)
<1> DEFINE L == Len(p.rows)
           B == Boxes(p, program)
           C(k) == Cut(p.rows[k], p)
           S == {C(k) : k \in DOMAIN p.rows}
           Good(m) == /\ B[m] \in Seq(S)
                      /\ Len(B[m]) = Cardinality(Prefix(p, m))
                      /\ \A k \in Prefix(p, m) : B[m][Place(k, p)] = C(k)
           T == {m \in 0..L : Good(m)}
<1>1. L \in Nat /\ DOMAIN p.rows = 1..L
  OBVIOUS
<1>2. /\ B[0] = <<>>
      /\ \A m \in 1..L : B[m] = Push(B[m - 1], p.rows[m], p, program)
  BY <1>1, LoopExists
<1> HIDE DEF B
<1>3. 0 \in T
  <2>1. Prefix(p, 0) = {}
    BY DEF Prefix, Drawn
  <2>2. Good(0)
    BY <1>2, <2>1, FS_EmptySet
  <2> HIDE DEF Good
  <2>3. QED
    BY <1>1, <2>2
<1>4. ASSUME NEW m \in 0..L, m \in T, m < L
      PROVE  m + 1 \in T
  <2> DEFINE r == p.rows[m + 1]
  <2>1. m + 1 \in 1..L /\ (m + 1) - 1 = m /\ r \in DetectionRow
    BY <1>1, <1>4
  <2>2. B[m + 1] = Push(B[m], r, p, program)
    BY <1>2, <2>1
  <2>3. Good(m)
    BY <1>4
  <2>4. BoxOf(r, p, program) = C(m + 1)
    BY <2>1, BoxIsCut
  <2>5. /\ C(m + 1).width \in Int /\ C(m + 1).height \in Int /\ r.id \in Int /\ r.sure \in BOOLEAN
    BY <2>1, BoxIsCut DEF DetectionRow
  <2>6. CASE m + 1 \in Drawn(p)
    <3>1. B[m + 1] = Append(B[m], C(m + 1))
      <4>1. r.id >= 0 /\ r.sure /\ C(m + 1).width > 0 /\ C(m + 1).height > 0
        BY <2>6 DEF Drawn
      <4> HIDE DEF C, r
      <4>2. QED
        BY <2>2, <2>4, <2>5, <4>1, SMTT(30) DEF Push
    <3>2. Prefix(p, m + 1) = Prefix(p, m) \cup {m + 1} /\ m + 1 \notin Prefix(p, m)
      BY <2>6, <1>1 DEF Prefix, Drawn
    <3>3. Cardinality(Prefix(p, m + 1)) = Cardinality(Prefix(p, m)) + 1
      BY <3>2, PlaceOf, FS_AddElement
    <3>4. Place(m + 1, p) = Cardinality(Prefix(p, m)) + 1
      BY <2>1, <3>3, PlaceOf
    <3>5. \A k \in Prefix(p, m) : Place(k, p) \in 1..Cardinality(Prefix(p, m))
      BY PlaceOf
    <3>6. Cardinality(Prefix(p, m)) \in Nat
      BY PlaceOf
    <3>7. C(m + 1) \in S
      BY <1>1, <2>1
    <3> HIDE DEF C, S
    <3>8. Good(m + 1)
      BY <2>3, <3>1, <3>2, <3>3, <3>4, <3>5, <3>6, <3>7
    <3> HIDE DEF Good
    <3>9. QED
      BY <2>1, <3>8
  <2>7. CASE m + 1 \notin Drawn(p)
    <3>1. B[m + 1] = B[m]
      <4>1. r.id < 0 \/ ~r.sure \/ C(m + 1).width <= 0 \/ C(m + 1).height <= 0
        BY <1>1, <2>1, <2>5, <2>7 DEF Drawn
      <4> HIDE DEF C, r
      <4>2. QED
        BY <2>2, <2>4, <2>5, <4>1 DEF Push
    <3>2. Prefix(p, m + 1) = Prefix(p, m)
      BY <2>7, <1>1 DEF Prefix, Drawn
    <3>3. Good(m + 1)
      BY <2>3, <3>1, <3>2
    <3> HIDE DEF Good
    <3>4. QED
      BY <2>1, <3>3
  <2>8. QED
    BY <2>6, <2>7
<1>5. 0..L \subseteq T
  <2> HIDE DEF T
  <2>1. QED
    BY <1>1, <1>3, <1>4, Reached
<1>6. Good(n)
  BY <1>5
<1>7. QED
  BY <1>6 DEF B

\* What either detector makes of the rows of a picture is what was to be drawn: the
\* loop goes on after a row that it skips, and every box is cut to the picture
\* (main.cpp:100-121, detect.cpp).
LEMMA DecodesAsExpected ==
    ASSUME NEW p, NEW program, p.rows \in Seq(DetectionRow), p.w \in Nat \ {0}, p.h \in Nat \ {0}
    PROVE  Decode(p, program) = Expected(p)
<1> DEFINE L == Len(p.rows)
           D == Drawn(p)
           b == Decode(p, program)
           C(k) == Cut(p.rows[k], p)
<1>1. L \in 0..L /\ L \in Nat
  OBVIOUS
<1>2. b = Boxes(p, program)[L]
  BY DEF Decode, Boxes
<1>3. D = Prefix(p, L)
  BY DEF Prefix, Drawn
<1>4. b \in Seq({C(k) : k \in DOMAIN p.rows}) /\ Len(b) = Cardinality(D)
      /\ \A k \in D : b[Place(k, p)] = C(k)
  <2>1. /\ Boxes(p, program)[L] \in Seq({Cut(p.rows[k], p) : k \in DOMAIN p.rows})
        /\ Len(Boxes(p, program)[L]) = Cardinality(Prefix(p, L))
        /\ \A k \in Prefix(p, L) : Boxes(p, program)[L][Place(k, p)] = Cut(p.rows[k], p)
    BY <1>1, LoopDraws
  <2> HIDE DEF L, D, b
  <2>2. QED
    BY <1>2, <1>3, <2>1
<1> HIDE DEF b
<1>5. b = [i \in 1..Cardinality(D) |-> b[i]]
  BY <1>4
<1>6. ASSUME NEW i \in 1..Cardinality(D)
      PROVE  \E k \in D : Place(k, p) = i
  <2> DEFINE v == [k \in D |-> k]
  <2>1. /\ IsFiniteSet(D) /\ \A k \in D : v[k] \in Int
        /\ \A j, k \in D : v[j] = v[k] => j = k
    BY PlaceOf, <1>1 DEF Drawn
  <2>2. PICK x \in D : Cardinality(UpTo(D, v, x)) = i
    <3> HIDE DEF v, D
    <3>1. QED
      BY <2>1, RankedAt
  <2>3. UpTo(D, v, x) = {j \in D : j <= x}
    BY DEF UpTo
  <2>4. QED
    BY <2>2, <2>3 DEF Place
<1>7. ASSUME NEW i \in 1..Cardinality(D)
      PROVE  b[i] = C(CHOOSE k \in D : Place(k, p) = i)
  <2> DEFINE c == CHOOSE k \in D : Place(k, p) = i
  <2>1. c \in D /\ Place(c, p) = i
    BY <1>6
  <2> HIDE DEF c
  <2>2. QED
    BY <1>4, <2>1 DEF c
<1>8. Expected(p) = [i \in 1..Cardinality(D) |-> C(CHOOSE k \in D : Place(k, p) = i)]
  BY DEF Expected
<1>9. QED
  BY <1>5, <1>7, <1>8 DEF b
-----------------------------------------------------------------------------
Images == CollectImages

\* The pictures are a sequence, the ones of the directory too, and what can be read
\* has a size and rows.
LEMMA ImagesTyped ==
    ASSUME request \in Requested
    PROVE  /\ Images \in Seq(Pictures)
           /\ \A k \in DOMAIN Images :
                Images[k].readable => /\ Images[k].w \in Nat \ {0} /\ Images[k].h \in Nat \ {0}
                                      /\ Images[k].rows \in Seq(DetectionRow)
<1>1. CASE ImagePaths # <<>>
  <2>1. Images = ImagePaths
    BY <1>1 DEF Images, CollectImages
  <2>2. /\ request.images \in Seq({request.images[k] : k \in DOMAIN request.images})
        /\ {request.images[k] : k \in DOMAIN request.images} \subseteq Pictures
    BY RequestedAssumption DEF Pictures
  <2>3. request.images \in Seq(Pictures) /\ <<Argument>> \in Seq(Pictures)
    BY <2>2 DEF Pictures
  <2>4. Images \in Seq(Pictures)
    BY <2>1, <2>3 DEF ImagePaths
  <2>5. QED
    BY <2>4, PicturesAssumption
<1>2. CASE ImagePaths = <<>>
  <2> DEFINE S == {p \in Scanned : p.picture}
             v == [p \in S |-> p.path]
  <2>1. Images = InOrder(S)
    BY <1>2 DEF Images, CollectImages
  <2>2. S \in SUBSET Scanned /\ IsFiniteSet(Scanned)
    BY PicturesAssumption
  <2>3. IsFiniteSet(S) /\ Cardinality(S) \in Nat
    <3> HIDE DEF S
    <3>1. QED
      BY <2>2, Fewer
  <2>4. \A p \in S : v[p] \in Int /\ v[p] = p.path
    BY PicturesAssumption
  <2>5. \A p, q \in S : p.path = q.path => p = q
    BY PicturesAssumption
  <2> HIDE DEF S
  <2>6. ASSUME NEW i \in 1..Cardinality(S)
        PROVE  \E p \in S : Cardinality({q \in S : q.path <= p.path}) = i
    <3>1. \A q \in S : v[q] \in Int
      BY <2>4
    <3>2. \A p, q \in S : v[p] = v[q] => p = q
      BY <2>4, <2>5
    <3>3. PICK p \in S : Cardinality(UpTo(S, v, p)) = i
      <4> HIDE DEF v
      <4>1. QED
        BY <2>3, <3>1, <3>2, RankedAt
    <3>4. UpTo(S, v, p) = {q \in S : q.path <= p.path}
      BY <2>4 DEF UpTo
    <3>5. QED
      BY <3>3, <3>4
  <2> DEFINE c(i) == CHOOSE p \in S : Cardinality({q \in S : q.path <= p.path}) = i
  <2>7. \A i \in 1..Cardinality(S) : c(i) \in S
    BY <2>6
  <2>8. Images = [i \in 1..Cardinality(S) |-> c(i)]
    BY <2>1 DEF InOrder
  <2>9. S \subseteq Pictures
    BY <2>2 DEF Pictures
  <2> HIDE DEF c
  <2>10. Images \in [1..Cardinality(S) -> Pictures]
    BY <2>7, <2>8, <2>9
  <2>11. Images \in Seq(Pictures) /\ \A k \in DOMAIN Images : Images[k] \in Pictures
    BY <2>3, <2>10
  <2>12. QED
    BY <2>11, PicturesAssumption
<1>3. QED
  BY <1>1, <1>2

\* What is to be saved of a picture, and whether a later one of those up to d has its name.
Made(k) == [of |-> Images[k].path, boxes |-> Expected(Images[k])]
Overwritten(k, d) ==
    \E j \in 1..d : j > k /\ Images[j].readable /\ Images[j].name = Images[k].name
Kept(k) == Images[k].name \in DOMAIN saved /\ saved[Images[k].name] = Made(k)

\* The first d pictures are done.
DoneUpTo(d) ==
    /\ Len(todo) = Len(Images) - d
    /\ \A k \in DOMAIN todo : todo[k] = Images[k + d]
    /\ request.program = "vino-detect" =>
           \A k \in 1..d : Images[k].readable /\ ~Overwritten(k, d) => Kept(k)

\* What the properties say, and a little more: the rows behind the end mark are drawn,
\* and vino-hello runs its inference also when it lists the devices.
SavedMade == \A n \in DOMAIN saved :
    saved[n] # Broken =>
        \E k \in DOMAIN Images : Images[k].name = n /\ Images[k].readable /\ saved[n] = Made(k)
OkMade == code = "ok" /\ request.kind = "run" =>
    /\ request.program = "vino-detect" =>
         \A k \in DOMAIN Images :
            Images[k].readable /\ ~Overwritten(k, Len(Images)) => Kept(k)
    /\ request.program = "vino-hello" =>
            /\ request.listDevices \/ request.model
            /\ (request.listDevices => listed) /\ (request.model => inferred)

DtInv ==
    /\ request \in Requested
    /\ at # "end" => code = "none"
    /\ at \in {"collect", "mkdir", "compile", "images"} => request.program \in Detectors
    /\ at \in {"core", "model"} => request.program = "vino-hello"
    /\ at = "model" => request.model /\ (request.listDevices => listed)
    /\ at \in {"mkdir", "compile"} => todo = Images
    /\ at = "images" => todo \in Seq(Pictures) /\ \E d \in 0..Len(Images) : DoneUpTo(d)
    /\ SavedMade
    /\ OkMade

\* The pictures are those of the command line, and what was saved stays what it is.
LEMMA SamePictures ==
    ASSUME UNCHANGED request
    PROVE  Images' = Images /\ CollectImages' = CollectImages /\ \A k : Made(k)' = Made(k)
<1>1. Images' = Images /\ CollectImages' = CollectImages
  BY DEF Images, CollectImages, ImagePaths
<1>2. QED
  BY <1>1 DEF Made

LEMMA SameSaved ==
    ASSUME SavedMade, UNCHANGED <<request, saved>>
    PROVE  SavedMade'
BY SamePictures DEF SavedMade

\* Nothing is saved when a program starts.
LEMMA DtInitInv == DtInit => DtInv
BY DEF DtInit, Blank, DtInv, SavedMade, OkMade

\* The end is the end, and a failure is no success.
LEMMA FailsInv ==
    ASSUME DtInv, at' = "end", code' # "ok", UNCHANGED <<request, saved>>
    PROVE  DtInv'
BY SameSaved DEF DtInv, OkMade

\* The programs go on without saving anything.
LEMMA MovesInv ==
    ASSUME DtInv, at # "end", at' \notin {"end", "images"}, UNCHANGED <<request, code, saved>>,
           at' \in {"collect", "mkdir", "compile"} => request.program \in Detectors,
           at' \in {"core", "model"} => request.program = "vino-hello",
           at' = "model" => request.model /\ (request.listDevices => listed'),
           at' \in {"mkdir", "compile"} => todo' = Images
    PROVE  DtInv'
<1>1. Images' = Images /\ CollectImages' = CollectImages
  BY SamePictures
<1>2. code' # "ok"
  BY DEF DtInv
<1>3. SavedMade' /\ OkMade'
  BY <1>2, SameSaved DEF DtInv, OkMade
<1>4. QED
  BY <1>1, <1>3 DEF DtInv

\* The picture that is next.
LEMMA CurrentImage ==
    ASSUME DtInv, at = "images", todo # <<>>, NEW d \in 0..Len(Images), DoneUpTo(d)
    PROVE  /\ d + 1 \in DOMAIN Images /\ d + 1 \in 0..Len(Images)
           /\ Head(todo) = Images[d + 1]
           /\ Tail(todo) \in Seq(Pictures)
           /\ Len(Tail(todo)) = Len(Images) - (d + 1)
           /\ \A k \in DOMAIN Tail(todo) : Tail(todo)[k] = Images[k + (d + 1)]
<1>1. todo \in Seq(Pictures) /\ Images \in Seq(Pictures)
  BY ImagesTyped DEF DtInv
<1>2. Len(todo) = Len(Images) - d /\ \A k \in DOMAIN todo : todo[k] = Images[k + d]
  BY DEF DoneUpTo
<1>3. Len(todo) \in Nat \ {0} /\ Len(Images) \in Nat /\ DOMAIN Images = 1..Len(Images)
  BY <1>1
<1>4. Head(todo) = todo[1] /\ 1 \in DOMAIN todo
  BY <1>1, <1>3
<1>5. /\ Tail(todo) \in Seq(Pictures) /\ Len(Tail(todo)) = Len(todo) - 1
      /\ DOMAIN Tail(todo) = 1..(Len(todo) - 1)
      /\ \A k \in 1..(Len(todo) - 1) : Tail(todo)[k] = todo[k + 1] /\ k + 1 \in DOMAIN todo
  BY <1>1, <1>3
<1>6. ASSUME NEW k \in 1..(Len(todo) - 1)
      PROVE  Tail(todo)[k] = Images[k + (d + 1)]
  <2>1. k \in Nat /\ d \in Nat /\ (k + 1) + d = k + (d + 1)
    BY <1>3
  <2>2. Tail(todo)[k] = todo[k + 1] /\ k + 1 \in DOMAIN todo
    BY <1>5
  <2>3. todo[k + 1] = Images[(k + 1) + d]
    BY <1>2, <2>2
  <2>4. QED
    BY <2>1, <2>2, <2>3
<1>7. d + 1 \in 1..Len(Images) /\ d + 1 \in 0..Len(Images)
  BY <1>2, <1>3
<1>8. d + 1 \in DOMAIN Images
  BY <1>3, <1>7
<1>9. Head(todo) = Images[d + 1]
  <2>1. todo[1] = Images[1 + d] /\ 1 + d = d + 1
    BY <1>2, <1>4
  <2>2. QED
    BY <1>4, <2>1
<1>10. Len(Tail(todo)) = Len(Images) - (d + 1)
  <2>1. Len(todo) - 1 = Len(Images) - (d + 1)
    BY <1>2, <1>3
  <2>2. QED
    BY <1>5, <2>1
<1>11. \A k \in DOMAIN Tail(todo) : Tail(todo)[k] = Images[k + (d + 1)]
  BY <1>5, <1>6
<1>12. Tail(todo) \in Seq(Pictures)
  BY <1>5
<1>13. QED
  BY <1>7, <1>8, <1>9, <1>10, <1>11, <1>12, Zenon

\* A file that is saved is that of the picture, or broken.
LEMMA StoredInv ==
    ASSUME DtInv, NEW j \in DOMAIN Images, Images[j].readable, UNCHANGED request,
           NEW content, content = Made(j) \/ content = Broken,
           Store(Images[j].name, content)
    PROVE  SavedMade'
<1>1. Images' = Images /\ CollectImages' = Images
  BY SamePictures DEF Images
<1>2. saved' = [n \in DOMAIN saved \cup {Images[j].name} |->
                   IF n = Images[j].name THEN content ELSE saved[n]]
  BY DEF Store
<1>3. \A n \in DOMAIN saved : saved[n] # Broken =>
          \E k \in DOMAIN Images : Images[k].name = n /\ Images[k].readable /\ saved[n] = Made(k)
  BY DEF DtInv, SavedMade, Images, Made
<1>4. \A n \in DOMAIN saved' : saved'[n] # Broken =>
          \E k \in DOMAIN Images : Images[k].name = n /\ Images[k].readable /\ saved'[n] = Made(k)
  BY <1>2, <1>3
<1>5. QED
  BY <1>1, <1>4 DEF SavedMade, Made

\* A picture is done.
LEMMA NextInv ==
    ASSUME DtInv, at = "images", UNCHANGED <<request, at, code, listed, inferred>>,
           NEW d \in 0..Len(Images), d + 1 \in 0..Len(Images), SavedMade',
           todo' \in Seq(Pictures), Len(todo') = Len(Images) - (d + 1),
           \A k \in DOMAIN todo' : todo'[k] = Images[k + (d + 1)],
           request.program = "vino-detect" =>
               \A k \in 1..(d + 1) : Images[k].readable /\ ~Overwritten(k, d + 1) => Kept(k)'
    PROVE  DtInv'
<1>1. Images' = Images /\ \A k, n : Overwritten(k, n)' = Overwritten(k, n)
  BY SamePictures DEF Overwritten
<1>2. DoneUpTo(d + 1)'
  BY <1>1 DEF DoneUpTo
<1>3. code' # "ok"
  BY DEF DtInv
<1>4. QED
  BY <1>1, <1>2, <1>3 DEF DtInv, OkMade

\* One picture: left out, saved, broken, or the end of the program.
LEMMA NextImageInv ==
    ASSUME DtInv, NextImage
    PROVE  DtInv'
<1>1. at = "images" /\ todo # <<>>
  BY DEF NextImage
<1>2. PICK d \in 0..Len(Images) : DoneUpTo(d)
  BY <1>1 DEF DtInv
<1> DEFINE p == Head(todo)
<1>3. /\ d + 1 \in DOMAIN Images /\ d + 1 \in 0..Len(Images) /\ p = Images[d + 1]
      /\ Tail(todo) \in Seq(Pictures)
      /\ Len(Tail(todo)) = Len(Images) - (d + 1)
      /\ \A k \in DOMAIN Tail(todo) : Tail(todo)[k] = Images[k + (d + 1)]
  BY <1>1, <1>2, CurrentImage
<1>4. p.readable => /\ [of |-> p.path, boxes |-> DecodeDetections(p)] = Made(d + 1)
                    /\ [of |-> p.path, boxes |-> DemoDetections(p)] = Made(d + 1)
  <2>1. p.readable => p.w \in Nat \ {0} /\ p.h \in Nat \ {0} /\ p.rows \in Seq(DetectionRow)
    BY <1>3, ImagesTyped DEF DtInv
  <2> HIDE DEF p
  <2>2. p.readable => DecodeDetections(p) = Expected(p) /\ DemoDetections(p) = Expected(p)
    BY <2>1, DecodesAsExpected DEF DecodeDetections, DemoDetections
  <2>3. QED
    BY <1>3, <2>2 DEF Made
<1>5. \A k \in 1..d : ~Overwritten(k, d + 1) => ~Overwritten(k, d)
  BY DEF Overwritten
<1>6. Images' = Images /\ CollectImages' = CollectImages
  BY SamePictures DEF NextImage, RunImage, DemoRunImage, DemoInferFails, AnnotateAndWrite,
         Fails
<1> HIDE DEF p
<1>7. CASE RunImage(p)
  <2>1. CASE ~p.readable /\ todo' = Tail(todo) /\ UNCHANGED <<request, at, code, saved, listed, inferred>>
    <3>1. SavedMade'
      BY <1>6, <2>1, SameSaved DEF DtInv
    <3>2. ASSUME NEW k \in 1..(d + 1), Images[k].readable, ~Overwritten(k, d + 1),
                 request.program = "vino-detect"
          PROVE  Kept(k)'
      <4>1. k \in 1..d
        BY <1>3, <2>1, <3>2
      <4>2. Kept(k)
        BY <1>2, <1>5, <3>2, <4>1 DEF DoneUpTo
      <4>3. QED
        BY <1>6, <2>1, <4>2 DEF Kept, Made
    <3>3. QED
      BY <1>1, <1>2, <1>3, <2>1, <3>1, <3>2, NextInv
  <2>2. CASE p.readable /\ AnnotateAndWrite(p)
    <3>1. CASE End("error") /\ Store(p.name, Broken) /\ UNCHANGED <<request, todo, listed, inferred>>
      <4>1. SavedMade'
        BY <1>3, <2>2, <3>1, StoredInv
      <4>2. QED
        BY <3>1, <4>1 DEF DtInv, OkMade, End
    <3>2. CASE /\ Store(p.name, Made(d + 1)) /\ todo' = Tail(todo)
               /\ UNCHANGED <<request, at, code, listed, inferred>>
      <4>1. SavedMade'
        BY <1>3, <2>2, <3>2, StoredInv
      <4>2. saved' = [n \in DOMAIN saved \cup {p.name} |->
                         IF n = p.name THEN Made(d + 1) ELSE saved[n]]
        BY <3>2 DEF Store
      <4>3. ASSUME NEW k \in 1..(d + 1), Images[k].readable, ~Overwritten(k, d + 1),
                   request.program = "vino-detect"
            PROVE  Kept(k)'
        <5>1. CASE k = d + 1
          BY <1>3, <1>6, <4>2, <5>1 DEF Kept, Made
        <5>2. CASE k \in 1..d
          <6>1. Kept(k)
            BY <1>2, <1>5, <4>3, <5>2 DEF DoneUpTo
          <6>2. Images[k].name # p.name
            BY <1>3, <2>2, <4>3, <5>2 DEF Overwritten
          <6>3. QED
            BY <1>6, <4>2, <6>1, <6>2 DEF Kept, Made
        <5>3. QED
          BY <5>1, <5>2
      <4>4. QED
        BY <1>1, <1>2, <1>3, <3>2, <4>1, <4>3, NextInv
    <3>3. QED
      BY <1>4, <2>2, <3>1, <3>2 DEF AnnotateAndWrite
  <2>3. CASE p.readable /\ Fails
    BY <2>3, FailsInv DEF Fails, End
  <2>4. QED
    BY <1>7, <2>1, <2>2, <2>3 DEF RunImage
<1>8. CASE DemoRunImage(p)
  <2>1. todo' = Tail(todo) /\ UNCHANGED <<request, at, code, listed, inferred>>
    BY <1>8 DEF DemoRunImage
  <2>2. request.program # "vino-detect"
    BY <1>8 DEF DemoRunImage
  <2>3. SavedMade'
    <3>1. CASE UNCHANGED saved
      BY <2>1, <3>1, SameSaved DEF DtInv
    <3>2. CASE p.readable /\ Store(p.name, Made(d + 1))
      BY <1>3, <2>1, <3>2, StoredInv
    <3>3. CASE p.readable /\ Store(p.name, Broken)
      BY <1>3, <2>1, <3>3, StoredInv
    <3>4. QED
      BY <1>4, <1>8, <3>1, <3>2, <3>3 DEF DemoRunImage
  <2>4. QED
    BY <1>1, <1>2, <1>3, <2>1, <2>2, <2>3, NextInv
<1>9. CASE DemoInferFails(p)
  BY <1>9, FailsInv DEF DemoInferFails, Fails, End
<1>10. QED
  BY <1>7, <1>8, <1>9 DEF NextImage, p

\* The last picture is done: all of them are.
LEMMA ImagesDoneInv ==
    ASSUME DtInv, ImagesDone
    PROVE  DtInv'
<1>1. at = "images" /\ todo = <<>> /\ at' = "end" /\ UNCHANGED <<request, saved, listed, inferred>>
  BY DEF ImagesDone, End
<1>2. PICK d \in 0..Len(Images) : DoneUpTo(d)
  BY <1>1 DEF DtInv
<1>3. Images \in Seq(Pictures) /\ Images' = Images /\ CollectImages' = CollectImages
  BY <1>1, ImagesTyped, SamePictures DEF DtInv
<1>4. d = Len(Images) /\ DOMAIN Images = 1..d
  BY <1>1, <1>2, <1>3 DEF DoneUpTo
<1>5. request.program \in Detectors
  BY <1>1 DEF DtInv
<1>6. SavedMade'
  BY <1>1, SameSaved DEF DtInv
<1>7. OkMade'
  <2>1. ASSUME request.program = "vino-detect", NEW k \in DOMAIN Images, Images[k].readable,
               ~Overwritten(k, Len(Images))
        PROVE  Kept(k)'
    <3>1. Kept(k)
      BY <1>2, <1>4, <2>1 DEF DoneUpTo
    <3>2. QED
      BY <1>1, <1>3, <3>1, SamePictures DEF Kept
  <2>2. request.program # "vino-hello"
    BY <1>5 DEF Detectors
  <2>3. \A k \in DOMAIN Images : Overwritten(k, Len(Images))' <=> Overwritten(k, Len(Images))
    BY <1>3 DEF Overwritten
  <2>4. QED
    BY <1>1, <1>3, <2>1, <2>2, <2>3 DEF OkMade
<1>8. QED
  BY <1>1, <1>6, <1>7 DEF DtInv
-----------------------------------------------------------------------------
\* What the detectors do before the first picture.
LEMMA DetectorStartInv ==
    ASSUME DtInv, DetectArgs \/ CollectStep \/ CreateDirectories \/ CompileModel
    PROVE  DtInv'
<1> USE DEF End, Go
<1>1. CASE DetectArgs
  <2>1. CASE request.kind = "run" \/ request.program = "openvino-detect"
    <3>1. at' = "collect" /\ at = "args" /\ UNCHANGED <<request, code, saved>> /\ request.program \in Detectors
      BY <1>1, <2>1 DEF DetectArgs
    <3>2. QED
      BY <3>1, MovesInv
  <2>2. CASE ~(request.kind = "run" \/ request.program = "openvino-detect")
    <3>1. at' = "end" /\ UNCHANGED <<request, saved>>
      BY <1>1, <2>2 DEF DetectArgs
    <3>2. SavedMade' /\ OkMade'
      BY <2>2, <3>1, SameSaved DEF DtInv, OkMade
    <3>3. QED
      BY <3>1, <3>2 DEF DtInv
  <2>3. QED
    BY <2>1, <2>2
<1>2. CASE CollectStep
  <2>1. CASE Fails
    BY <2>1, FailsInv DEF Fails
  <2>2. CASE CollectImages = <<>> /\ End("error") /\ UNCHANGED <<request, saved, listed, inferred>>
    BY <2>2, FailsInv
  <2>3. CASE at = "collect" /\ todo' = CollectImages /\ Go("mkdir") /\ UNCHANGED <<request, saved, listed, inferred>>
    <3>1. request.program \in Detectors
      BY <2>3 DEF DtInv
    <3>2. QED
      BY <2>3, <3>1, MovesInv DEF Images
  <2>4. QED
    BY <1>2, <2>1, <2>2, <2>3 DEF CollectStep
<1>3. CASE CreateDirectories
  <2>1. CASE Fails
    BY <2>1, FailsInv DEF Fails
  <2>2. CASE at = "mkdir" /\ Go("compile") /\ UNCHANGED <<request, todo, saved, listed, inferred>>
    <3>1. request.program \in Detectors /\ todo' = Images
      BY <2>2 DEF DtInv
    <3>2. QED
      BY <2>2, <3>1, MovesInv
  <2>3. QED
    BY <1>3, <2>1, <2>2 DEF CreateDirectories
<1>4. CASE CompileModel
  <2>1. CASE Fails
    BY <2>1, FailsInv DEF Fails
  <2>2. CASE at = "compile" /\ Go("images") /\ UNCHANGED <<request, todo, saved, listed, inferred>>
    <3>1. todo = Images /\ request \in Requested /\ code = "none"
      BY <2>2 DEF DtInv
    <3>2. Images \in Seq(Pictures) /\ Images' = Images /\ CollectImages' = CollectImages
      BY <2>2, <3>1, ImagesTyped, SamePictures
    <3>3. DoneUpTo(0)' /\ 0 \in 0..Len(Images)
      BY <2>2, <3>1, <3>2 DEF DoneUpTo
    <3>4. SavedMade' /\ OkMade'
      BY <2>2, <3>1, SameSaved DEF DtInv, OkMade
    <3>5. request.program \in Detectors
      BY <2>2 DEF DtInv
    <3>6. QED
      BY <2>2, <3>1, <3>2, <3>3, <3>4, <3>5 DEF DtInv
  <2>3. QED
    BY <1>4, <2>1, <2>2 DEF CompileModel
<1>5. QED
  BY <1>1, <1>2, <1>3, <1>4

\* What vino-hello does.
LEMMA HelloInv ==
    ASSUME DtInv, HelloArgs \/ ListDevices \/ NoList \/ HelloInfer
    PROVE  DtInv'
<1> USE DEF End, Go
<1>1. UNCHANGED <<request, saved>>
  BY DEF HelloArgs, ListDevices, NoList, HelloInfer, Fails
<1>2. CollectImages' = CollectImages /\ Images' = Images
  BY <1>1, SamePictures
<1>3. SavedMade'
  BY <1>1, SameSaved DEF DtInv
<1>4. request \in Requested /\ request.kind \in {"run", "help", "unknown"} /\ request.model \in BOOLEAN
  BY RequestedAssumption DEF DtInv
<1>5. CASE HelloArgs
  <2>1. at = "args" /\ request.program = "vino-hello"
    BY <1>5 DEF HelloArgs
  <2>2. CASE request.kind = "run"
    <3>1. at' = "core" /\ UNCHANGED code
      BY <1>5, <2>2 DEF HelloArgs
    <3>2. QED
      BY <1>1, <2>1, <3>1, MovesInv
  <2>3. CASE request.kind # "run"
    <3>1. at' = "end"
      BY <1>4, <1>5, <2>3 DEF HelloArgs
    <3>2. OkMade'
      BY <1>1, <2>3 DEF OkMade
    <3>3. QED
      BY <1>1, <1>3, <3>1, <3>2 DEF DtInv
  <2>4. QED
    BY <2>2, <2>3
<1>6. CASE ListDevices \/ NoList \/ HelloInfer
  <2>1. at \in {"core", "model"} /\ request.program = "vino-hello"
    BY <1>6 DEF ListDevices, NoList, HelloInfer, DtInv
  <2>2. CASE Fails
    BY <2>2, FailsInv DEF Fails
  <2>3. CASE at' = "model" /\ UNCHANGED code /\ request.model /\ (request.listDevices => listed')
    BY <1>1, <2>1, <2>3, MovesInv
  <2>4. CASE at' = "end" /\ (code' = "ok" => (request.listDevices => listed')
                                              /\ (request.model => inferred')
                                              /\ (request.listDevices \/ request.model))
    <3>1. OkMade'
      BY <1>1, <2>1, <2>4 DEF OkMade
    <3>2. QED
      BY <1>1, <1>3, <2>4, <3>1 DEF DtInv
  <2>5. CASE ListDevices /\ ~Fails
    BY <2>3, <2>4, <2>5 DEF ListDevices
  <2>6. CASE NoList
    BY <2>3, <2>4, <2>6 DEF NoList
  <2>7. CASE HelloInfer /\ ~Fails
    <3>1. /\ at' = "end" /\ inferred' /\ listed' = listed
          /\ request.model /\ (request.listDevices => listed)
      BY <2>7 DEF HelloInfer, DtInv
    <3>2. QED
      BY <2>4, <3>1
  <2>8. QED
    BY <1>6, <2>2, <2>5, <2>6, <2>7
<1>7. QED
  BY <1>5, <1>6

\* DtInv holds of every state.
LEMMA DtInductive == DtSafety => []DtInv
<1>1. DtInv /\ [DtNext]_dtVars => DtInv'
  <2>1. ASSUME DtInv, DtNext
        PROVE  DtInv'
    BY <2>1, NextImageInv, ImagesDoneInv, DetectorStartInv, HelloInv DEF DtNext
  <2>2. ASSUME DtInv, UNCHANGED dtVars
        PROVE  DtInv'
    <3>1. UNCHANGED <<request, at, code, todo, saved, listed, inferred>>
      BY <2>2 DEF dtVars
    <3>2. Images' = Images /\ CollectImages' = CollectImages
      BY <3>1, SamePictures
    <3>3. \A d : DoneUpTo(d)' = DoneUpTo(d)
      BY <3>1, <3>2 DEF DoneUpTo, Overwritten, Kept, Made
    <3>4. SavedMade' /\ OkMade'
      <4>1. OkMade'
        BY <2>2, <3>1, <3>2, SamePictures DEF DtInv, OkMade, Overwritten, Kept
      <4>2. QED
        BY <2>2, <3>1, <4>1, SameSaved DEF DtInv
    <3>5. QED
      BY <2>2, <3>1, <3>2, <3>3, <3>4 DEF DtInv
  <2>3. QED
    BY <2>1, <2>2
<1>2. QED
  BY <1>1, DtInitInv, PTL DEF DtSafety

\* What is saved of a picture is one reading of its rows.
LEMMA MadeIsAnnotated == \A k \in DOMAIN Images : Made(k) \in Annotated(Images[k])
BY DEF Made, Annotated

\* Whatever is in the output directory was made of a picture of that name, with the
\* boxes that its rows call for cut to its size (main.cpp:100-128, detect.cpp), or is
\* a file that could not be written in full.
THEOREM SavesAsDecoded == DtSafety => []SavedAsDecoded
<1>1. DtInv => SavedAsDecoded
  BY MadeIsAnnotated DEF DtInv, SavedMade, SavedAsDecoded, Images
<1>2. QED
  BY <1>1, DtInductive, PTL

\* An exit code of 0 says that every picture that can be read was saved in full, unless
\* a later one has its name, and that vino-hello has listed the devices, or else run an
\* inference.
THEOREM OkIsDone == DtSafety => []OkMeansDone
<1>1. DtInv => OkMeansDone
  <2> SUFFICES ASSUME DtInv, code = "ok", request.kind = "run"
               PROVE  OkMeansDone
    BY DEF OkMeansDone
  <2>1. DOMAIN Images = 1..Len(Images)
    BY ImagesTyped DEF DtInv
  <2>2. ASSUME NEW k \in DOMAIN Images, Images[k].readable, request.program = "vino-detect",
               \A j \in DOMAIN Images : j > k /\ Images[j].readable => Images[j].name # Images[k].name
        PROVE  Images[k].name \in DOMAIN saved /\ saved[Images[k].name] \in Annotated(Images[k])
    <3>1. ~Overwritten(k, Len(Images))
      BY <2>1, <2>2 DEF Overwritten
    <3>2. QED
      BY <2>2, <3>1, MadeIsAnnotated DEF DtInv, OkMade, Kept
  <2>3. request.program = "vino-hello" =>
            IF request.listDevices THEN listed ELSE request.model /\ inferred
    BY DEF DtInv, OkMade
  <2>4. QED
    BY <2>2, <2>3 DEF OkMeansDone, Images
<1>2. QED
  BY <1>1, DtInductive, PTL
=============================================================================
