------------------------- MODULE WindowProgram_proofs -------------------------
(* WindowProgram for every set of sizes, of platforms and every bound on the *)
(* events: the last resize that waits has the window's size, so the surface  *)
(* has it when none waits, and a texture is refused only for what waits.     *)
EXTENDS WindowProgram, TLAPS

Queue ==
  \A k \in Resizes : (\A j \in Resizes : j <= k) => events[k].size = windowSize

Follows ==
  (InLoop \/ wpc = "resources") /\ Resizes = {} => configured = SurfaceSize(windowSize)

TextureKnown ==
  /\ wpc \in {"window", "surface", "adapter", "device", "configure", "resources"} =>
       texture = "none"
  /\ wpc \in {"draw", "present"} => texture \in Success

Held == drawable => wpc \in {"draw", "present"}

Early == wpc \in {"window", "surface", "adapter", "device", "configure", "resources"}
Layout ==
  /\ Early => bound.uniforms = 0
  /\ InLoop => bound = [uniforms |-> 16, vertices |-> 48]

Ending == wpc = "end" \/ ended = "no"

Inv ==
  /\ WindowTypeOK /\ Queue /\ Follows /\ TextureKnown /\ Held /\ Layout /\ Ending
  /\ ErrorsForCause /\ AbortsForCause

LEMMA Numbers ==
  /\ UniformsSize = 16 /\ ShaderUniforms = 16 /\ Vertices = 48
  /\ VertexCount * Stride = 48
BY DEF UniformsSize, ShaderUniforms, Vertices, VertexCount, Stride, RoundUp

LEMMA SizesAreNumbers == Sizes \subseteq Nat /\ 0 \in Sizes /\ Refused = -1
BY SizesAssumption DEF Refused

LEMMA Configures ==
  ASSUME WindowTypeOK, NEW n \in Sizes, Configure(n)
  PROVE  /\ configured' = SurfaceSize(n) /\ configured' \in Sizes \union {Refused}
         /\ errors' \subseteq errors \union {"zero size"}
BY SizesAreNumbers DEF Configure, SurfaceSize

LEMMA Start == WindowInit => Inv
<1> SUFFICES ASSUME WindowInit PROVE Inv
  OBVIOUS
<1> USE DEF WindowInit
<1>1. events \in Seq(Event) /\ Len(events) = 0 /\ MaxEvents \in Nat
  BY EventsAssumption
<1>2. bound \in [uniforms : Nat, vertices : Nat]
  OBVIOUS
<1>3. WindowTypeOK
  <2>1. events \in Seq(Event) /\ Len(events) <= MaxEvents /\ due \in 0..Len(events)
    BY <1>1
  <2>2. windowSize \in Sizes /\ build \in Builds /\ configured \in Sizes \union {Refused}
    OBVIOUS
  <2>3. QED
    BY <1>2, <2>1, <2>2 DEF WindowTypeOK, Statuses
<1>4. Resizes = {}
  BY <1>1 DEF Resizes
<1>5. Queue /\ Follows /\ TextureKnown /\ Held
  BY <1>4 DEF Queue, Follows, TextureKnown, Held, InLoop
<1>6. Layout /\ ErrorsForCause /\ AbortsForCause /\ Ending
  BY DEF Ending, Layout, Early, InLoop, ErrorsForCause, AbortsForCause
<1>7. QED
  BY <1>3, <1>5, <1>6 DEF Inv

(*------------------------------ the program's steps -----------------------*)
(* A step that changes neither the window, nor its events, nor the surface,
   and does not leave the part of main that it is in. *)
LEMMA Untouched ==
  ASSUME Inv, UNCHANGED <<events, windowSize>>
  PROVE  Queue' /\ Resizes' = Resizes
<1>1. Resizes' = Resizes
  BY DEF Resizes
<1>2. QED
  BY <1>1 DEF Inv, Queue

LEMMA SameQueue ==
  ASSUME Inv, UNCHANGED <<events, windowSize, configured>>,
         (InLoop \/ wpc = "resources")' => InLoop \/ wpc = "resources"
  PROVE  Queue' /\ Follows' /\ Resizes' = Resizes
<1>1. Queue' /\ Resizes' = Resizes
  BY Untouched
<1>2. SurfaceSize(windowSize)' = SurfaceSize(windowSize)
  BY DEF SurfaceSize, Refused
<1>3. QED
  BY <1>1, <1>2 DEF Inv, Follows

(* What ended the program stays its cause. *)
LEMMA SameCause ==
  ASSUME Inv, UNCHANGED <<ended, texture, windowSize, events>>, lost => lost'
  PROVE  AbortsForCause'
<1>1. Resizes' = Resizes
  BY Untouched
<1>2. QED
  BY <1>1 DEF Inv, AbortsForCause, Success

LEMMA Lengths ==
  ASSUME WindowTypeOK
  PROVE  /\ events \in Seq(Event) /\ Len(events) \in Nat /\ due \in 0..Len(events)
         /\ Len(events) <= MaxEvents /\ MaxEvents \in Nat
<1>1. events \in Seq(Event) /\ due \in 0..Len(events) /\ Len(events) <= MaxEvents
  BY DEF WindowTypeOK
<1>2. Len(events) \in Nat
  BY <1>1
<1>3. QED
  BY <1>1, <1>2, EventsAssumption

(* Up to the device, the surface is not touched. *)
LEMMA CreateWindowKeeps == ASSUME Inv, CreateWindow PROVE Inv'
<1>1. UNCHANGED <<events, windowSize, configured, texture, build, due, closing, drawable,
                   bound, lost, errors>>
  BY DEF CreateWindow, world, frame
<1>2. /\ wpc \in {"window"}
      /\ \/ Early' /\ wpc' # "resources" /\ ended' = ended
         \/ wpc' = "end" /\ ended' \in {"aborted", "crashed"}
  BY DEF CreateWindow, world, frame, Early, At, Quit, AssertAt
<1>3. WindowTypeOK'
  <2>1. wpc' \in {"window", "surface", "adapter", "device", "configure", "end"}
    BY <1>2 DEF Early
  <2>2. ended' \in {"no", "returned", "aborted", "crashed"}
    BY <1>2 DEF Inv, WindowTypeOK
  <2>3. future' \in {"none", "pending", "good", "bad"}
    BY DEF Inv, WindowTypeOK, CreateWindow, world, frame
  <2>4. QED
    BY <1>1, <2>1, <2>2, <2>3 DEF Inv, WindowTypeOK
<1>4. TextureKnown' /\ Held' /\ ErrorsForCause'
  BY <1>1, <1>2 DEF Inv, TextureKnown, Held, Early, ErrorsForCause
<1>5. Layout' /\ Ending'
  BY <1>1, <1>2 DEF Inv, Ending, Layout, Early, InLoop
<1>6. AbortsForCause'
  BY <1>1, <1>2 DEF Inv, TextureKnown, AbortsForCause, Success
<1>8. Queue' /\ Follows'
  BY <1>1, <1>2, SameQueue DEF InLoop, Early
<1>9. QED
  BY <1>3, <1>4, <1>5, <1>6, <1>8 DEF Inv

LEMMA CreateSurfaceKeeps == ASSUME Inv, CreateSurface PROVE Inv'
<1>1. UNCHANGED <<events, windowSize, configured, texture, build, due, closing, drawable,
                   bound, lost, errors>>
  BY DEF CreateSurface, world, frame
<1>2. /\ wpc \in {"surface"}
      /\ \/ Early' /\ wpc' # "resources" /\ ended' = ended
         \/ wpc' = "end" /\ ended' \in {"aborted", "crashed"}
  BY DEF CreateSurface, world, frame, Early, At, Quit, AssertAt
<1>3. WindowTypeOK'
  <2>1. wpc' \in {"window", "surface", "adapter", "device", "configure", "end"}
    BY <1>2 DEF Early
  <2>2. ended' \in {"no", "returned", "aborted", "crashed"}
    BY <1>2 DEF Inv, WindowTypeOK
  <2>3. future' \in {"none", "pending", "good", "bad"}
    BY DEF Inv, WindowTypeOK, CreateSurface, world, frame
  <2>4. QED
    BY <1>1, <2>1, <2>2, <2>3 DEF Inv, WindowTypeOK
<1>4. TextureKnown' /\ Held' /\ ErrorsForCause'
  BY <1>1, <1>2 DEF Inv, TextureKnown, Held, Early, ErrorsForCause
<1>5. Layout' /\ Ending'
  BY <1>1, <1>2 DEF Inv, Ending, Layout, Early, InLoop
<1>6. AbortsForCause'
  BY <1>1, <1>2 DEF Inv, TextureKnown, AbortsForCause, Success
<1>8. Queue' /\ Follows'
  BY <1>1, <1>2, SameQueue DEF InLoop, Early
<1>9. QED
  BY <1>3, <1>4, <1>5, <1>6, <1>8 DEF Inv

LEMMA RequestKeeps == ASSUME Inv, NEW what \in {"adapter", "device"}, RequestAny(what) PROVE Inv'
<1>1. UNCHANGED <<events, windowSize, configured, texture, build, due, closing, drawable,
                   bound, lost, errors>>
  BY DEF RequestAny, world
<1>2. /\ wpc \in {"adapter", "device"}
      /\ \/ Early' /\ wpc' # "resources" /\ ended' = ended
         \/ wpc' = "end" /\ ended' \in {"aborted", "crashed"}
  BY DEF RequestAny, world, Early, At, Quit, AssertAt
<1>3. WindowTypeOK'
  <2>1. wpc' \in {"window", "surface", "adapter", "device", "configure", "end"}
    BY <1>2 DEF Early
  <2>2. ended' \in {"no", "returned", "aborted", "crashed"}
    BY <1>2 DEF Inv, WindowTypeOK
  <2>3. future' \in {"none", "pending", "good", "bad"}
    BY DEF Inv, WindowTypeOK, RequestAny, world
  <2>4. QED
    BY <1>1, <2>1, <2>2, <2>3 DEF Inv, WindowTypeOK
<1>4. TextureKnown' /\ Held' /\ ErrorsForCause'
  BY <1>1, <1>2 DEF Inv, TextureKnown, Held, Early, ErrorsForCause
<1>5. Layout' /\ Ending'
  BY <1>1, <1>2 DEF Inv, Ending, Layout, Early, InLoop
<1>6. AbortsForCause'
  BY <1>1, <1>2 DEF Inv, TextureKnown, AbortsForCause, Success
<1>8. Queue' /\ Follows'
  BY <1>1, <1>2, SameQueue DEF InLoop, Early
<1>9. QED
  BY <1>3, <1>4, <1>5, <1>6, <1>8 DEF Inv

LEMMA WaitKeeps == ASSUME Inv, WaitAny("adapter", "device") \/ WaitAny("device", "configure") PROVE Inv'
<1>1. UNCHANGED <<events, windowSize, configured, texture, build, due, closing, drawable,
                   bound, lost, errors>>
  BY DEF WaitAny, world
<1>2. /\ wpc \in {"adapter", "device"}
      /\ \/ Early' /\ wpc' # "resources" /\ ended' = ended
         \/ wpc' = "end" /\ ended' \in {"aborted", "crashed"}
  BY DEF WaitAny, world, Early, At, Quit, AssertAt
<1>3. WindowTypeOK'
  <2>1. wpc' \in {"window", "surface", "adapter", "device", "configure", "end"}
    BY <1>2 DEF Early
  <2>2. ended' \in {"no", "returned", "aborted", "crashed"}
    BY <1>2 DEF Inv, WindowTypeOK
  <2>3. future' \in {"none", "pending", "good", "bad"}
    BY DEF Inv, WindowTypeOK, WaitAny, world
  <2>4. QED
    BY <1>1, <2>1, <2>2, <2>3 DEF Inv, WindowTypeOK
<1>4. TextureKnown' /\ Held' /\ ErrorsForCause'
  BY <1>1, <1>2 DEF Inv, TextureKnown, Held, Early, ErrorsForCause
<1>5. Layout' /\ Ending'
  BY <1>1, <1>2 DEF Inv, Ending, Layout, Early, InLoop
<1>6. AbortsForCause'
  BY <1>1, <1>2 DEF Inv, TextureKnown, AbortsForCause, Success
<1>8. Queue' /\ Follows'
  BY <1>1, <1>2, SameQueue DEF InLoop, Early
<1>9. QED
  BY <1>3, <1>4, <1>5, <1>6, <1>8 DEF Inv

(* main reads the window's size; what changed before waits as an event. *)
LEMMA ConfigureKeeps == ASSUME Inv, ConfigureSurface PROVE Inv'
<1>1. /\ UNCHANGED <<events, windowSize, build, due, closing, future, drawable, bound, texture,
                     lost>>
      /\ wpc = "configure"
      /\ \/ wpc' = "resources" /\ ended' = ended /\ Configure(windowSize)
         \/ wpc' = "end" /\ ended' = "crashed" /\ UNCHANGED <<configured, errors>>
  BY DEF ConfigureSurface, world, At, Quit
<1>2. /\ wpc' = "resources" => configured' = SurfaceSize(windowSize)
      /\ configured' \in Sizes \union {Refused}
      /\ errors' \subseteq errors \union {"zero size"}
  BY <1>1, Configures DEF Inv, WindowTypeOK
<1>3. WindowTypeOK'
  BY <1>1, <1>2 DEF Inv, WindowTypeOK
<1>4. Queue' /\ Resizes' = Resizes
  BY <1>1, Untouched
<1>5. Follows'
  BY <1>1, <1>2 DEF Follows, InLoop, SurfaceSize, Refused
<1>6. TextureKnown' /\ Held' /\ ErrorsForCause'
  BY <1>1, <1>2 DEF Inv, TextureKnown, Held, ErrorsForCause
<1>7. Layout' /\ Ending'
  BY <1>1 DEF Inv, Ending, Layout, Early, InLoop
<1>8. AbortsForCause'
  BY <1>1 DEF Inv, TextureKnown, AbortsForCause, Success
<1>9. QED
  BY <1>3, <1>4, <1>5, <1>6, <1>7, <1>8 DEF Inv

LEMMA ResourcesKeep == ASSUME Inv, CreateResources PROVE Inv'
<1>1. /\ UNCHANGED <<events, windowSize, configured, texture, build, due, closing, future,
                     drawable, lost>>
      /\ wpc = "resources" /\ wpc' = "loop" /\ ended' = ended
  BY DEF CreateResources, world, At
<1>2. bound' = [uniforms |-> 16, vertices |-> 48] /\ errors' = errors
  BY Numbers DEF CreateResources
<1>3. WindowTypeOK'
  BY <1>1, <1>2 DEF Inv, WindowTypeOK
<1>4. Queue' /\ Follows'
  BY <1>1, SameQueue
<1>5. TextureKnown' /\ Held' /\ ErrorsForCause'
  BY <1>1, <1>2 DEF Inv, TextureKnown, Held, ErrorsForCause
<1>6. Layout'
  BY <1>1, <1>2 DEF Layout, Early
<1>7. AbortsForCause' /\ Ending'
  BY <1>1 DEF Inv, AbortsForCause, Ending
<1>8. QED
  BY <1>3, <1>4, <1>5, <1>6, <1>7 DEF Inv

LEMMA HeadKeeps == ASSUME Inv, LoopHead PROVE Inv'
<1>1. /\ UNCHANGED <<events, windowSize, build, closing, future, configured,
                     drawable, bound, texture, lost, errors>>
      /\ wpc = "loop"
      /\ \/ wpc' = "end" /\ ended' = "returned" /\ due' = due
         \/ wpc' = "poll" /\ ended' = ended /\ due' = Len(events)
  BY DEF LoopHead, world, frame, At, Quit
<1>2. due' \in 0..Len(events)
  BY <1>1, Lengths DEF Inv
<1>3. WindowTypeOK'
  BY <1>1, <1>2 DEF Inv, WindowTypeOK
<1>4. Queue' /\ Follows' /\ Resizes' = Resizes
  BY <1>1, SameQueue DEF InLoop
<1>5. TextureKnown'
  BY <1>1 DEF TextureKnown
<1>6. Held' /\ ErrorsForCause' /\ Layout' /\ AbortsForCause' /\ Ending'
  BY <1>1 DEF Inv, Ending, Held, ErrorsForCause, Layout, Early, InLoop, AbortsForCause
<1>7. QED
  BY <1>3, <1>4, <1>5, <1>6 DEF Inv

(* The first event goes; if it was the last resize, the surface has its size. *)
LEMMA DispatchKeeps == ASSUME Inv, DispatchEvent PROVE Inv'
<1> DEFINE e == Head(events)
<1>1. /\ UNCHANGED <<wpc, ended, build, windowSize, future, drawable, bound, texture, lost>>
      /\ wpc = "poll" /\ due > 0 /\ events' = Tail(events) /\ due' = due - 1
      /\ closing' \in BOOLEAN
      /\ IF e.kind = "resize" THEN Configure(e.size) ELSE UNCHANGED <<configured, errors>>
  BY DEF DispatchEvent, Inv, WindowTypeOK
<1>2. /\ events \in Seq(Event) /\ Len(events) \in Nat /\ Len(events) >= 1
      /\ due \in 0..Len(events) /\ Len(events) <= MaxEvents /\ MaxEvents \in Nat
  BY <1>1, Lengths DEF Inv
<1>3. /\ events' \in Seq(Event) /\ Len(events') = Len(events) - 1
      /\ \A k \in 1..Len(events') : events'[k] = events[k + 1]
      /\ events[1] = e /\ e \in Event
  BY <1>1, <1>2
<1>4. \A k \in 1..Len(events') : k \in Resizes' <=> k + 1 \in Resizes
  BY <1>2, <1>3 DEF Resizes
<1>5. e.kind = "resize" => e.size \in Sizes
  <2>1. CASE e \in {Resize(n) : n \in Sizes}
    <3>1. PICK n \in Sizes : e = Resize(n)
      BY <2>1
    <3>2. QED
      BY <3>1 DEF Resize
  <2>2. CASE e \in {Key("press"), Key("release"), CloseButton}
    BY <2>2 DEF Key, CloseButton
  <2>3. QED
    BY <1>3, <2>1, <2>2 DEF Event
<1>6. /\ e.kind = "resize" => configured' = SurfaceSize(e.size)
      /\ configured' \in Sizes \union {Refused}
      /\ errors' \subseteq errors \union {"zero size"}
  BY <1>1, <1>5, Configures DEF Inv, WindowTypeOK
<1>7. WindowTypeOK'
  <2>1. due' \in 0..Len(events') /\ Len(events') <= MaxEvents
    BY <1>1, <1>2, <1>3
  <2>2. errors' \subseteq {"zero size", "validation"}
    BY <1>6 DEF Inv, WindowTypeOK
  <2>3. /\ wpc' \in {"window", "surface", "adapter", "device", "configure", "resources",
                     "loop", "poll", "acquire", "draw", "present", "end"}
        /\ ended' \in {"no", "returned", "aborted", "crashed"} /\ build' \in Builds
        /\ windowSize' \in Sizes /\ future' \in {"none", "pending", "good", "bad"}
        /\ drawable' \in BOOLEAN /\ bound' \in [uniforms : Nat, vertices : Nat]
        /\ lost' \in BOOLEAN /\ texture' \in Statuses
    BY <1>1 DEF Inv, WindowTypeOK
  <2>4. QED
    BY <1>1, <1>3, <1>6, <2>1, <2>2, <2>3 DEF WindowTypeOK
<1>8. Queue'
  <2> SUFFICES ASSUME NEW k \in Resizes', \A j \in Resizes' : j <= k
               PROVE  events'[k].size = windowSize
    BY <1>1 DEF Queue
  <2>1. k \in 1..Len(events') /\ k + 1 \in Resizes
    BY <1>4 DEF Resizes
  <2>2. \A j \in Resizes : j <= k + 1
    <3> SUFFICES ASSUME NEW j \in Resizes, j > k + 1 PROVE FALSE
      BY <2>1 DEF Resizes
    <3>1. j - 1 \in 1..Len(events') /\ (j - 1) + 1 = j
      BY <1>2, <1>3, <2>1 DEF Resizes
    <3>2. j - 1 \in Resizes'
      BY <1>4, <3>1
    <3>3. QED
      BY <2>1, <3>1, <3>2
  <2>3. events[k + 1].size = windowSize
    BY <2>1, <2>2 DEF Inv, Queue
  <2>4. QED
    BY <1>3, <2>1, <2>3
<1>9. Follows'
  <2> SUFFICES ASSUME Resizes' = {} PROVE configured' = SurfaceSize(windowSize)
    BY <1>1 DEF Follows, SurfaceSize, Refused
  <2>1. \A k \in Resizes : k = 1
    <3> SUFFICES ASSUME NEW k \in Resizes, k # 1 PROVE FALSE
      OBVIOUS
    <3>1. k - 1 \in 1..Len(events') /\ (k - 1) + 1 = k
      BY <1>2, <1>3 DEF Resizes
    <3>2. QED
      BY <1>4, <3>1
  <2>2. CASE e.kind = "resize"
    <3>1. 1 \in Resizes
      BY <1>2, <1>3, <2>2 DEF Resizes
    <3>2. e.size = windowSize
      BY <1>3, <2>1, <3>1 DEF Inv, Queue
    <3>3. QED
      BY <1>6, <2>2, <3>2
  <2>3. CASE e.kind # "resize"
    <3>1. Resizes = {}
      BY <1>3, <2>1, <2>3 DEF Resizes
    <3>2. QED
      BY <1>1, <2>3, <3>1 DEF Inv, Follows, InLoop
  <2>4. QED
    BY <2>2, <2>3
<1>10. TextureKnown'
  BY <1>1 DEF TextureKnown
<1>11. Held' /\ ErrorsForCause' /\ Layout'
  BY <1>1, <1>6 DEF Inv, Held, ErrorsForCause, Layout, Early, InLoop
<1>12. AbortsForCause' /\ Ending'
  BY <1>1 DEF Inv, AbortsForCause, Ending
<1>13. QED
  BY <1>7, <1>8, <1>9, <1>10, <1>11, <1>12 DEF Inv

(* The rest of a turn of the loop: the surface and the window stay. *)
LEMMA TurnKeeps ==
  ASSUME Inv, EndPoll \/ GetCurrentTexture \/ Draw \/ Present
  PROVE  Inv'
<1>1. /\ UNCHANGED <<events, windowSize, build, due, closing, future, configured, bound, lost>>
      /\ wpc \in {"poll", "acquire", "draw", "present"}
      /\ \/ wpc' \in {"loop", "acquire", "draw", "present"} /\ ended' = ended
         \/ wpc' = "end" /\ ended' = "aborted" /\ wpc \in {"acquire", "present"}
      /\ drawable' \in BOOLEAN /\ (drawable' => wpc' \in {"draw", "present"})
      /\ wpc # "acquire" => texture' = texture
      /\ wpc = "present" /\ wpc' = "end" => lost
      /\ wpc = "acquire" => texture' \in TextureStatus /\ wpc' \in {"draw", "end"}
                            /\ (wpc' = "draw" <=> texture' \in Success)
      /\ wpc' = "present" => wpc = "draw"
      /\ wpc' = "draw" => wpc = "acquire"
  <2>1. CASE EndPoll
    BY <2>1 DEF EndPoll, world, frame, At, Inv, WindowTypeOK, Held
  <2>2. CASE GetCurrentTexture
    BY <2>2 DEF GetCurrentTexture, world, AssertAt, At, Quit
  <2>3. CASE Draw
    BY <2>3 DEF Draw, world, At, Inv, WindowTypeOK
  <2>4. CASE Present
    BY <2>4 DEF Present, world, At, Quit
  <2>5. QED
    BY <2>1, <2>2, <2>3, <2>4
<1>2. errors' = errors
  <2>1. CASE Draw
    <3>1. bound.vertices = 48
      BY <2>1 DEF Draw, At, Inv, Layout, InLoop
    <3>2. QED
      BY <2>1, <3>1, Numbers DEF Draw
  <2>2. CASE EndPoll \/ GetCurrentTexture \/ Present
    BY <2>2 DEF EndPoll, GetCurrentTexture, Present
  <2>3. QED
    BY <2>1, <2>2
<1>3. WindowTypeOK'
  <2>1. texture' \in Statuses
    BY <1>1 DEF Inv, WindowTypeOK, TextureStatus, Statuses, Success
  <2>2. QED
    BY <1>1, <1>2, <2>1 DEF Inv, WindowTypeOK
<1>4. Queue' /\ Follows' /\ Resizes' = Resizes
  BY <1>1, SameQueue DEF InLoop
<1>5. TextureKnown'
  BY <1>1 DEF Inv, TextureKnown
<1>6. Held' /\ ErrorsForCause' /\ Layout' /\ Ending'
  BY <1>1, <1>2 DEF Inv, Held, ErrorsForCause, Layout, Early, InLoop, Ending
<1>7. AbortsForCause'
  <2> SUFFICES ASSUME ended' = "aborted"
               PROVE  /\ texture' = "outdated" => Resizes # {}
                      /\ texture' \in {"error", "lost"} => lost \/ windowSize = 0 \/ Resizes # {}
                      /\ texture' \in Success => lost
    BY <1>1, <1>4 DEF AbortsForCause
  <2>1. wpc' = "end" /\ wpc \in {"acquire", "present"}
    BY <1>1 DEF Inv, Ending
  <2>2. CASE wpc = "present"
    BY <1>1, <2>1, <2>2 DEF Inv, TextureKnown, Success
  <2>3. CASE wpc = "acquire"
    <3>1. texture' \in TextureStatus /\ texture' \notin Success
      BY <1>1, <2>1, <2>3
    <3>2. Resizes = {} => configured = SurfaceSize(windowSize)
      BY <2>3 DEF Inv, Follows, InLoop
    <3>3. texture' = "outdated" => configured # Refused /\ configured # windowSize
      BY <3>1 DEF TextureStatus
    <3>4. texture' \in {"error", "lost"} => lost \/ configured = Refused
      BY <3>1 DEF TextureStatus
    <3>5. SurfaceSize(windowSize) = Refused => windowSize = 0
      <4>1. windowSize \in Nat /\ Refused = -1
        BY SizesAreNumbers DEF Inv, WindowTypeOK
      <4>2. QED
        BY <4>1 DEF SurfaceSize
    <3>6. QED
      BY <3>1, <3>2, <3>3, <3>4, <3>5 DEF SurfaceSize
  <2>4. QED
    BY <2>1, <2>2, <2>3
<1>8. QED
  BY <1>3, <1>4, <1>5, <1>6, <1>7 DEF Inv

(*------------------------------ the world's steps -------------------------*)
LEMMA AnswerKeeps == ASSUME Inv, Answer PROVE Inv'
<1>1. /\ UNCHANGED <<wpc, ended, events, windowSize, texture, build, due, closing, configured,
                     drawable, bound, lost, errors>>
      /\ future' \in {"good", "bad"}
  BY DEF Answer, world
<1>2. WindowTypeOK'
  BY <1>1 DEF Inv, WindowTypeOK
<1>3. Queue' /\ Follows' /\ Resizes' = Resizes
  BY <1>1, SameQueue DEF InLoop
<1>4. TextureKnown' /\ Held' /\ ErrorsForCause'
  BY <1>1, <1>3 DEF Inv, TextureKnown, Held, ErrorsForCause
<1>5. Layout' /\ Ending'
  BY <1>1 DEF Inv, Layout, Early, InLoop, Ending
<1>6. AbortsForCause'
  BY <1>1, SameCause
<1>7. QED
  BY <1>2, <1>3, <1>4, <1>5, <1>6 DEF Inv

LEMMA LossKeeps == ASSUME Inv, LoseDevice PROVE Inv'
<1>1. /\ UNCHANGED <<wpc, ended, events, windowSize, texture, build, due, closing, configured,
                     drawable, bound, future, errors>>
      /\ lost' = TRUE
  BY DEF LoseDevice, world
<1>2. WindowTypeOK'
  BY <1>1 DEF Inv, WindowTypeOK
<1>3. Queue' /\ Follows' /\ Resizes' = Resizes
  BY <1>1, SameQueue DEF InLoop
<1>4. TextureKnown' /\ Held' /\ ErrorsForCause'
  BY <1>1, <1>3 DEF Inv, TextureKnown, Held, ErrorsForCause
<1>5. Layout' /\ Ending'
  BY <1>1 DEF Inv, Layout, Early, InLoop, Ending
<1>6. AbortsForCause'
  BY <1>1, SameCause
<1>7. QED
  BY <1>2, <1>3, <1>4, <1>5, <1>6 DEF Inv

(* A change of the window's size is a resize at the end of the events. *)
LEMMA HappenKeeps == ASSUME Inv, NEW e \in Event, Happen(e) PROVE Inv'
<1>1. /\ UNCHANGED <<wpc, ended, build, due, closing, future, configured, drawable, bound,
                     texture, lost, errors>>
      /\ wpc \notin {"window", "end"} /\ Len(events) < MaxEvents
      /\ events' = Append(events, e)
      /\ IF e.kind = "resize" THEN windowSize' = e.size ELSE UNCHANGED windowSize
  BY DEF Happen, frame, HasWindow
<1>2. /\ events \in Seq(Event) /\ Len(events) \in Nat /\ due \in 0..Len(events)
      /\ MaxEvents \in Nat
  BY Lengths DEF Inv
<1>3. /\ events' \in Seq(Event) /\ Len(events') = Len(events) + 1
      /\ \A k \in 1..Len(events) : events'[k] = events[k]
      /\ events'[Len(events) + 1] = e
  BY <1>1, <1>2
<1>4. Resizes' = IF e.kind = "resize" THEN Resizes \union {Len(events) + 1} ELSE Resizes
  <2>1. 1..Len(events') = (1..Len(events)) \union {Len(events) + 1}
    BY <1>2, <1>3
  <2>2. QED
    BY <1>2, <1>3, <2>1 DEF Resizes
<1>5. e.kind = "resize" => e.size \in Sizes
  <2>1. CASE e \in {Resize(n) : n \in Sizes}
    <3>1. PICK n \in Sizes : e = Resize(n)
      BY <2>1
    <3>2. QED
      BY <3>1 DEF Resize
  <2>2. CASE e \in {Key("press"), Key("release"), CloseButton}
    BY <2>2 DEF Key, CloseButton
  <2>3. QED
    BY <2>1, <2>2 DEF Event
<1>6. windowSize' \in Sizes
  BY <1>1, <1>5 DEF Inv, WindowTypeOK
<1>7. WindowTypeOK'
  <2>1. due' \in 0..Len(events') /\ Len(events') <= MaxEvents
    BY <1>1, <1>2, <1>3
  <2>2. QED
    BY <1>1, <1>3, <1>6, <2>1 DEF Inv, WindowTypeOK
<1>8. Queue'
  <2> SUFFICES ASSUME NEW k \in Resizes', \A j \in Resizes' : j <= k
               PROVE  events'[k].size = windowSize'
    BY DEF Queue
  <2>1. CASE e.kind = "resize"
    <3>1. k = Len(events) + 1
      BY <1>2, <1>4, <2>1 DEF Resizes
    <3>2. QED
      BY <1>1, <1>3, <2>1, <3>1
  <2>2. CASE e.kind # "resize"
    <3>1. k \in Resizes /\ k \in 1..Len(events) /\ \A j \in Resizes : j <= k
      BY <1>4, <2>2 DEF Resizes
    <3>2. QED
      BY <1>1, <1>3, <2>2, <3>1 DEF Inv, Queue
  <2>3. QED
    BY <2>1, <2>2
<1>9. Follows'
  BY <1>1, <1>4 DEF Inv, Follows, InLoop, SurfaceSize, Refused
<1>10. TextureKnown'
  BY <1>1 DEF Inv, TextureKnown
<1>11. Held' /\ ErrorsForCause' /\ Layout' /\ Ending'
  BY <1>1 DEF Inv, Held, ErrorsForCause, Layout, Early, InLoop, Ending
<1>12. AbortsForCause'
  <2>1. ended' = "no"
    BY <1>1 DEF Inv, Ending
  <2>2. QED
    BY <2>1 DEF AbortsForCause
<1>13. QED
  BY <1>7, <1>8, <1>9, <1>10, <1>11, <1>12 DEF Inv

(*---------------------------------- results -------------------------------*)
LEMMA StutterKeeps == ASSUME Inv, UNCHANGED wvars PROVE Inv'
<1>1. UNCHANGED <<wpc, ended, build, windowSize, events, due, closing, future, configured,
                  drawable, bound, texture, lost, errors>>
  BY DEF wvars
<1>2. WindowTypeOK'
  <2>1. events' \in Seq(Event) /\ due' \in 0..Len(events') /\ Len(events') <= MaxEvents
    BY <1>1, Lengths DEF Inv
  <2>2. bound' \in [uniforms : Nat, vertices : Nat]
    BY <1>1 DEF Inv, WindowTypeOK
  <2>3. /\ closing' \in BOOLEAN /\ drawable' \in BOOLEAN /\ lost' \in BOOLEAN
        /\ texture' \in Statuses
    BY <1>1 DEF Inv, WindowTypeOK
  <2>4. /\ wpc' \in {"window", "surface", "adapter", "device", "configure", "resources",
                     "loop", "poll", "acquire", "draw", "present", "end"}
        /\ ended' \in {"no", "returned", "aborted", "crashed"} /\ build' \in Builds
        /\ windowSize' \in Sizes /\ future' \in {"none", "pending", "good", "bad"}
        /\ configured' \in Sizes \union {Refused} /\ errors' \subseteq {"zero size", "validation"}
    BY <1>1 DEF Inv, WindowTypeOK, Refused
  <2>5. QED
    BY <2>1, <2>2, <2>3, <2>4 DEF WindowTypeOK, Refused
<1>3. Queue' /\ Follows' /\ Resizes' = Resizes
  BY <1>1, SameQueue DEF InLoop
<1>4. TextureKnown' /\ Held' /\ ErrorsForCause'
  BY <1>1, <1>3 DEF Inv, TextureKnown, Held, ErrorsForCause
<1>5. Layout' /\ Ending'
  BY <1>1 DEF Inv, Layout, Early, InLoop, Ending
<1>6. AbortsForCause'
  BY <1>1, SameCause
<1>7. QED
  BY <1>2, <1>3, <1>4, <1>5, <1>6 DEF Inv

LEMMA NextKeeps == ASSUME Inv, [WindowNext]_wvars PROVE Inv'
<1>1. CASE Program
  <2>1. CASE CreateWindow \/ CreateSurface
    BY <2>1, CreateWindowKeeps, CreateSurfaceKeeps
  <2>2. CASE RequestAny("adapter") \/ RequestAny("device")
    BY <2>2, RequestKeeps
  <2>3. CASE WaitAny("adapter", "device") \/ WaitAny("device", "configure")
    BY <2>3, WaitKeeps
  <2>4. CASE ConfigureSurface \/ CreateResources \/ LoopHead \/ DispatchEvent
    BY <2>4, ConfigureKeeps, ResourcesKeep, HeadKeeps, DispatchKeeps
  <2>5. CASE EndPoll \/ GetCurrentTexture \/ Draw \/ Present
    BY <2>5, TurnKeeps
  <2>6. QED
    BY <1>1, <2>1, <2>2, <2>3, <2>4, <2>5 DEF Program
<1>2. CASE Answer \/ LoseDevice
  BY <1>2, AnswerKeeps, LossKeeps
<1>3. CASE \E e \in Event : Happen(e)
  BY <1>3, HappenKeeps
<1>4. CASE UNCHANGED wvars
  BY <1>4, StutterKeeps
<1>5. QED
  BY <1>1, <1>2, <1>3, <1>4 DEF WindowNext

(* The inductive invariant of the window program, however windows, devices and
   futures behave. *)
THEOREM Invariance == WindowSpec => []Inv
<1>1. QED
  BY Start, NextKeeps, PTL DEF WindowSpec

(* With no resize waiting the surface has the size of the window, in every
   order of the callbacks and of main's own look at the window. *)
THEOREM SurfaceFollows == WindowSpec => []FollowsWindow
<1>1. Inv => FollowsWindow
  BY DEF Inv, Follows, FollowsWindow
<1>2. QED
  BY <1>1, Invariance, PTL

(* An abort has a cause outside of the program. *)
THEOREM AbortsHaveCause == WindowSpec => []AbortsForCause
<1>1. Inv => AbortsForCause
  BY DEF Inv
<1>2. QED
  BY <1>1, Invariance, PTL

(* The layouts and the draw are never an error. *)
THEOREM ErrorsHaveCause == WindowSpec => []ErrorsForCause
<1>1. Inv => ErrorsForCause
  BY DEF Inv
<1>2. QED
  BY <1>1, Invariance, PTL

(* The state keeps its type. *)
THEOREM WindowTyped == WindowSpec => []WindowTypeOK
<1>1. Inv => WindowTypeOK
  BY DEF Inv
<1>2. QED
  BY <1>1, Invariance, PTL

(* The surface is configured only while no texture of it is held. *)
LEMMA SteadyStep ==
  ASSUME Inv, [WindowNext]_wvars, configured' # configured PROVE ~drawable
<1>1. ConfigureSurface \/ DispatchEvent
  BY DEF WindowNext, Program, CreateWindow, CreateSurface, RequestAny, WaitAny,
         CreateResources, LoopHead, EndPoll, GetCurrentTexture, Draw, Present, Answer,
         LoseDevice, Happen, frame, wvars
<1>2. wpc \in {"configure", "poll"}
  BY <1>1 DEF ConfigureSurface, DispatchEvent, At
<1>3. QED
  BY <1>2 DEF Inv, Held

(* No callback and no step of main configures the surface under a texture. *)
THEOREM TextureIsSteady == WindowSpec => SteadyTexture
<1>1. Inv /\ [WindowNext]_wvars => [configured' # configured => ~drawable]_wvars
  BY SteadyStep
<1>2. QED
  BY <1>1, Invariance, PTL DEF WindowSpec, SteadyTexture
(* What ends the loop, and what is reported, comes from outside the program. *)
THEOREM FaultsHaveCause == WindowSpec => []FaultsForCause
<1>1. AbortsForCause /\ ErrorsForCause => FaultsForCause
  BY DEF FaultsForCause
<1>2. QED
  BY <1>1, AbortsHaveCause, ErrorsHaveCause, PTL
-----------------------------------------------------------------------------
(* Why escape ends the program. *)

(* The places of main by the steps to the head of the loop, where it looks at
   closing; a request has three, and a poll one for each of its events. *)
ToLoop ==
  [window |-> 11, surface |-> 10, adapter |-> 7, device |-> 4, configure |-> 3,
   resources |-> 2, poll |-> 5, acquire |-> 4, draw |-> 3, present |-> 2, loop |-> 1,
   end |-> 0]
RequestSteps == [none |-> 2, pending |-> 1, good |-> 0, bad |-> 0]
HeadFrom(place, answer, n) ==
  ToLoop[place] + (IF place \in {"adapter", "device"} THEN RequestSteps[answer] ELSE 0)
                + (IF place = "poll" THEN n ELSE 0)
ToHead == HeadFrom(wpc, future, due)

(* The places in the queue where a released escape waits. *)
Escapes == {i \in 1..Len(events) : events[i] = Key("release")}

(* The steps until the i-th event is dispatched: those of this poll, or those
   to the head of the loop and of the poll that begins there. *)
ToDispatch(i) == IF wpc = "poll" /\ i <= due THEN i ELSE MaxEvents + ToHead

(* An escape is dispatched in the poll that finds it, or stays in the queue
   and comes nearer to that poll with every step of main, whatever else
   arrives; and closing stays until the head of the loop ends the program. *)
Keeps ==
  /\ closing => closing' /\ ToHead' <= ToHead
  /\ closing' \/ \A i \in Escapes : \E j \in Escapes' : ToDispatch(j)' <= ToDispatch(i)
Nears ==
  /\ closing => closing' /\ ToHead' < ToHead
  /\ closing' \/ \A i \in Escapes : \E j \in Escapes' : ToDispatch(j)' < ToDispatch(i)
EscapeAdvances == [][wpc' = "end" \/ (Keeps /\ (Program => Nears))]_wvars

LEMMA LoopSteps ==
  /\ ToLoop["window"] = 11 /\ ToLoop["surface"] = 10 /\ ToLoop["adapter"] = 7
  /\ ToLoop["device"] = 4 /\ ToLoop["configure"] = 3 /\ ToLoop["resources"] = 2
  /\ ToLoop["poll"] = 5 /\ ToLoop["acquire"] = 4 /\ ToLoop["draw"] = 3
  /\ ToLoop["present"] = 2 /\ ToLoop["loop"] = 1 /\ ToLoop["end"] = 0
  /\ RequestSteps["none"] = 2 /\ RequestSteps["pending"] = 1
  /\ RequestSteps["good"] = 0 /\ RequestSteps["bad"] = 0
BY DEF ToLoop, RequestSteps

(* The steps to the head of the loop, place by place. *)
LEMMA HeadFacts ==
  ASSUME NEW f \in {"none", "pending", "good", "bad"}, NEW n \in Nat
  PROVE  /\ HeadFrom("window", f, n) = 11 /\ HeadFrom("surface", f, n) = 10
         /\ HeadFrom("adapter", f, n) = 7 + RequestSteps[f]
         /\ HeadFrom("device", f, n) = 4 + RequestSteps[f]
         /\ HeadFrom("configure", f, n) = 3 /\ HeadFrom("resources", f, n) = 2
         /\ HeadFrom("poll", f, n) = 5 + n /\ HeadFrom("acquire", f, n) = 4
         /\ HeadFrom("draw", f, n) = 3 /\ HeadFrom("present", f, n) = 2
         /\ HeadFrom("loop", f, n) = 1 /\ HeadFrom("end", f, n) = 0
         /\ RequestSteps[f] \in 0..2
BY LoopSteps DEF HeadFrom

LEMMA Typed ==
  ASSUME Inv, [WindowNext]_wvars
  PROVE  /\ future \in {"none", "pending", "good", "bad"} /\ due \in Nat
         /\ future' \in {"none", "pending", "good", "bad"} /\ due' \in Nat
         /\ ToHead = HeadFrom(wpc, future, due) /\ ToHead' = HeadFrom(wpc', future', due')
         /\ ToHead \in Nat /\ ToHead' \in Nat
         /\ Escapes \subseteq Nat \ {0} /\ MaxEvents \in Nat
<1>1. /\ future \in {"none", "pending", "good", "bad"} /\ due \in Nat
      /\ future' \in {"none", "pending", "good", "bad"} /\ due' \in Nat
      /\ wpc \in DOMAIN ToLoop /\ wpc' \in DOMAIN ToLoop
  <2>1. WindowTypeOK /\ WindowTypeOK'
    BY NextKeeps DEF Inv
  <2>2. due \in Nat
    BY Lengths DEF Inv
  <2>3. due' \in Nat
    <3>1. events' \in Seq(Event) /\ due' \in 0..Len(events')
      BY <2>1 DEF WindowTypeOK, Event, Resize, Key, CloseButton
    <3>2. Len(events') \in Nat
      BY <3>1
    <3>3. QED
      BY <3>1, <3>2
  <2>4. QED
    BY <2>1, <2>2, <2>3 DEF WindowTypeOK, ToLoop
<1>2. \A w \in DOMAIN ToLoop, f \in {"none", "pending", "good", "bad"}, n \in Nat :
        HeadFrom(w, f, n) \in Nat
  BY HeadFacts DEF ToLoop
<1>3. ToHead = HeadFrom(wpc, future, due) /\ ToHead' = HeadFrom(wpc', future', due')
  BY DEF ToHead, HeadFrom, ToLoop, RequestSteps
<1>4. Escapes \subseteq Nat \ {0}
  BY Lengths DEF Escapes, Inv
<1>5. QED
  BY <1>1, <1>2, <1>3, <1>4, EventsAssumption

LEMMA Sums == \A k, m, n \in Nat : m < n => k + m < k + n
OBVIOUS

(* A step outside the queue, and not into a poll. *)
LEMMA NearsOutside ==
  ASSUME Inv, [WindowNext]_wvars, UNCHANGED <<events, closing>>,
         wpc = "poll" => due = 0, wpc' # "poll", ToHead' < ToHead
  PROVE  Nears
<1>1. Escapes' = Escapes
  BY DEF Escapes, Key
<1>2. ASSUME NEW i \in Escapes PROVE ToDispatch(i)' < ToDispatch(i)
  <2>1. i \in Nat \ {0} /\ MaxEvents \in Nat /\ ToHead \in Nat /\ ToHead' \in Nat
    BY Typed
  <2>2. ToDispatch(i) = MaxEvents + ToHead
    BY <2>1 DEF ToDispatch
  <2>3. ToDispatch(i)' = MaxEvents + ToHead'
    BY DEF ToDispatch
  <2>4. MaxEvents + ToHead' < MaxEvents + ToHead
    BY <2>1, Sums
  <2>5. QED
    BY <2>2, <2>3, <2>4
<1>3. QED
  BY <1>1, <1>2 DEF Nears

(* The poll begins with all events that wait. *)
LEMMA HeadNears == ASSUME Inv, LoopHead PROVE wpc' = "end" \/ Nears
<1>1. SUFFICES ASSUME wpc' # "end" PROVE Nears
  OBVIOUS
<1>2. /\ ~closing /\ closing' = closing /\ events' = events /\ due' = Len(events)
      /\ wpc = "loop" /\ wpc' = "poll"
  BY <1>1 DEF LoopHead, world, At, Quit
<1>3. Escapes' = Escapes
  BY <1>2 DEF Escapes, Key
<1>4. ASSUME NEW i \in Escapes PROVE ToDispatch(i)' < ToDispatch(i)
  <2>1. i \in Nat \ {0} /\ MaxEvents \in Nat /\ future \in {"none", "pending", "good", "bad"}
        /\ due \in Nat /\ ToHead = HeadFrom(wpc, future, due)
    BY Typed DEF WindowNext, Program
  <2>2. i <= due' /\ i <= MaxEvents
    BY <1>2, Lengths DEF Escapes, Inv
  <2>3. ToHead = 1
    BY <1>2, <2>1, HeadFacts
  <2>4. ToDispatch(i) = MaxEvents + 1
    BY <1>2, <2>3 DEF ToDispatch
  <2>5. ToDispatch(i)' = i
    BY <1>2, <2>2 DEF ToDispatch
  <2>6. QED
    BY <2>1, <2>2, <2>4, <2>5
<1>5. QED
  BY <1>2, <1>3, <1>4 DEF Nears

(* The head of the queue is heard, the others move up. *)
LEMMA DispatchNears == ASSUME Inv, DispatchEvent PROVE Nears
<1>1. /\ wpc = "poll" /\ wpc' = "poll" /\ due > 0 /\ due' = due - 1 /\ future' = future
      /\ events' = Tail(events)
      /\ closing' = (closing \/ Head(events) = Key("release") \/ Head(events) = CloseButton)
  BY DEF DispatchEvent
<1>2. /\ due \in Nat /\ due' \in Nat /\ future \in {"none", "pending", "good", "bad"}
      /\ ToHead = HeadFrom(wpc, future, due) /\ ToHead' = HeadFrom(wpc', future', due')
      /\ Escapes \subseteq Nat \ {0} /\ MaxEvents \in Nat
  BY Typed DEF WindowNext, Program
<1>3. ToHead = 5 + due /\ ToHead' = 5 + due'
  BY <1>1, <1>2, HeadFacts
<1>4. (closing => closing') /\ ToHead' < ToHead
  <2>1. 5 + due' < 5 + due
    BY <1>1, <1>2
  <2>2. QED
    BY <1>1, <1>3, <2>1
<1>5. ASSUME ~closing', NEW i \in Escapes
      PROVE  \E j \in Escapes' : ToDispatch(j)' < ToDispatch(i)
  <2>1. /\ events \in Seq(Event) /\ Len(events) \in Nat /\ i \in 1..Len(events)
        /\ events[i] = Key("release")
    BY Lengths DEF Escapes, Inv
  <2>2. i # 1
    <3>1. Head(events) # Key("release")
      BY <1>1, <1>5
    <3>2. Head(events) = events[1]
      BY <2>1
    <3>3. QED
      BY <2>1, <3>1, <3>2
  <2>3. Len(events') = Len(events) - 1 /\ \A k \in 1..Len(events') : events'[k] = events[k + 1]
    BY <1>1, <2>1
  <2>4. i - 1 \in 1..Len(events') /\ events'[i - 1] = events[(i - 1) + 1] /\ (i - 1) + 1 = i
    BY <2>1, <2>2, <2>3
  <2>5. i - 1 \in Escapes'
    BY <2>1, <2>4 DEF Escapes, Key
  <2>6. ToDispatch(i - 1)' < ToDispatch(i)
    <3>1. CASE i <= due
      <4>1. ToDispatch(i) = i
        BY <1>1, <3>1 DEF ToDispatch
      <4>2. i - 1 <= due'
        BY <1>1, <1>2, <2>1, <3>1
      <4>3. ToDispatch(i - 1)' = i - 1
        BY <1>1, <4>2 DEF ToDispatch
      <4>4. QED
        BY <2>1, <4>1, <4>3
    <3>2. CASE ~(i <= due)
      <4>1. ToDispatch(i) = MaxEvents + ToHead
        BY <1>1, <3>2 DEF ToDispatch
      <4>2. ~(i - 1 <= due')
        BY <1>1, <1>2, <2>1, <3>2
      <4>3. ToDispatch(i - 1)' = MaxEvents + ToHead'
        BY <1>1, <4>2 DEF ToDispatch
      <4>4. QED
        BY <1>1, <1>2, <1>3, <4>1, <4>3
    <3>3. QED
      BY <3>1, <3>2
  <2>7. QED
    BY <2>5, <2>6
<1>6. QED
  BY <1>4, <1>5 DEF Nears

LEMMA ProgramNears == ASSUME Inv, Program PROVE wpc' = "end" \/ Nears
<1>1. SUFFICES ASSUME wpc' # "end" PROVE Nears
  OBVIOUS
<1>2. [WindowNext]_wvars
  BY DEF WindowNext
<1>3. /\ future \in {"none", "pending", "good", "bad"} /\ due \in Nat
      /\ future' \in {"none", "pending", "good", "bad"} /\ due' \in Nat
      /\ ToHead = HeadFrom(wpc, future, due) /\ ToHead' = HeadFrom(wpc', future', due')
  BY <1>2, Typed
<1> USE HeadFacts DEF world, frame, At, Quit, AssertAt
<1>4. CASE CreateWindow
  <2>1. wpc = "window" /\ wpc' = "surface" /\ UNCHANGED <<events, closing>>
    BY <1>1, <1>4 DEF CreateWindow
  <2>2. ToHead = 11 /\ ToHead' = 10
    BY <1>3, <2>1
  <2>3. QED
    BY <1>2, <2>1, <2>2, NearsOutside
<1>5. CASE CreateSurface
  <2>1. wpc = "surface" /\ wpc' = "adapter" /\ UNCHANGED <<events, closing>>
    BY <1>1, <1>5 DEF CreateSurface
  <2>2. ToHead = 10 /\ ToHead' \in 7..9
    BY <1>3, <2>1
  <2>3. QED
    BY <1>2, <2>1, <2>2, NearsOutside
<1>6. ASSUME NEW what \in {"adapter", "device"}, RequestAny(what) PROVE Nears
  <2>1. /\ wpc = what /\ wpc' = what /\ UNCHANGED <<events, closing>>
        /\ future = "none" /\ future' = "pending"
    BY <1>6 DEF RequestAny
  <2>2. ToHead' < ToHead
    <3>1. CASE what = "adapter"
      BY <1>3, <2>1, <3>1, LoopSteps
    <3>2. CASE what = "device"
      BY <1>3, <2>1, <3>2, LoopSteps
    <3>3. QED
      BY <3>1, <3>2
  <2>3. QED
    BY <1>2, <2>1, <2>2, NearsOutside
<1>7. CASE WaitAny("adapter", "device")
  <2>1. /\ wpc = "adapter" /\ wpc' = "device" /\ UNCHANGED <<events, closing>>
        /\ future' = "none" /\ future = "good"
    BY <1>1, <1>7 DEF WaitAny
  <2>2. ToHead = 7 /\ ToHead' = 6
    BY <1>3, <2>1, LoopSteps
  <2>3. QED
    BY <1>2, <2>1, <2>2, NearsOutside
<1>8. CASE WaitAny("device", "configure")
  <2>1. /\ wpc = "device" /\ wpc' = "configure" /\ UNCHANGED <<events, closing>>
        /\ future = "good"
    BY <1>1, <1>8 DEF WaitAny
  <2>2. ToHead = 4 /\ ToHead' = 3
    BY <1>3, <2>1, LoopSteps
  <2>3. QED
    BY <1>2, <2>1, <2>2, NearsOutside
<1>9. CASE ConfigureSurface
  <2>1. wpc = "configure" /\ wpc' = "resources" /\ UNCHANGED <<events, closing>>
    BY <1>1, <1>9 DEF ConfigureSurface
  <2>2. ToHead = 3 /\ ToHead' = 2
    BY <1>3, <2>1
  <2>3. QED
    BY <1>2, <2>1, <2>2, NearsOutside
<1>10. CASE CreateResources
  <2>1. wpc = "resources" /\ wpc' = "loop" /\ UNCHANGED <<events, closing>>
    BY <1>10 DEF CreateResources
  <2>2. ToHead = 2 /\ ToHead' = 1
    BY <1>3, <2>1
  <2>3. QED
    BY <1>2, <2>1, <2>2, NearsOutside
<1>11. CASE EndPoll
  <2>1. wpc = "poll" /\ due = 0 /\ wpc' = "acquire" /\ UNCHANGED <<events, closing>>
    BY <1>11 DEF EndPoll
  <2>2. ToHead = 5 /\ ToHead' = 4
    BY <1>3, <2>1
  <2>3. QED
    BY <1>2, <2>1, <2>2, NearsOutside
<1>12. CASE GetCurrentTexture
  <2>1. wpc = "acquire" /\ wpc' = "draw" /\ UNCHANGED <<events, closing>>
    BY <1>1, <1>12 DEF GetCurrentTexture
  <2>2. ToHead = 4 /\ ToHead' = 3
    BY <1>3, <2>1
  <2>3. QED
    BY <1>2, <2>1, <2>2, NearsOutside
<1>13. CASE Draw
  <2>1. wpc = "draw" /\ wpc' = "present" /\ UNCHANGED <<events, closing>>
    BY <1>13 DEF Draw
  <2>2. ToHead = 3 /\ ToHead' = 2
    BY <1>3, <2>1
  <2>3. QED
    BY <1>2, <2>1, <2>2, NearsOutside
<1>14. CASE Present
  <2>1. wpc = "present" /\ wpc' = "loop" /\ UNCHANGED <<events, closing>>
    BY <1>1, <1>14 DEF Present
  <2>2. ToHead = 2 /\ ToHead' = 1
    BY <1>3, <2>1
  <2>3. QED
    BY <1>2, <2>1, <2>2, NearsOutside
<1>15. QED
  BY <1>1, <1>4, <1>5, <1>6, <1>7, <1>8, <1>9, <1>10, <1>11, <1>12, <1>13, <1>14,
     HeadNears, DispatchNears DEF Program

(* The window system, Dawn and the user set nothing back. *)
LEMMA WorldKeeps == ASSUME Inv, [WindowNext]_wvars, ~Program PROVE Keeps
<1>1. /\ wpc' = wpc /\ due' = due /\ closing' = closing
      /\ \/ future' = future
         \/ future = "pending" /\ future' \in {"good", "bad"}
  BY DEF WindowNext, Answer, LoseDevice, Happen, frame, world, wvars
<1>2. /\ future \in {"none", "pending", "good", "bad"} /\ due \in Nat
      /\ ToHead = HeadFrom(wpc, future, due) /\ ToHead' = HeadFrom(wpc', future', due')
      /\ ToHead \in Nat /\ ToHead' \in Nat /\ MaxEvents \in Nat
      /\ Escapes \subseteq Nat \ {0}
  BY Typed
<1>3. ToHead' <= ToHead
  <2>1. CASE future' = future
    BY <1>1, <1>2, <2>1
  <2>2. CASE future = "pending" /\ future' \in {"good", "bad"}
    <3>1. RequestSteps[future'] = 0 /\ RequestSteps[future] = 1
      BY <2>2, LoopSteps
    <3>2. CASE wpc \in {"adapter", "device"}
      <4>1. ToHead = ToLoop[wpc] + 1 + 0 /\ ToHead' = ToLoop[wpc] + 0 + 0
        BY <1>1, <1>2, <3>1, <3>2 DEF HeadFrom
      <4>2. ToLoop[wpc] \in Nat
        BY <3>2, LoopSteps
      <4>3. QED
        BY <4>1, <4>2
    <3>3. CASE wpc \notin {"adapter", "device"}
      <4>1. ToHead' = ToHead
        BY <1>1, <1>2, <3>3 DEF HeadFrom
      <4>2. QED
        BY <1>2, <4>1
    <3>4. QED
      BY <3>2, <3>3
  <2>3. QED
    BY <1>1, <2>1, <2>2
<1>4. Escapes \subseteq Escapes'
  <2>1. CASE events' = events
    BY <2>1 DEF Escapes, Key
  <2>2. CASE \E e \in Event : events' = Append(events, e)
    <3>1. events \in Seq(Event) /\ Len(events) \in Nat
      BY Lengths DEF Inv
    <3>2. Len(events') = Len(events) + 1 /\ \A k \in 1..Len(events) : events'[k] = events[k]
      BY <2>2, <3>1
    <3>3. QED
      BY <3>1, <3>2 DEF Escapes, Key
  <2>3. QED
    BY <2>1, <2>2 DEF WindowNext, Answer, LoseDevice, Happen, world, wvars
<1>5. ASSUME NEW i \in Escapes PROVE ToDispatch(i)' <= ToDispatch(i)
  <2>1. CASE wpc = "poll" /\ i <= due
    <3>1. ToDispatch(i) = i /\ ToDispatch(i)' = i
      BY <1>1, <2>1 DEF ToDispatch
    <3>2. QED
      BY <1>2, <3>1
  <2>2. CASE ~(wpc = "poll" /\ i <= due)
    <3>1. ToDispatch(i) = MaxEvents + ToHead
      BY <2>2 DEF ToDispatch
    <3>2. ToDispatch(i)' = MaxEvents + ToHead'
      BY <1>1, <2>2 DEF ToDispatch
    <3>3. QED
      BY <1>2, <1>3, <3>1, <3>2
  <2>3. QED
    BY <2>1, <2>2
<1>6. QED
  BY <1>1, <1>3, <1>4, <1>5 DEF Keeps

LEMMA NearsKeeps == ASSUME Inv, [WindowNext]_wvars, Nears PROVE Keeps
<1>1. ToHead \in Nat /\ ToHead' \in Nat
  BY Typed
<1>2. closing => closing' /\ ToHead' <= ToHead
  BY <1>1 DEF Nears
<1>3. ASSUME NEW i \in Escapes, NEW j \in Escapes', ToDispatch(j)' < ToDispatch(i)
      PROVE  ToDispatch(j)' <= ToDispatch(i)
  <2>1. ToDispatch(i) \in Nat
    BY Typed DEF ToDispatch
  <2>2. j \in Nat
    <3>1. events' \in Seq(Event)
      BY NextKeeps DEF Inv, WindowTypeOK, Event, Resize, Key, CloseButton
    <3>2. j \in 1..Len(events') /\ Len(events') \in Nat
      BY <3>1 DEF Escapes, Key
    <3>3. QED
      BY <3>2
  <2>3. ToDispatch(j)' \in Nat
    BY <2>2, Typed DEF ToDispatch
  <2>4. QED
    BY <1>3, <2>1, <2>3
<1>4. QED
  BY <1>2, <1>3 DEF Nears, Keeps

(* A released escape comes nearer to its poll with every step of main, and
   then main to the head of its loop: why the program ends. *)
THEOREM EscapeIsHeard == WindowSpec => EscapeAdvances
<1>1. Inv /\ [WindowNext]_wvars => [wpc' = "end" \/ (Keeps /\ (Program => Nears))]_wvars
  <2> SUFFICES ASSUME Inv, [WindowNext]_wvars
               PROVE  wpc' = "end" \/ (Keeps /\ (Program => Nears))
    OBVIOUS
  <2>1. CASE Program
    BY <2>1, ProgramNears, NearsKeeps
  <2>2. CASE ~Program
    BY <2>2, WorldKeeps
  <2>3. QED
    BY <2>1, <2>2
<1>2. QED
  BY <1>1, Invariance, PTL DEF WindowSpec, EscapeAdvances

=============================================================================
