---------------------------- MODULE WindowProgram ----------------------------
(* scripts/test_ports/vcpkg-ci-dawn/project: a program that draws one shader *)
(* into a window until it is closed.  Around it are the window system, whose *)
(* events wait until the program polls for them, and Dawn, which answers     *)
(* requests through futures, gives out the surface's texture or refuses it,  *)
(* and reports errors to a callback.  A size of 0 is a minimised window.     *)
EXTENDS Integers, Sequences

CONSTANTS
  Sizes,      \* the sizes of a framebuffer, 0 among them
  Builds,     \* platforms that the program is built for
  MaxEvents   \* bound: events that wait at a time

ASSUME SizesAssumption == Sizes \subseteq Nat /\ 0 \in Sizes /\ Sizes # {0}
ASSUME EventsAssumption == MaxEvents \in Nat \ {0}
ASSUME BuildsAssumption ==
  Builds \subseteq {"emscripten", "windows", "apple", "x11", "wayland", "other"}

VARIABLES
  wpc,        \* where main is
  ended,      \* "no", "returned", "aborted" by ASSERT, or "crashed"
  build,      \* the platform; x11 or wayland is what glfwGetPlatform says on Linux
  windowSize, \* the framebuffer's size, as the window system has it
  events,     \* events that GLFW has not dispatched yet
  due,        \* how many of them this poll dispatches
  closing,    \* glfwWindowShouldClose
  future,     \* the request that is waited for: "none", "pending", "good", "bad"
  configured, \* the size the surface has, or "refused"
  drawable,   \* the surface's texture is held
  bound,      \* bytes of uniforms and vertices that the buffers hold
  texture,    \* the last surface_texture.status, "none" before the first
  lost,       \* history: the device was lost
  errors      \* history: kinds of error that the error callback was told

wvars == <<wpc, ended, build, windowSize, events, due, closing, future, configured,
           drawable, bound, texture, lost, errors>>
world == <<build, windowSize, events>>
frame == <<future, configured, drawable, bound, texture, lost>>

Refused == -1
Resize(n) == [kind |-> "resize", size |-> n]
Key(action) == [kind |-> "escape", action |-> action]
CloseButton == [kind |-> "close"]
Event == {Resize(n) : n \in Sizes} \union {Key("press"), Key("release"), CloseButton}

WindowInit ==
  /\ wpc = "window" /\ ended = "no" /\ build \in Builds
  /\ windowSize \in Sizes \ {0} /\ events = <<>> /\ due = 0 /\ closing = FALSE
  /\ future = "none" /\ configured = Refused /\ drawable = FALSE
  /\ bound = [uniforms |-> 0, vertices |-> 0]
  /\ texture = "none" /\ lost = FALSE /\ errors = {}

At(from, to) == wpc = from /\ wpc' = to /\ UNCHANGED ended
Quit(from, how) == wpc = from /\ wpc' = "end" /\ ended' = how

(* ASSERT ends the program at once, in every build. *)
AssertAt(from, to, holds) == IF holds THEN At(from, to) ELSE Quit(from, "aborted")

(*--------------------------------- main ----------------------------------*)
(* glfwInit is asserted; a window that could not be made is not. *)
CreateWindow ==
  /\ At("window", "surface") \/ Quit("window", "aborted") \/ Quit("window", "crashed")
  /\ UNCHANGED <<world, due, closing, frame, errors>>

(* A platform without a native handle gives a surface without a source, which
   nothing looks at: an adapter is asked for it all the same. *)
SurfaceSource(b) == b \in {"emscripten", "windows", "apple", "x11", "wayland"}
CreateSurface ==
  /\ At("surface", "adapter")
  /\ UNCHANGED <<world, due, closing, frame, errors>>

(* RequestAdapter, and then RequestDevice: the callback runs inside WaitAny,
   where the variable it captured still lives. *)
RequestAny(what) ==
  /\ future = "none" /\ At(what, what) /\ future' = "pending"
  /\ UNCHANGED <<world, due, closing, configured, drawable, bound, texture, lost, errors>>
Answer ==
  /\ future = "pending" /\ future' \in {"good", "bad"}
  /\ UNCHANGED <<wpc, ended, world, due, closing, configured, drawable, bound, texture, lost,
                 errors>>
WaitAny(what, next) ==
  /\ future \in {"good", "bad"} /\ future' = "none"
  /\ AssertAt(what, next, future = "good")
  /\ UNCHANGED <<world, due, closing, configured, drawable, bound, texture, lost, errors>>

(* surface.Configure: a size of 0 is refused, which the error callback logs. *)
SurfaceSize(n) == IF n = 0 THEN Refused ELSE n
Configure(n) ==
  /\ configured' = SurfaceSize(n)
  /\ errors' = IF n = 0 THEN errors \union {"zero size"} ELSE errors

(* The first format of a surface without a source is read through a null pointer. *)
ConfigureSurface ==
  /\ IF SurfaceSource(build)
     THEN At("configure", "resources") /\ Configure(windowSize)
     ELSE Quit("configure", "crashed") /\ UNCHANGED <<configured, errors>>
  /\ UNCHANGED <<world, due, closing, future, drawable, bound, texture, lost>>

(* The layouts of C++ and of the shader, in bytes. *)
RoundUp(n, align) == ((n + align - 1) \div align) * align
UniformsSize == RoundUp(2 * 4 + 4, 16)
ShaderUniforms == RoundUp(2 * 4 + 4, 8)
Vertices == 12 * 4
VertexCount == 12 \div 2
Stride == 2 * 4

(* The shader, the buffers, the pipeline and the bind group, in this order;
   what does not fit is an error when the group is made. *)
CreateResources ==
  /\ At("resources", "loop")
  /\ bound' = [uniforms |-> UniformsSize, vertices |-> Vertices]
  /\ errors' = IF UniformsSize < ShaderUniforms THEN errors \union {"validation"} ELSE errors
  /\ UNCHANGED <<world, due, closing, future, configured, drawable, texture, lost>>

(* The loop's condition; after the loop the window goes, then GLFW.  A poll
   dispatches the events that wait when it begins. *)
LoopHead ==
  /\ \/ closing /\ Quit("loop", "returned") /\ UNCHANGED due
     \/ ~closing /\ At("loop", "poll") /\ due' = Len(events)
  /\ UNCHANGED <<world, closing, frame, errors>>

(* Mutant: no callback for the framebuffer's size. *)
DispatchNoResize ==
  /\ wpc = "poll" /\ due > 0
  /\ events' = Tail(events) /\ due' = due - 1
  /\ closing' = (closing \/ Head(events) \in {Key("release"), CloseButton})
  /\ UNCHANGED <<wpc, ended, build, windowSize, frame, errors>>

(* glfwPollEvents calls the callbacks, one event after another; on the web the
   browser does, in the emscripten_sleep that follows the poll. *)
DispatchEvent ==
  /\ wpc = "poll" /\ due > 0
  /\ events' = Tail(events) /\ due' = due - 1
  /\ LET e == Head(events) IN
     /\ closing' = (closing \/ e = Key("release") \/ e = CloseButton)
     /\ IF e.kind = "resize" THEN Configure(e.size) ELSE UNCHANGED <<configured, errors>>
  /\ UNCHANGED <<wpc, ended, build, windowSize, future, drawable, bound, texture, lost>>

EndPoll ==
  /\ At("poll", "acquire") /\ due = 0
  /\ UNCHANGED <<world, due, closing, frame, errors>>

(* What GetCurrentTexture may say; only the first two pass the ASSERT.  A
   texture may time out in every turn.  Assumed of Dawn: a texture is outdated
   only when the window's size is not the surface's, and an error or lost only
   when the device is lost or the surface is not configured. *)
TextureStatus ==
  IF lost \/ configured = Refused THEN {"error", "lost"}
  ELSE {"optimal", "suboptimal", "timeout"}
       \union (IF configured # windowSize THEN {"outdated"} ELSE {})
Success == {"optimal", "suboptimal"}
Statuses == Success \union {"none", "timeout", "outdated", "error", "lost"}

(* Mutant: a suboptimal texture is refused. *)
GetOptimalTexture ==
  /\ texture' \in TextureStatus
  /\ AssertAt("acquire", "draw", texture' = "optimal")
  /\ drawable' = (wpc' = "draw")
  /\ UNCHANGED <<world, due, closing, future, configured, bound, lost, errors>>

GetCurrentTexture ==
  /\ texture' \in TextureStatus
  /\ AssertAt("acquire", "draw", texture' \in Success)
  /\ drawable' = (wpc' = "draw")
  /\ UNCHANGED <<world, due, closing, future, configured, bound, lost, errors>>

(* The uniforms are written, and the pass is encoded and submitted. *)
Draw ==
  /\ At("draw", "present")
  /\ errors' = IF VertexCount * Stride > bound.vertices
               THEN errors \union {"validation"} ELSE errors
  /\ UNCHANGED <<world, due, closing, future, configured, drawable, bound, texture, lost>>

(* Mutant: the texture is kept for the next turn. *)
PresentKeeping ==
  /\ \/ At("present", "loop")
     \/ build # "emscripten" /\ lost /\ Quit("present", "aborted")
  /\ UNCHANGED <<world, due, closing, future, configured, drawable, bound, texture, lost,
                 errors>>

(* On the web the browser presents. *)
Present ==
  /\ \/ At("present", "loop")
     \/ build # "emscripten" /\ lost /\ Quit("present", "aborted")
  /\ drawable' = FALSE
  /\ UNCHANGED <<world, due, closing, future, configured, bound, texture, lost, errors>>

Program ==
  \/ CreateWindow \/ CreateSurface
  \/ RequestAny("adapter") \/ WaitAny("adapter", "device")
  \/ RequestAny("device") \/ WaitAny("device", "configure")
  \/ ConfigureSurface \/ CreateResources \/ LoopHead \/ DispatchEvent \/ EndPoll
  \/ GetCurrentTexture \/ Draw \/ Present

(*-------------------------------- the world -------------------------------*)
HasWindow == wpc \notin {"window", "end"}

(* The user, or the window system. *)
Happen(e) ==
  /\ HasWindow /\ Len(events) < MaxEvents
  /\ events' = Append(events, e)
  /\ IF e.kind = "resize"
     THEN e.size # windowSize /\ windowSize' = e.size
     ELSE UNCHANGED windowSize
  /\ UNCHANGED <<wpc, ended, build, due, closing, frame, errors>>

(* The device, or the surface with it, is lost. *)
LoseDevice ==
  /\ HasWindow /\ wpc \notin {"surface", "adapter", "device"} /\ ~lost
  /\ lost' = TRUE
  /\ UNCHANGED <<wpc, ended, world, due, closing, future, configured, drawable, bound, texture,
                 errors>>

WindowNext == Program \/ Answer \/ LoseDevice \/ \E e \in Event : Happen(e)

(* The program runs, and Dawn answers. *)
WindowFairness == WF_wvars(Program) /\ WF_wvars(Answer)
WindowSpec == WindowInit /\ [][WindowNext]_wvars

(*------------------------------- properties -------------------------------*)
WindowTypeOK ==
  /\ wpc \in {"window", "surface", "adapter", "device", "configure", "resources",
              "loop", "poll", "acquire", "draw", "present", "end"}
  /\ ended \in {"no", "returned", "aborted", "crashed"} /\ build \in Builds
  /\ windowSize \in Sizes /\ events \in Seq(Event) /\ Len(events) <= MaxEvents
  /\ due \in 0..Len(events) /\ closing \in BOOLEAN
  /\ future \in {"none", "pending", "good", "bad"}
  /\ configured \in Sizes \union {Refused} /\ drawable \in BOOLEAN
  /\ bound \in [uniforms : Nat, vertices : Nat]
  /\ texture \in Statuses /\ lost \in BOOLEAN
  /\ errors \subseteq {"zero size", "validation"}

InLoop == wpc \in {"loop", "poll", "acquire", "draw", "present"}
Resizes == {i \in 1..Len(events) : events[i].kind = "resize"}

(* No change of size is missed between main's look at the window and the
   callback that it installs later: with no resize waiting, the surface has the
   window's size, or was refused because that is 0. *)
FollowsWindow ==
  InLoop /\ Resizes = {} => configured = SurfaceSize(windowSize)

(* The surface is not configured anew while its texture is held. *)
SteadyTexture == [][configured' # configured => ~drawable]_wvars

(* The ASSERTs of the loop stop it for a texture that timed out, which needs no
   other cause, and else only for what happened to the device or the window: a
   resize that came after the poll and waits still, a window without a size, or
   a lost device.  A resize that main or a callback has seen never stops it. *)
AbortsForCause ==
  ended = "aborted" =>
    /\ texture = "outdated" => Resizes # {}
    /\ texture \in {"error", "lost"} => lost \/ windowSize = 0 \/ Resizes # {}
    /\ texture \in Success => lost

(* The error callback hears only of a minimised window: the uniforms of C++
   fill those of the shader, and a draw stays in the vertex buffer (a plain
   comparison of the layouts). *)
ErrorsForCause == errors \subseteq {"zero size"}

(* But for a texture that timed out, every abort of the loop comes from the
   device or the window, and every reported error from the window; none comes
   from the program's own sizes, layouts or order of calls. *)
FaultsForCause == AbortsForCause /\ ErrorsForCause

(* When escape is released in the running program, the program ends. *)
EscapeEnds ==
  (HasWindow /\ \E i \in 1..Len(events) : events[i] = Key("release")) ~> (wpc = "end")
=============================================================================
