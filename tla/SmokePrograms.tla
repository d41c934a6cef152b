---------------------------- MODULE SmokePrograms ----------------------------
(* The sequential programs under scripts/test_ports that call one library    *)
(* each.  A program is a sequence of steps.  A step may need something that  *)
(* an earlier one made, may fail, and says what the program does then: end   *)
(* with a code, assert (which a release build leaves out), jump to another   *)
(* step, or nothing.  Every call of a library may succeed or fail.           *)
EXTENDS Integers, Sequences, FiniteSets

Nothing == "nothing"

(* What is done if a step fails; Never for a step that cannot. *)
Never      == [do |-> "never"]
Exit(code) == [do |-> "exit", code |-> code]
Jump(n)    == [do |-> "jump", to |-> n]
Assert     == [do |-> "assert"]
GoOn       == [do |-> "on"]

(* Make r from, or in, another object, which it needs; call what needs r; release
   r; check what needs no object; go back in a loop; end. *)
Step(do, on, from, bad) == [do |-> do, on |-> on, from |-> from, bad |-> bad]
Make(r, from, bad) == Step("make", r, from, bad)
Call(r, bad)       == Step("call", r, Nothing, bad)
Free(r)            == Step("free", r, Nothing, Never)
Check(bad)         == Step("call", Nothing, Nothing, bad)
Back(n)            == Step("back", Nothing, n, Never)
End(code)          == Step("end", Nothing, code, Never)

(*------------------------------ the programs ------------------------------*)
(* Eight version queries, which have no error. *)
Subversion == [n \in 1..8 |-> Call(Nothing, Never)] \o << End("0") >>

(* Parse, root element; client of v2; in a build with the old SDK, that and a
   client in its scope; the comparison of the results. *)
AlibabaOss(old) ==
  << Make("doc", Nothing, Exit("1")), Call("doc", Exit("1")),
     Make("client", Nothing, Exit("throw")) >>
  \o (IF old THEN << Make("sdk", Nothing, Never), Make("legacy", "sdk", Exit("throw")),
                     Call("sdk", Never), Free("legacy"), Free("sdk") >>
             ELSE << >>)
  \o << Call("doc", Exit("1")), Free("client"), Free("doc"), End("0") >>

(* The size of one resource, and then collections; the last loop is over the
   second collection again. *)
EmbedResource ==
  << Check(Exit("-1")),
     Make("testdata1", Nothing, Never), Call("testdata1", Exit("-1")),
     Make("testdata2", Nothing, Never), Call("testdata2", Exit("-1")),
     Make("testdata3", Nothing, Never), Call("testdata2", Exit("-1")),
     Free("testdata3"), Free("testdata2"), Free("testdata1"), End("0") >>

(* g_error aborts. *)
GObject ==
  << Make("typelib", Nothing, Exit("abort")), Make("info", "typelib", Exit("abort")),
     Call("info", Exit("abort")), Free("info"), End("0") >>

(* setmode, then dostring. *)
LuaJit ==
  << Make("state", Nothing, Exit("2")), Call("state", Jump(6)), Call("state", GoOn),
     Free("state"), End("0"), Free("state"), End("1") >>

Lua == << Make("state", Nothing, Exit("2")), Call("state", GoOn), Free("state"), End("0") >>

(* Mutant: the database is closed first. *)
DuckDbClosed ==
  << Make("db", Nothing, Exit("1")), Make("con", "db", Exit("2")),
     Make("result", Nothing, Exit("3")), Free("db"), Free("con"), End("0") >>

DuckDb ==
  << Make("db", Nothing, Exit("1")), Make("con", "db", Exit("2")),
     Make("result", Nothing, Exit("3")), Free("con"), Free("db"), End("0") >>

(* The directory is cleared for the database; open, Put, Get, the comparison;
   the end of the database and of the directory. *)
LevelDb ==
  << Make("dir", Nothing, Exit("throw")), Make("db", "dir", Assert),
     Call("db", Assert), Call("db", Assert), Check(Assert),
     Free("db"), Free("dir"), End("0") >>
(* The same, but the database ends when main does. *)
RocksDb ==
  << Make("dir", Nothing, Exit("throw")), Make("db", "dir", Assert),
     Call("db", Assert), Call("db", Assert), Check(Assert),
     Free("dir"), Free("db"), End("0") >>

LibAec ==
  << Make("stream", Nothing, Exit("1")), Call("stream", Exit("1")), Free("stream"),
     End("0") >>

(* The loop over the data sources ends with the first that is not there. *)
UnixOdbc ==
  << Make("env", Nothing, Exit("1")), Call("env", Jump(4)), Back(2), Free("env"),
     End("0") >>

Ryu == << Check(Exit("1")), Check(Exit("2")), End("0") >>

(* The argument, and the file. *)
TomlPlusPlus == << Check(Exit("1")), Check(Exit("2")), End("0") >>

(* A volume that could not be opened is closed all the same. *)
Minc == << Make("volume", Nothing, GoOn), Free("volume"), End("0") >>

(* The parser has no stream; neither it nor the message is looked at. *)
Gmime ==
  << Make("parser", Nothing, Never), Make("message", Nothing, GoOn),
     Call("message", Never), Free("message"), Free("parser"), End("0") >>

TreeSitter ==
  << Make("parser", Nothing, GoOn), Call("parser", GoOn), Make("tree", "parser", GoOn),
     Make("string", "tree", GoOn), Free("string"), Free("tree"), Free("parser"),
     End("0") >>

(* Two evaluations, whose errors end the process, and the comparison. *)
Duktape ==
  << Make("heap", Nothing, GoOn), Call("heap", Exit("abort")), Call("heap", Exit("abort")),
     Check(Assert), Free("heap"), End("0") >>

HdrHistogram ==
  << Make("histogram", Nothing, Exit("1")), Call("histogram", GoOn), Free("histogram"),
     End("0") >>

(* The name of the program is not checked; what fails to initialize clears
   the configuration and exits. *)
Python ==
  << Make("config", Nothing, Never), Call("config", GoOn),
     Make("python", "config", Jump(7)), Free("python"), Free("config"), End("0"),
     Free("config"), End("exception") >>

(* Three things about the tree that was parsed. *)
Ryml ==
  << Make("tree", Nothing, Exit("abort")), Call("tree", Exit("1")), Call("tree", Exit("2")),
     Call("tree", Exit("3")), Free("tree"), End("0") >>

(* Handles that are asked for, looked at and released. *)
Handle(r) == << Make(r, Nothing, Exit("1")), Free(r), End("0") >>
Yoga    == Handle("node")
LibUsb  == Handle("context")
LibVpl  == Handle("loader")

(* A face is released if there is one. *)
Graphite == << Make("face", Nothing, Jump(3)), Free("face"), End("0") >>

(* The context is not released. *)
LibModbus == << Make("modbus", Nothing, Exit("-1")), End("0") >>

(* The settings and the handle are not looked at; nor are open and scan. *)
FluidSynth ==
  << Make("settings", Nothing, GoOn), Call("settings", GoOn), Free("settings"), End("0") >>
Mpg123 ==
  << Make("handle", Nothing, GoOn), Call("handle", GoOn), Call("handle", GoOn),
     Free("handle"), End("0") >>

(* The stream that the archive is opened from is never given a value. *)
Unarr == << Make("archive", "stream", GoOn), Free("archive"), End("0") >>

Programs ==
  [ryml |-> Ryml, yoga |-> Yoga, libusb |-> LibUsb, libvpl |-> LibVpl,
   graphite |-> Graphite, libmodbus |-> LibModbus, fluidsynth |-> FluidSynth,
   mpg123 |-> Mpg123, unarr |-> Unarr, subversion |-> Subversion, alibaba |-> AlibabaOss(FALSE),
   alibaba_old |-> AlibabaOss(TRUE), embedresource |-> EmbedResource,
   gobject |-> GObject, luajit |-> LuaJit, lua |-> Lua, duckdb |-> DuckDb,
   leveldb |-> LevelDb, rocksdb |-> RocksDb, libaec |-> LibAec, unixodbc |-> UnixOdbc,
   ryu |-> Ryu, tomlplusplus |-> TomlPlusPlus, minc |-> Minc, gmime |-> Gmime,
   treesitter |-> TreeSitter, duktape |-> Duktape, hdrhistogram |-> HdrHistogram,
   python |-> Python]

(*------------------------------- a program runs ---------------------------*)
VARIABLES
  prog,    \* the program
  ndebug,  \* it is a release build, where assert is nothing
  at,      \* the step that comes next
  held,    \* what it made and did not release, with what that was made from
  failed,  \* history: the steps that failed
  exit     \* "running", its exit code, "abort", "throw" or "misuse"

pvars == <<prog, ndebug, at, held, failed, exit>>

SmokeInit ==
  /\ prog \in DOMAIN Programs /\ ndebug \in BOOLEAN
  /\ at = 1 /\ held = {} /\ failed = {} /\ exit = "running"

Here == Programs[prog][at]
Has(r) == r = Nothing \/ \E h \in held : h[1] = r
Running == exit = "running"
Needs == IF Here.do = "make" THEN Here.from ELSE Here.on
Lacks == ~Has(Needs)

Succeed ==
  /\ Running /\ Here.do \in {"make", "call"} /\ ~Lacks
  /\ held' = IF Here.do = "make" THEN held \union {<<Here.on, Here.from>>} ELSE held
  /\ at' = at + 1
  /\ UNCHANGED <<prog, ndebug, failed, exit>>

Fail ==
  /\ Running /\ Here.bad # Never /\ ~Lacks
  /\ failed' = failed \union {at}
  /\ \/ Here.bad.do = "exit" /\ exit' = Here.bad.code /\ UNCHANGED at
     \/ Here.bad.do = "assert" /\ ~ndebug /\ exit' = "abort" /\ UNCHANGED at
     \/ /\ Here.bad.do = "on" \/ (Here.bad.do = "assert" /\ ndebug)
        /\ at' = at + 1 /\ UNCHANGED exit
     \/ Here.bad.do = "jump" /\ at' = Here.bad.to /\ UNCHANGED exit
  /\ UNCHANGED <<prog, ndebug, held>>

(* What a step needs was never made, or is released already. *)
Misuse ==
  /\ Running /\ Lacks /\ exit' = "misuse"
  /\ UNCHANGED <<prog, ndebug, at, held, failed>>

Release ==
  /\ Running /\ Here.do = "free" /\ ~Lacks
  /\ held' = {h \in held : h[1] # Here.on} /\ at' = at + 1
  /\ UNCHANGED <<prog, ndebug, failed, exit>>

Leave ==
  /\ Running /\ Here.do \in {"back", "end"}
  /\ IF Here.do = "back" THEN at' = Here.from /\ UNCHANGED exit
     ELSE exit' = Here.from /\ UNCHANGED at
  /\ UNCHANGED <<prog, ndebug, held, failed>>

SmokeNext == Succeed \/ Fail \/ Misuse \/ Release \/ Leave
SmokeSpec == SmokeInit /\ [][SmokeNext]_pvars

(*------------------------------- properties -------------------------------*)
(* What a program tolerates: errors of a Lua script, a data source, a font or a
   sound file that is not there, a name or a setting that is not taken, a value
   that is not recorded, a volume that does not exist, a language that is not set. *)
Tolerated ==
  [graphite |-> {1}, fluidsynth |-> {2}, mpg123 |-> {2, 3}, lua |-> {2}, luajit |-> {3},
   unixodbc |-> {2}, python |-> {2}, hdrhistogram |-> {2}, minc |-> {1}, treesitter |-> {2}]
ToleratedBy(p) == IF p \in DOMAIN Tolerated THEN Tolerated[p] ELSE {}

(* In a debug build an exit code of 0 means that every step of the test worked,
   but those that the program tolerates. *)
ZeroMeansWorked == exit = "0" /\ ~ndebug => failed \subseteq ToleratedBy(prog)

(* What is released is never used again, in any program.  What was not made is
   used by nine programs: by LevelDB's and RocksDB's in a release build, which
   asserts only, and by the seven that do not look at what a call gave them.
   Every step that makes the thing has failed then (the stream of unarr has no
   such step at all). *)
AssertsOnly == {"leveldb", "rocksdb"}
Careless == {"minc", "gmime", "treesitter", "duktape", "fluidsynth", "mpg123", "unarr"}
Makes(n, r) == Programs[prog][n].do = "make" /\ Programs[prog][n].on = r
Unmade(r) == \A n \in DOMAIN Programs[prog] : Makes(n, r) => n \in failed
UsesWhatItHas ==
  exit = "misuse" => Unmade(Needs) /\ (prog \in Careless \/ (ndebug /\ prog \in AssertsOnly))

(* No object outlives what it was made from or in, on any path of any program,
   but for RocksDB's database, whose directory is removed while it is open. *)
InnerFirst == \A h \in held : Has(h[2]) \/ (prog = "rocksdb" /\ h = <<"db", "dir">>)

(* A program that ends with 0 has released what it made, but the result of DuckDB,
   the repository of GObject and the context of Modbus. *)
Kept == {"result", "typelib", "modbus"}
ReleasedAtZero == exit = "0" => \A h \in held : h[1] \in Kept

(* On every path of every program: the exit code of a debug build is honest;
   nothing is used after its release; only the nine programs named above use
   what they failed to make; objects but RocksDB's directory are released
   inside out, and all but three of them before the end. *)
SmokeCorrect == ZeroMeansWorked /\ UsesWhatItHas /\ InnerFirst /\ ReleasedAtZero
=============================================================================
