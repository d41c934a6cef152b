# vcpkg scripts and test programs: TLA+ models, checks and proofs

This directory specifies the part of vcpkg that is in this repository as code:
the CMake functions under `scripts/cmake` that portfiles are written with, and
the scripts around them. The `vcpkg` executable is not here (`scripts/bootstrap.sh`
downloads it); `ports/`, `versions/` and `triplets/` are the catalogue it works
on. What can go wrong in the scripts, and is hard to test, is what they do to
directories they share or come back to: `DOWNLOADS`, which `VCPKG_DOWNLOADS` lets
several vcpkg roots share, the git directory and the cache in it, and the build
tree, which outlives a run that was killed. Half of the models are about that.

The other code that is the repository's own is the programs under
`scripts/test_ports`: each is built, and some are run, against one port to see that
the port works. Most call a library once. One (`vcpkg-ci-webrtc`) holds a video call
with itself on four threads, one (`vcpkg-ci-dawn`) draws into a window until it is
closed, one (`vcpkg-ci-highway`) has a vectorised loop; and `ports/modp-base64` carries
the generated tables of a Base64 codec. The other half of the models is about these.

## The system

| Component | State it keeps | Operations | What is hard |
|---|---|---|---|
| `vcpkg_download_distfile` | files in `DOWNLOADS` | look up, hash, retarget, `x-download` | other roots between any two looks; files reused under other hashes; files that are not hashed |
| `vcpkg_from_git` | `DOWNLOADS/git-tmp`, `DOWNLOADS/temp`, archives | fetch, rev-parse, archive, rename, extract | one git directory for all roots; archives that are not hashed; a moving branch; kills |
| `vcpkg_from_github`, `_gitlab`, `_bitbucket` | `VCPKG_HEAD_VERSION` and files in `DOWNLOADS` | ask for the version, download the archive | the branch moves between the two downloads; fallback of `--head` |
| `vcpkg_extract_source_archive`, `z_vcpkg_apply_patches` | source directories `BASE-HASH`, `.clean`, `.tmp` | clean, unpack, unwrap, patch, rename | kills; `--editable` keeps what is there; the archive changes after it was hashed |
| `vcpkg_extract_archive`, `vcpkg_find_acquire_program` | tools in `DOWNLOADS/tools` | find, download, extract in place | kills and other roots between the steps; unchecked `tar` |
| `vcpkg_acquire_msys` | `DOWNLOADS/tools/msys2/HASH` | resolve packages, download, unpack, rename | the resolver's worklist; a hash that should not depend on the order |
| `vcpkg_execute_*process*` | logs | run, retry | a retry starts from what the failure left |
| environment backup | saved variables | back up, restore | pairing, unset variables |
| `ports.cmake`, `build_info.cmake` | the portfile's variables | run a portfile, write BUILD_INFO | order of includes |
| `buildsystems/vcpkg.cmake` | CMake variables, the installed tree | `find_package` wrapper, manifest install | nested calls that save and restore one another's variables |
| `applocal.ps1`, `osx/applocal.py` | the application's directory | copy the libraries a binary needs | parallel link steps; cycles |
| `bootstrap.sh` | the `vcpkg` executable | download, check, replace | kills |
| `generatePortVersionsDb.py`, `generateBaseline.py` | `versions/` | run workers, mark as complete | workers that fail |
| `vcpkg-ci-webrtc` | two peers, a video source with its thread, a sink that counts frames | negotiate, broadcast, count, close | callbacks from three other threads; the order of the cleanup; waits without a timeout |
| `vcpkg-ci-dawn` | window, surface, device, buffers | request, configure, poll, draw, present | resizes between any two steps; lost devices; layouts of two languages |
| `vcpkg-ci-highway` | two arrays | three loops over blocks | boundaries; alignment |
| `modp_b64_data.h` | eleven tables of 256 entries | look up | one wrong entry; two byte orders |
| the other test programs | one object or two of a library | create, call, release | failures between the steps; checks that a release build leaves out |
| CI scripts | none of their own | drive the tool and services | out of the repository's hands |

The components call one another like this. A portfile calls one of the
`vcpkg_from_*` functions. Those of hosted projects call `vcpkg_download_distfile`
for the archive, and for the version of a `--head` build; `vcpkg_from_git` runs
git itself. All of them then call `vcpkg_extract_source_archive`, which calls
`z_vcpkg_apply_patches` and returns the directory that the portfile builds from.
The only state between the calls is on the disk, and the names of the files are
the interface: a name must say what is in the file, for those who find it.
The portfiles of the test ports have no sources to fetch: they build the program beside
them, and where they run it, an exit code other than 0 fails the port
(`scripts/test_ports/vcpkg-ci-webrtc/portfile.cmake`). Test programs do not interact
with one another.

What makes each component correct:

* a download that is pinned to a SHA512 yields that content; files of other
  calls survive; a file that fails is never used;
* a git archive named after a commit holds that commit, whole; `--head` builds
  what the branch is now and reports what it builds;
* a source directory is whole and patched as soon as it exists; without
  `--editable` it is fresh, with `--editable` nothing the user did is lost; what
  a killed run leaves behind does not make the next run fail;
* a tool or an msys2 root that is found is whole; the same packages give the
  same root; parallel copies of one library do not tear it; retries end;
  `find_package` leaves the variables it borrowed as they were;
* a test program ends, says 0 only if its test worked, and uses no object before its
  beginning or after its end, whatever other threads, windows and devices do.

## Modules

| Module | Models | Form |
|---|---|---|
| `Distfile` | `vcpkg_download_distfile` in several roots | state machine |
| `Distfile_proofs` | | proofs |
| `GitSource` | `vcpkg_from_git` in several roots | state machine |
| `GitSource_proofs` | | proofs |
| `SourceDirs` | what `vcpkg_extract_source_archive` promises | abstract specification |
| `ExtractSource` | `vcpkg_extract_source_archive` and `z_vcpkg_apply_patches` | state machine, implements `SourceDirs` |
| `ExtractSource_proofs` | | proofs |
| `HostedSource` | `vcpkg_from_github`, `vcpkg_from_gitlab`, `vcpkg_from_bitbucket` in several roots | state machine, composed with `Distfile` |
| `HostedSource_proofs` | | proofs |
| `MsysRoot` | `vcpkg_acquire_msys` in several roots | state machine |
| `MsysRoot_proofs` | | proofs |
| `WebRtcCall` | `vcpkg-ci-webrtc/project/main.cc` | state machine of four parties |
| `WebRtcCall_proofs` | | proofs |
| `WindowProgram` | `vcpkg-ci-dawn/project/main.cpp`, `webgpu_glfw3.cpp` | state machine |
| `WindowProgram_proofs` | | proofs |
| `BlockScale` | `scale` of `vcpkg-ci-highway/project/scale.cpp` | state machine |
| `Base64Tables` | `ports/modp-base64/modp_b64_data.h` | functions, and a codec that uses them |
| `SmokePrograms` | 28 sequential test programs | tables of steps and their interpreter |
| `TestPrograms` | the five modules before | sum: one program runs |
| `TestPrograms_proofs` | | proofs about the last three and about the sum |
| `MCDistfile`, `MCGitSource`, `MCExtractSource`, `MCHostedSource`, `MCMsysRoot`, `MCTestPrograms` | constants of the runs | model values and request sets |

A portfile run is a CMake process. In the modules of the scripts `pc` says where in the
function it is, one action is one file operation or one external command with
the branches that follow it, and `Exit` ends the run in any state, so that a kill
between any two operations is included. `Requests` is the set of calls, with the
arguments and the modes of the tool (`--head`, `--editable`, downloads disabled)
that decide about the control flow. The failures of the code (`FATAL_ERROR`) are
places of their own where a property tells why a call failed (in `GitSource` those of all commands are one). Names that
end in a word for a bug and carry the comment "Mutant" are not part of the
models: they are wrong variants of an action, written to see that the properties
notice them.

### Distfile

`downloads` is the directory; a content and its SHA512 are one value. `Call` checks the arguments, `Probe` and `Probe2` test whether the file exists,
under its own name and under the one with the first eight digits of the hash,
`Verify` and `Verify2` hash it, `Fetch` downloads, `Use` is the portfile reading
the path it got. `XDownload` is the command of the vcpkg tool, taken at its
word: it writes a file that has the hash it was told, in one step, or fails.
`contended` is a history variable: it names the runs that overlapped with a call
that wanted something else under the same `FILENAME`. Without such a call the
properties hold at every step; with it, they cannot hold, because the file is
read after it was hashed.

### GitSource

`repo` holds, for each git directory, the commits it has and its `FETCH_HEAD`;
`temp` and `archive` are the two places of the archive. `git archive` is two
actions, `OpenArchive` which truncates and `WriteArchive` which completes the file
through its open handle, wherever that file was renamed to meanwhile (`handle`).
`Push` moves the remote branch, `Delete` is the user. Commits of a branch are
numbered, a SHA is a pair of port and number. `raced` names the archives that two
runs were busy with at once, and `since` remembers where the branch was when a
call began. A REF is a commit, or `NameRef`, the name of a branch or tag; whether this is the
branch of `HEAD_REF`, whose archive has the same name then, is left open (`NamesDiffer`).

### ExtractSource and SourceDirs

A directory is a record: the archive it came from, the patches applied, whether
it is the archive's top directory, whether it is whole, and who changed it since.
Its path is the pair of archive content and list of patches, which is what the
code hashes, and the suffix. `Call` looks for the directory, `Clean` removes it file
by file, `Prepare`, `Tar`, `Unwrap`, `ApplyPatch` (one patch per step), `Install` and
`Tidy` follow the code. `Build` is the portfile changing sources, `Edit` and `Delete`
the user, `Replace` another root that downloads the archive again. `stale` names the
directories whose archive was replaced between the hash and the extraction: there
the code makes a directory that does not hold what its name says, and the
properties exclude exactly that. `Refused` has the argument errors that need no state:
unknown arguments, no archive, paths of the wrong kind.

`SourceDirs` is the promise: directories appear whole in one step, disappear in
one step while no portfile uses them, and a portfile is served a fresh one or an
editable one. The refinement mapping in `ExtractSource` hides a directory that is
not whole. A patch list stands in the module as the code has it, a list; the
abstract specification sees a set of patches that fit.

### HostedSource

The three functions that download from hosts differ in details, and the details
are what the module is about. `D == INSTANCE Distfile` is their callee: the
variables of `Distfile` are variables of this module, and a step of a download is the
step of `Distfile`, so that everything that can happen to a download (other
roots, deletions, kills) happens here. `Enter` is a function up to its first
download, with its checks (`Refused`) and the choice between the version and the
archive (`AsksVersion`); `ReadVersion` parses the answer; `AskArchive` asks for the
archive; `Return` ends the call, and a portfile may have another. `tip` is the
commit that each branch is at, moved by `Push`; `Served` is what a host may answer
while a download goes on, in any of several packings of a commit (`Forms`);
`since` and `asked` remember where the branch was when the call, and when the last
download, began. `contended` of `Distfile` is about one download; `crossed` remembers it until the
`vcpkg_from_*` call, which makes two of them, is over (`Remember`, a conjunct of every step).

The `vcpkg_from_*` functions are one text three times over, with differences that
the module keeps: GitHub turns `--head` off when there is no `HEAD_REF` and names the
archive of a `--head` build after the commit it was told; GitLab and Bitbucket do not, and
name it after the branch; GitLab asks for the version once per portfile; and
GitHub leaves `FILE_DISAMBIGUATOR` in the name, because its test is of
`VCPKG_USE_HEAD_REF`, which no script sets.

### MsysRoot

`Call` declares the packages and builds the worklist; `Resolve` is one turn of the
loop, which skips an alias that is provided, notes an unknown name, or takes a
package and puts its dependencies on the list; `EndOfLoop` fails or goes on. Lists
are sequences, filtered by the positions that stay (`At`, `Distinct`, `Without`). `Hash`
is the list that the code hashes, sorted: how often each package occurs in it and whether it was
given by URL. `Probe` looks for the root, `Clean`, `Unpack`, `Patch` and `Install` prepare it
under `HASH.tmp`, `WriteFstab` and `RemoveHints` configure it, whoever made it. `made` and
`temp` are the directories under the two names; `raced` has the hashes that two runs
prepared at once. A portfile may call the function again (`Call` from `use`): the packages
are declared anew, but not those that an earlier call gave by URL (line 70); a name that is declared
twice is an error (`Redeclare`). A call with an empty list gets the runtime all the same, because
line 101 compares the word `arg_PACKAGES` then (`FirstBacklog`). Left out are the errors about a list of
`DIRECT_PACKAGES` of odd length and about archives whose name cannot be parsed.

### WebRtcCall

`Main` is main, one action per call that may fail or wait, with the unwinding of what was built as
actions of its own (`Close`, `DropCallee`, `StopSource`, `JoinSource`, `DropSink`, `DropThreads`), in the order in
which C++ destroys the variables of main. `Ask` and `Wait` are one request of `Negotiate` and its observer;
`Complete` is WebRTC answering it, well or not. `OnIceCandidate` is the observer's callback: it hands the
candidate to the other peer, which refuses it before it has its remote description. `Producer` is the
loop of `SyntheticVideoSource`: `BroadcastFrame` copies `sinks_` under the mutex, and `CallSink` calls the
sinks of the copy, in any order with `AddOrUpdateSink` and `RemoveSink` of WebRTC's threads. `OnFrame` counts
in the remote sink. `fault` becomes true when a callback, or the producer, reaches something that
is not there. WebRTC appears by what the program relies on: it answers requests, it calls back
until a connection is closed, it may lose frames and report any number of candidates, and frames arrive only
where the peers can be connected (`Connected`).

### WindowProgram

`Program` is main: window, surface, two requests with a future each (`RequestAny`, `Answer`, `WaitAny`), `ConfigureSurface`,
`CreateResources`, and the loop, whose poll dispatches the events that waited when it began
(`LoopHead`, `DispatchEvent`, `EndPoll`). `Happen` is the user or the window system: a resize changes the window at once and
is reported at the next poll; in a browser the sleep that follows the poll reports it, which `DispatchEvent`
stands for as well. `TextureStatus` is what Dawn may answer: one of the two successes or a time-out in any turn; outdated
only when the surface's size is not the window's; an error or lost only without a device or without a configured
surface. This much is assumed of Dawn. A surface without a source is accepted and crashes
main when its formats are read (`ConfigureSurface`). The layouts are computed in bytes as the two languages do it (`UniformsSize`, `ShaderUniforms`);
`ErrorsForCause` compares them, which is a comparison of constants.

### BlockScale

`loop` says which of the three loops runs, `i` is their index, and each action is one turn or the end of a loop.
`stored` are the elements that were written; what is computed is left out.

### Base64Tables

The entries are functions of the index: a table of the file is the module's function, written out for 256
indices. A byte, an index below 64 and a word are sets of bits: a shift moves their elements, a mask intersects, and
"or" is the union. `Encoded`, `Word`, `IsBad` and `Stored` are the loop of `modp_b64.c`, which the port downloads, as the tables' use
by it; `words` is the byte order of the machine and of the tables that were compiled in. The literals of the file are not in
the module: its functions were read off them, and a slip in a single entry would not be noticed.

### SmokePrograms

A program is a sequence of steps: `Make` an object (from another), `Call` something with it, `Check` a value,
`Free` it, go `Back`, `End`. A step that fails does what its program does then: exit with a code, assert, jump, or nothing. `Succeed`,
`Fail`, `Misuse`, `Release` and `Leave` run such a table, in a debug and in a release build (`ndebug`), where asserts are
left out. `SmokeCorrect` is not the same for all 28 programs: its parts name the nine that use what they failed to make
(`AssertsOnly`, `Careless`), RocksDB's order of release (`InnerFirst`) and three objects that are never
released (`Kept`). For the others, and for everything else in these, it holds without exception.

### TestPrograms

The five modules have separate variables, so their product would only multiply their states. `test` says
which program runs, as a portfile builds and runs one program; the others keep one initial state. The
invariants of all modules are checked over this sum.

## Runs

| Run | Question | States |
|---|---|---|
| `distfile_shared` | two roots, one `DOWNLOADS`, every interleaving: `PinnedUse`, `NoClobber`, `RetargetSound`, `DisabledWasMissing` | 539 thousand |
| `git_shared` | two roots, git-tmp and cache shared, branch of two commits, five calls: a commit through `FETCH_REF`; `--head`, with downloads and without; and two that lack their REF | 1.7 million |
| `git_same_name` | REF and `HEAD_REF` are the name of one branch: is a name ever built without `--head`? Yes (finding) | |
| `git_fallback` | does `--head` without `HEAD_REF` build the REF? No (finding) | |
| `extract_modes` | one archive, all modes, kills: `PristineBuild`, `FailsForCause`, `EditsSurvive` and the refinement, which says that directories appear whole | 66 thousand |
| `extract_replaced` | two archive contents, editable builds, kills: `EditableWhole` | 96 thousand |
| `hosted_shared` | two roots, a GitHub port, with `--head` and without: is what is reported built, is what is pinned built, is what `--head` builds fresh? | 502 thousand |
| `hosted_alone` | one root, the three hosts, portfiles of two calls, an old cache: the version | 734 thousand |
| `hosted_fallback` | is a fallback of `--head` a build without it? No (finding) | |
| `msys_shared` | two roots, aliases, a cycle, packages by URL, unknown and redeclared names, kills; does the loop end? | 322 thousand |
| `msys_order` | does one set of packages have one root? No (finding) | |
| `test_programs` | the test programs: `NoDangling`, `FramesForCause`, `SinkCalls` (WebRTC), `FollowsWindow`, `FaultsForCause`, `SteadyTexture` (Dawn), `ScaleCorrect`, `Base64Correct`, `SmokeCorrect`, and `Returns` for all that have a loop or wait | 108 thousand |

Bounds, and why they are enough. Two roots: every property speaks of one run and
of what others do to its files, and one other root can do at any moment what
several could. One `FILENAME` and two contents (with a prefix each) in `Distfile`: a call either
agrees with another or does not. Two commits: before and after a push; `MaxCommit`
bounds `Push` in `GitSource` and `HostedSource`. `FewRaces` bounds `git_shared`: in one history the roots race for the archive of the commit
or for that of the branch, not for both, as the properties say least of names that are raced for. One port for git: names and directories of ports are
disjoint but for git-tmp, and what other ports do there (`FETCH_HEAD`, objects)
other calls of the same port do as well. Two patches and two contents: a patch fits
or not, the first, the last or none. Two repositories and two packings: a portfile's calls
are of one repository or of two, and an archive differs from that of its commit or not.
`MaxHashes` bounds `Probe` of `MsysRoot`: two roots prepare one hash in `msys_shared`, because
directories of different hashes have nothing to do with each other, and one root
prepares two in `msys_order`. Where the second root of `msys_shared` makes one request, the first one
makes every one. `SYMMETRY` permutes the roots in
`distfile_shared`, `git_shared` and `hosted_shared`, which treat them alike; `msys_shared` checks
liveness and has none. Two combinations are too large for a run and are covered by the
theorems alone: replaced archives in clean builds (`PristineBuild`), and
`ReportsNotNewer` with two roots. The proofs need none of the bounds.

In `test_programs`: two encoders, because a broadcast may be between the calls of one and of the
other; one candidate of each peer, which comes early or late; two frames, so that the first is not
enough, and one more; `MaxWire` and `MaxEvents` of two, for an event behind another. Three sizes: none, the
window's and another. `Builds` has a platform that presents by itself, one that does not, and one without a surface.
Vectors of one, two and four lanes and arrays up to 21 elements: five blocks of the longest vector and
one element, so that each loop runs never, once and more than once. `SomeBlocks` puts each of the 256
values at each of the three places of a block, hence each of the 64 at each place of a code; `BorderCharacters`
are at the borders of the alphabet's ranges, inside and outside. `SmokePrograms` has no constants, and the run goes through all of it.

Deadlock is checked in all runs but `test_programs`, whose programs end.

Liveness. Most functions are a sequence without loops, which a kill may end, so that what could be
required of them in the long run is what a next call finds, and that is stated
as safety (`WholeArchives`, `FailsForCause`, `PristineBuild`); no fairness is assumed for them.
One exception is the worklist of `MsysRoot`, which could run for ever on cyclic dependencies:
`Resolves` says that it ends. `FairSpec` assumes weak fairness of the steps of each run, which
means no more than that a CMake process that is not killed goes on: it waits for nobody, since the
function takes no lock. The other exception is the test programs, which wait for other threads.
`Returns` says that the WebRTC call ends whatever fails, that `scale` ends, and that the window program ends
after escape was released. `TestFairness` is weak fairness of main, of the producer thread and of the
signaling thread's answers (`Complete`), of the window program and of Dawn's answer to a request, and of the loops of
`scale`: threads that can go on do, and the libraries answer what they accepted, which is what their callback
interfaces promise; the end of the ten seconds is a step of main. Nothing is assumed of candidates, frames, encoders, users and lost devices.

### Findings

`git_fallback`: "Falling back to non-HEAD version" (`vcpkg_from_git.cmake:53`) is not
what happens. Line 119 looks at `VCPKG_USE_HEAD_VERSION` alone, so that with
`FETCH_REF` the tip of that branch is archived and built, and stays in the cache
under the name of `REF`. Builds without `--head` take it from there later, which is
why `PinnedBuild` is proved and checked for ports that have a `HEAD_REF` whenever
`--head` is used (`NoFallback`). Without `FETCH_REF` the message is true as long as one root is at work, which is proved
(`FallbackAloneCorrect`). With a second one it is not: a fallback fetches in `git-tmp`, which all roots share, and
takes `FETCH_HEAD` there, which another root's fetch may have replaced in between.

`git_same_name`: "REF must be a commit SHA" (`vcpkg_from_git.cmake:157`), and a name is refused when it is fetched. But the
check of lines 154-161 is made only when there is no archive under the name of the REF (line 68), and a
`--head` build leaves one under the name of the branch of its `HEAD_REF`. If REF is that branch, a build without `--head`
takes it without a check. With any other name no build without `--head` takes it: `NamesRefused` is proved
for ports whose names differ (`NamesDiffer`), and TLC checked that with two roots in 776 thousand states. `PinnedBuild` is about REFs that are commits and needs nothing of names.

`hosted_fallback`: the same message stands in `vcpkg_from_gitlab.cmake:76` and
`vcpkg_from_bitbucket.cmake:47`, and there too the later test (`gitlab:94`, `bitbucket:59`) is
of `VCPKG_USE_HEAD_VERSION` alone: the version of a branch without a name is downloaded.
Then the build fails, or it is the build of `REF` and reports another version. `vcpkg_from_github.cmake:52`
turns the variable off where it prints the message; that this is enough for GitHub is proved (`GithubFallsBack`).

`msys_order`: "Returns a stable collection of hashes, regardless of package order"
(`vcpkg_acquire_msys.cmake:139`). When an alias comes up before its package, line 111 turns it into
the package, and the package's own name, still on the list, is resolved a second time; in the
other order line 112 skips the alias. The sorted list then has the package twice or once, and one set of
packages two hashes. In the repository `pkgconf` provides `pkg-config`: `ports/v8/portfile.cmake:32`
asks for `pkg-config` besides the default packages, which have `pkgconf`. Nothing else does it, but for a list of
dependencies that names a package twice: the comment is proved of every set of packages that has neither (`OneRootPerPlainSet`).

Not a finding, but worth knowing: two roots that fetch the same archive at once
share its temporary file. `WholeArchives`, `HeadVersionTrue`, `HeadFresh` and
`CacheStable` of `GitSource` exclude the names in `raced`, and TLC violates each of them
within a few steps without this exclusion (`CacheStable` only as to unfinished files: a commit never takes
the place of another, raced or not). Just so a call that disagrees about a `FILENAME` may replace the file after the check
(`contended`), and an archive may be replaced between its hash and its extraction (`stale`). The same holds of roots that two runs of
`vcpkg_acquire_msys` prepare in one `HASH.tmp`. The expression `^mingw64` of
`vcpkg_acquire_msys.cmake:100` is meant for packages that need no msys runtime; the
names of these begin with `mingw-w64`, so that every call gets the runtime. And a package that one call of
a portfile gives by URL is not declared in its next call (line 70 returns before the name is
put on the list): that call must give it again or fails as if the package were unknown.

With downloads disabled a call with `ALWAYS_REDOWNLOAD` fails and says that its file "does not exist" when it
does (`vcpkg_download_distfile.cmake:113-114`), because it did not look. `DisabledWasMissing` leaves these calls out.

In the test programs: an ICE candidate that comes before the remote description is refused and lost, so that a
call may time out although nothing is wrong with WebRTC; `FramesForCause` shows that no such call is
reported as a success. A sink that WebRTC removes may be called once more (`LateOnce`), since `sinks_copy` is used
without the lock. The window program aborts when the window is resized between the poll and the
texture, or minimised, and when a texture times out (`FaultsForCause` allows it). `vcpkg-ci-rocksdb` removes its
directory under the open database (line 21). `vcpkg-ci-duktape`, `vcpkg-ci-leveldb` and `vcpkg-ci-rocksdb` check by
`assert` alone, and a release build defines `NDEBUG` (`scripts/toolchains/windows.cmake:89`; CMake does by itself elsewhere): it
ends with 0 whatever it computed, or uses a database that did not open. `ZeroMeansWorked` therefore
speaks of debug builds. `vcpkg-ci-minc`, `vcpkg-ci-gmime`, `vcpkg-ci-tree-sitter`,
`vcpkg-ci-duktape`, `vcpkg-ci-fluidsynth` and `vcpkg-ci-mpg123` use what they got without a look,
and `vcpkg-ci-unarr` uses a stream that has no value: `UsesWhatItHas` names them. The last loop of
`vcpkg-ci-ankurvdev-embedresource` (line 51) goes over the second collection again, and not over the third.
`vcpkg-ci-highway` hands `scale` the memory of `std::vector<float>`, although `Load` and `Store` want the alignment of
the longest vector. `ports/modp-base64/config.h.cmake` does not define `WORDS_BIGENDIAN`, which `modp_b64_data.h:94`
tests.

## Proofs

The theorems hold for every set of roots, files, ports, packages
and requests; their assumptions are the named ones of the modules: that the
special values differ from the contents, and that requests are well formed.

*Distfile.* `PinnedUse` is not inductive: that a portfile reads the right content
at `Use` follows from what was hashed at `Verify`, from the name it was hashed
under, and from no disagreeing call having replaced the file since. `IInv` adds what a
call knows at every place (`SettledName`, `FetchOfMissing`, `NameOfCall`), that its
arguments were checked, and that `contended` has everyone who overlapped
(`ContendedMarked`).

*GitSource.* `PinnedBuild` needs that every file under the name of a commit is
absent, partial or that commit (`FilesHold`), wherever it was renamed to, and that
a call past rev-parse works on the commit of its REF (`PinnedRev`); `NoFallback` is
needed for the latter and is an assumption of the theorem. With names that differ from HEAD_REF's (`NamesDiffer`, which
only `NamesRefusedCorrect` assumes) `FilesHold` also says that there is no file under the name of any other REF. `WholeArchives` has an
invariant of its own: races are marked (`RacesMarked`), and without a race a run's handle
points to its temporary file until it is whole (`OwnTemp`). `CacheStable` follows
from the two invariants and from the fact that no step changes both `raced` and the cache.

`HeadVersionTrue` and `HeadFresh` of this module need what a run knows of the branch at each of its places: what was
fetched for it is not older than the branch was at its call, and what it reports is what its archive will hold.
`LInv` does the same for a fallback of a root that is alone: what it has in `FETCH_HEAD` is its REF.

*ExtractSource.* The invariant `IInv` is a conjunct for each place of the function: what is in `.tmp`
while it is filled, how many patches were applied, that the directory does not exist before
`Install`. What makes it inductive is that a directory under its final name is only ever
made by the rename, and that `stale` has every archive that was replaced since it was
hashed. The refinement of `SourceDirs` is proved one step at a time: `Clean`'s first file is
`Disappear`, `Install` is `Appear`, the rest maps to a step of the same name or to a stutter.

*HostedSource.* Every step is a step of `Distfile` or leaves its variables alone (`ImplementsDistfile`), so the invariant of `Distfile`
holds, and `PinnedBuild` is its `PinnedUse` seen from the caller. `HInv` adds the state of the
script (`ScriptType`), that a file in `DOWNLOADS` holds what its name says, a commit's archive under a
commit's name and an answer under an answer's (`FilesFit`), and for each place of a run what it
has asked for and what it knows of the branch (`RunInv`). `GithubReportsBuilt` follows from
`FilesFit`; `ReportsNotNewer` from the branch only moving forward.

`HeadFresh` has an invariant of its own, `FInv`, which follows the age of an answer through the call: a file that is not
there before `Fetch`, or is not looked at, is downloaded, so that it is what the branch was at after the call began (`Served`); the name
of the archive is made from that answer, or from the branch; and the archive that is unpacked is of a commit that is not
older (`Fresh`). It needs the history `crossed`: where another root downloads the version or the archive at the same time, the
file may be that root's, who asked earlier. `CallersKeepCache` carries the action properties of `Distfile` over: they hold
of its cache when its callers are these.

*MsysRoot.* The resolver: `Closing` says that every name that is needed is resolved, waiting or
unknown, `Minimal` that every set that serves the call holds all that is resolved or waits, and
`AtEnd` carries both past the loop. Together they say that the result is the least set, without
induction over dependencies. `AtElements` is the lemma about lists: positions numbered by their rank
are a bijection, so that filtering keeps the elements that it says, each as often as it was there.

How often a package is resolved is the subject of `OInv`: a package that no alias stands for, and that no list of dependencies names twice, is at
most once on the worklist and at most once among the resolved, and never in both. `CountedOnce`, that the hash counts it once, and
`OneRootPerPlainSet` follow. `ResolveAdvances` is the argument why the loop ends, which the run checks as `Resolves`: what is
resolved grows within the finite set of declared packages (`Bounded`); a turn that adds nothing to it
lowers the number of waiting names whose package is resolved, or keeps it and shortens the worklist. The conclusion from there, by
a well-founded induction and fairness, is left to TLC's run. The directory: `DInv` says that
races are marked, that `.tmp` of a run that is alone holds what it has unpacked so far (`Progress`), and that
what has the final name is whole (`Placed`).

*WebRtcCall.* `Lifetimes` says, for each place of main, which objects exist and which connections are open; with it no
callback finds a gap (`NoDangling`). `Progress` ties the descriptions that are set to the request that main has reached, `Frames`
the frames on the way and counted to a connection that was possible (`Arrived`), and `Entries` bounds, for each encoder, the calls
that it had and still has in the copy. Of `Returns` the part that is safety is proved: main never waits for what nobody
owes it (`WaitsForCause`), comes nearer to its end with each step (`MainAdvances`, a number that counts the places and the requests that
are left), and the producer that it joins runs out (`ProducerRunsOut`).

*WindowProgram.* `Follows` is the loop's invariant over the queue: the last resize that waits, or the surface
if none does, has the window's size. Positions of a queue shift when an event is dispatched, and most lemmas are about
that. `Held` says that the texture is held between `GetCurrentTexture` and `Present` only, where no callback runs.
`EscapeAdvances` counts the steps to the dispatch of an escape: its place in the queue if the poll that runs has it, and else the rest of this turn and
of a whole poll. `FaultsForCause` follows from the status of the last texture (`texture`): it is proved of every abort but one by a
time-out, which needs no cause.

*BlockScale.* `Prefix` says that what is stored is what is before `i`, and `Multiple` that `i` is a whole number of vectors until
the last loop. Nothing bounds the length or the lanes. `ScaleAdvances` is the reason why the loops end.

*Base64Tables.* What a block is encoded to decodes to it (`EncodedDecodes`) and what a code of letters decodes to is encoded to it
(`DecodedEncodes`), so that two codes never decode to the same block. The lemmas go bit by bit: `First`, `Second` and `Third` are the bytes of four indices (`JoinsAfterSplit`,
`SplitsAfterJoin`), and in both byte orders the joined entries are these three bytes at their places in the word (`LittleWord`, `BigWord`,
`BytesOfWord`), which leave bit 24 free. An entry that is `BadChar` keeps the joined word at or above it, whatever it is joined with.
`CodecInv` says that what was damaged is not the code of the block.

*SmokePrograms.* A discipline of programs, `Disciplined`, that looks at one step at a time: there is a table of what the program holds before
each step (`Owned`) in which a step finds what it needs and a release leaves nothing that was made from what it releases; a failure that
is not tolerated leads to a place from which the program cannot end with 0 (`Doomed`), or to a step that lacks what was not made. `SmokeInv` is inductive for
every program that keeps it, and one lemma for each program gives its table. The programs with an exception are exempted from
that part of the discipline by the sets that the property names.

*TestPrograms.* A step of the sum is a step of one program and leaves the others' variables alone, so that `TestSpec` implements the specification of each
(`SumOfPrograms`), and the theorems about these hold in what the run checks (`SumIsCorrect`).

Only model-checked: liveness
(`Resolves`, `Returns`), for which the prover has no `ENABLED`: of these the measures are proved that each fair step
lowers (`ResolveAdvances`, `MainAdvances`, `ProducerRunsOut`, `EscapeAdvances`, `ScaleAdvances`). Proved, and in no run: `TypeOK` of `WebRtcCall`, `WindowTypeOK` and `ScaledOnce`, the theorems that bound the findings
(`NamesRefused` where the names differ, `GithubFallsBack`, `OneRootPerPlainSet`), `NeverMalformed`, `CountedOnce` and the measures. TLC checked them
on the instances of the runs before they were proved.

## What is not modelled

External programs and libraries (the vcpkg tool, git, tar, WebRTC, Dawn, GLFW) appear by what the
code relies on. SHA512 is injective, and so
are its prefixes of ten digits in directory names; the prefixes of eight digits in
file names are not (`Tag` is any function, and the instance has a collision).
Wording, logs and command lines are left out; so are pixels, timestamps, what the shader computes, and
the padding of Base64.

Components without a module, and what would be worth a model in them:

* the deprecated form of `vcpkg_extract_source_archive` (lines 6-27): a kill between the
  extraction and the stamp, and a failed `tar` that is stamped;
* `vcpkg_extract_archive`, `vcpkg_find_acquire_program`: tools unpacked in place in a directory that roots
  share (`AcquireProgram`);
* `applocal.ps1`, `osx/applocal.py`: parallel deployments under the mutex; the recursion without a set of visited
  libraries (`AppLocal`);
* `buildsystems/vcpkg.cmake`: the stack of saved variables of nested `find_package` calls;
* `vcpkg_execute_*process*`: retries; `bootstrap.sh`: the executable is removed before it is replaced;
  `generatePortVersionsDb.py`: workers that fail; the environment backup.

They were left for last because what they do wrong shows at once and is mended by another run, or because
they are text processing. The headers that ports carry for third-party libraries (`ports/libfpx/fpxlib.h`,
`ports/cityhash/config.h`, `ports/libu2f-server/u2f-server-version.h` and smaller ones) are declarations and macros;
`ports/gettimeofday/gettimeofday.c` is a copy from PostgreSQL. The test programs that no module names make
a few calls in a row, without an error path or an object to release. `PROJECT.json` says of each component why it is not modelled.

## Plan

1. `Distfile`, `GitSource`, `ExtractSource` with `SourceDirs`, `HostedSource` over `Distfile`, `MsysRoot`: done.
2. `WebRtcCall`, `WindowProgram`, `BlockScale`, `Base64Tables`, `SmokePrograms` and their sum: done.
3. Proofs: all safety properties of the runs are proved; so is how far the four
   findings reach, and the measures behind `Resolves` and `Returns`.
4. Open modules, in the order of the list above.
