----------------------------- MODULE CoreCache -----------------------------
(***************************************************************************)
(* The files that calls of several handlers install in the data directory: *)
(* binaries of one core (internal/core/download.go, embedded_binary.go),   *)
(* each in the directory of its version, and resources of the runtime      *)
(* (internal/api/server.go, runtime_geo_resources.go).  Every file is      *)
(* written as <name>.tmp, renamed, and made executable where it is one;    *)
(* nothing excludes two calls from writing one name.                       *)
(*                                                                         *)
(* A call that has a file open follows the file, not its name: fd is where *)
(* that file is now.  Left out: the contents of files but for whether they *)
(* are all there, disk errors other than a write that fails, and cores that*)
(* are configured or on the PATH, which nothing is installed for.          *)
(*                                                                         *)
(* An archive that is torn or being written need not be noticed: from a    *)
(* .tar.gz the binary is copied without reading on to the checksum.  What  *)
(* comes out of it is then torn, too.                                      *)
(***************************************************************************)
EXTENDS Integers, Sequences, FiniteSets

CONSTANTS
    ByName,        \* version directories in the order in which ReadDir lists them
    Releases,      \* the tags of the releases, in the order in which they appear
    Uploads,       \* what users give as the version of an upload
    Outside,       \* those of them that are no name of a directory (.., a/b)
    Clients,       \* handlers
    None,
    MaxCalls,      \* bound on installing calls
    MaxCrashes     \* bound on ends of the server process

Dirs == {ByName[i] : i \in 1..Len(ByName)} \cup {"runtime"}
Tags == {Releases[i] : i \in 1..Len(Releases)}
Contents == Tags \cup {"embedded", "exe", "junk", "bad", "torn"}
Path == [dir : Dirs, name : {"bin", "archive", "plain", "resource"}, tmp : BOOLEAN]

ASSUME TagsAreVersions == Tags \cup {"embedded"} \cup (Uploads \ Outside) \subseteq Dirs
ASSUME OutsideIsNoDir == Outside \cap Dirs = {}
ASSUME RuntimeIsNoVersion == "runtime" \notin {ByName[i] : i \in 1..Len(ByName)}
ASSUME ReleasesAreNoOther == Tags \cap {"embedded", "exe", "junk", "bad", "torn"} = {}
ASSUME SomeRelease == Len(Releases) \in Nat \ {0}
ASSUME BoundsAreNat == {MaxCalls, MaxCrashes} \subseteq Nat

VARIABLES
    files,         \* the file of each path
    latest,        \* position of the latest release
    calls, crashes,
    pc, job,       \* where a call is, and what it writes: a path and its content
    fd             \* the path at which the file a call has open is now

vars == <<files, latest, calls, crashes, pc, job, fd>>

\* header: it starts as an executable does; whole: what was copied is all there; x: it is
\* executable; from: what was written into it.  History: by, the calls that were about to
\* rename it at once; torn, those that wrote the archive of torn contents.
File == [header : BOOLEAN, whole : BOOLEAN, x : BOOLEAN, from : SUBSET Contents,
         by : SUBSET Clients, torn : SUBSET Clients]
ASSUME NoneIsNothing == None \notin Path /\ None \notin File
At(dir, name) == [dir |-> dir, name |-> name, tmp |-> FALSE]
Tmp(p) == [p EXCEPT !.tmp = TRUE]
Bin(dir) == At(dir, "bin")
Job == [path : Path, content : Contents, torn : SUBSET Clients]
NoJob == [path |-> None, content |-> None, torn |-> {}]

Init ==
    /\ files = [p \in Path |-> None]
    /\ latest = 1
    /\ calls = 0
    /\ crashes = 0
    /\ pc = [c \in Clients |-> "idle"]
    /\ job = [c \in Clients |-> NoJob]
    /\ fd = [c \in Clients |-> None]

-----------------------------------------------------------------------------
(* Reading the cache *)

\* executableBinary looks at the first bytes of the file, and at nothing else of it.
Executable(dir) == files[Bin(dir)] # None /\ files[Bin(dir)].header

\* CachedBinary: the last directory, by name, that has one.
CachedBinary ==
    LET have == {i \in 1..Len(ByName) : Executable(ByName[i])}
    IN IF have = {} THEN None ELSE ByName[CHOOSE i \in have : \A j \in have : j <= i]

-----------------------------------------------------------------------------
(* Calls *)

Begin(c, path, content) ==
    /\ pc[c] = "idle"
    /\ calls < MaxCalls
    /\ calls' = calls + 1
    /\ pc' = [pc EXCEPT ![c] = "create"]
    /\ job' = [job EXCEPT ![c] = [path |-> path, content |-> content, torn |-> {}]]
    /\ UNCHANGED <<files, latest, crashes, fd>>

\* downloadRelease: what is there already is not downloaded again.
Download(c) ==
    LET tag == Releases[latest] IN
    ~Executable(tag) /\ Begin(c, At(tag, "archive"), tag)

\* DownloadLatest.
Update(c) == Download(c)

\* ResolveBinary for a core that is started, where it installs something: the binary that
\* is part of the program, or a release if it has none or cannot install it.
Resolve(c) ==
    /\ CachedBinary = None
    /\ Begin(c, Bin("embedded"), "embedded") \/ Download(c)

\* InstallLocalVersion: the uploaded file is an archive, or has the name of the binary,
\* or another one; what it holds is not looked at.
Upload(c, version) ==
    /\ version \notin Outside
    /\ \E name \in {"archive", "bin", "plain"}, content \in {"exe", "junk"} :
         Begin(c, At(version, name), content)

\* An upload of a runtime resource; geo data that is not there is brought along.
UploadResource(c) == Begin(c, At("runtime", "resource"), "exe")
EnsureResource(c) ==
    files[At("runtime", "resource")] = None /\ Begin(c, At("runtime", "resource"), "embedded")

-----------------------------------------------------------------------------
(* Writing a file *)

Goto(c, point) == pc' = [pc EXCEPT ![c] = point]
Done(c) ==
    /\ Goto(c, "idle")
    /\ job' = [job EXCEPT ![c] = NoJob]
    /\ fd' = [fd EXCEPT ![c] = None]

\* The request for a release fails, or the file cannot be created.
CreateFails(c) ==
    /\ pc[c] = "create"
    /\ Done(c)
    /\ UNCHANGED <<files, latest, calls, crashes>>

Writers(p) == {d \in Clients : fd[d] = p}
Users(p) == {d \in Clients : pc[d] \in {"open", "copy", "rename"} /\ Tmp(job[d].path) = p}

\* os.Create truncates a file that is there, also one that another call writes.
Create(c) ==
    /\ pc[c] = "create"
    /\ LET p == Tmp(job[c].path)
       IN /\ files' = [files EXCEPT ![p] =
                         [header |-> FALSE, whole |-> FALSE,
                          x |-> files[p] # None /\ files[p].x,
                          from |-> {job[d].content : d \in Writers(p)},
                          by |-> {c} \cup Users(p),
                          torn |-> UNION {job[d].torn : d \in Writers(p)}]]
          /\ fd' = [fd EXCEPT ![c] = p]
    /\ Goto(c, "open")
    /\ UNCHANGED <<latest, calls, crashes, job>>

\* Whether what is written first is the start of an executable.
Starts(path, content) ==
    IF content = "torn" THEN BOOLEAN ELSE {path.name # "archive" /\ content # "junk"}

\* io.Copy writes the first bytes, wherever the file is by now.
CopyBegins(c) ==
    /\ pc[c] = "open"
    /\ \E header \in Starts(job[c].path, job[c].content) :
         files' = IF fd[c] = None THEN files
                  ELSE [files EXCEPT ![fd[c]].header = header,
                                     ![fd[c]].whole = FALSE,
                                     ![fd[c]].from = @ \cup {job[c].content},
                                     ![fd[c]].torn = @ \cup job[c].torn]
    /\ Goto(c, "copy")
    /\ UNCHANGED <<latest, calls, crashes, job, fd>>

\* The last writer of one content leaves it whole.  With others still writing, or other
\* contents written before, anything can be left.
CopyEnds(c) ==
    /\ pc[c] = "copy"
    /\ job[c].content # "bad"
    /\ IF fd[c] = None THEN files' = files
       ELSE LET f == files[fd[c]]
                clear == f.from = {job[c].content} /\ Writers(fd[c]) = {c}
            IN \E whole \in {TRUE, clear} :
                 files' = [files EXCEPT ![fd[c]].whole = whole,
                                        ![fd[c]].from = {job[c].content} \cup
                                                        IF whole THEN {} ELSE @,
                                        ![fd[c]].torn = @ \cup job[c].torn]
    /\ fd' = [fd EXCEPT ![c] = None]
    /\ Goto(c, "rename")
    /\ UNCHANGED <<latest, calls, crashes, job>>

\* Mutant: the error of the copy is not looked at.
CopyFailsMutant(c) ==
    /\ pc[c] \in {"open", "copy"}
    /\ Goto(c, "rename")
    /\ fd' = [fd EXCEPT ![c] = None]
    /\ UNCHANGED <<files, latest, calls, crashes, job>>

\* What has the name now is removed, the file the call wrote stays broken.
CopyFails(c) ==
    /\ pc[c] \in {"open", "copy"}
    /\ LET p == Tmp(job[c].path)
           marked == IF fd[c] = None THEN files
                     ELSE [files EXCEPT ![fd[c]].from = @ \cup {"bad"}]
       IN /\ files' = [marked EXCEPT ![p] = None]
          /\ pc' = [pc EXCEPT ![c] = "idle"]
          /\ job' = [job EXCEPT ![c] = NoJob]
          /\ fd' = [d \in Clients |-> IF d = c \/ fd[d] = p THEN None ELSE fd[d]]
    /\ UNCHANGED <<latest, calls, crashes>>

\* os.Rename: files that are open keep their writers.
Moved(p, q) ==
    /\ files' = [files EXCEPT ![q] = files[p], ![p] = None]
    /\ fd' = [d \in Clients |-> IF fd[d] = p THEN q ELSE IF fd[d] = q THEN None ELSE fd[d]]

Next1(name) ==
    CASE name = "archive" -> "extract"
      [] name = "plain" -> "install"
      [] name = "bin" -> "chmod"
      [] name = "resource" -> "idle"

Rename(c) ==
    /\ pc[c] = "rename"
    /\ LET p == job[c].path
       IN /\ files[Tmp(p)] # None
          /\ Moved(Tmp(p), p)
          /\ Goto(c, Next1(p.name))
          /\ job' = IF p.name = "resource" THEN [job EXCEPT ![c] = NoJob] ELSE job
    /\ UNCHANGED <<latest, calls, crashes>>

\* Another call has renamed or removed the file.
RenameFails(c) ==
    /\ \/ pc[c] = "rename" /\ files[Tmp(job[c].path)] = None
       \/ pc[c] = "install" /\ files[job[c].path] = None
    /\ Done(c)
    /\ UNCHANGED <<files, latest, calls, crashes>>

\* What comes out of an archive that writers may still be writing; "bad" is an error.
Unpacked(archive, writers) ==
    IF archive.whole /\ writers = {}
    THEN IF archive.from = {"junk"} THEN {"bad"} ELSE archive.from
    ELSE {"bad", "torn"} \cup (archive.from \ {"junk"})

\* extractBinary opens the archive that has the name now, and writes the binary as any
\* other file; without a binary in it, it fails.
Extract(c) ==
    /\ pc[c] = "extract"
    /\ LET archive == files[job[c].path]
       IN \E content \in Unpacked(archive, Writers(job[c].path)) :
            job' = [job EXCEPT ![c] =
                      [path |-> Bin(job[c].path.dir), content |-> content,
                       torn |-> IF content = "torn" THEN archive.by \cup archive.torn ELSE {}]]
    /\ Goto(c, "create")
    /\ UNCHANGED <<files, latest, calls, crashes, fd>>

\* An upload of another name becomes the binary.
Install(c) ==
    /\ pc[c] = "install"
    /\ files[job[c].path] # None
    /\ Moved(job[c].path, Bin(job[c].path.dir))
    /\ job' = [job EXCEPT ![c].path = Bin(@.dir)]
    /\ Goto(c, "chmod")
    /\ UNCHANGED <<latest, calls, crashes>>

\* Mutant: what was brought along is not made executable.
ChmodMutant(c) ==
    /\ pc[c] = "chmod"
    /\ files' = IF job[c].content = "embedded" THEN files
                ELSE [files EXCEPT ![job[c].path].x = TRUE]
    /\ Done(c)
    /\ UNCHANGED <<latest, calls, crashes>>

Chmod(c) ==
    /\ pc[c] = "chmod"
    /\ files' = [files EXCEPT ![job[c].path].x = TRUE]
    /\ Done(c)
    /\ UNCHANGED <<latest, calls, crashes>>

-----------------------------------------------------------------------------

NewRelease ==
    /\ latest < Len(Releases)
    /\ latest' = latest + 1
    /\ UNCHANGED <<files, calls, crashes, pc, job, fd>>

\* The server process ends; files stay as they are.
Crash ==
    /\ crashes < MaxCrashes
    /\ crashes' = crashes + 1
    /\ pc' = [c \in Clients |-> "idle"]
    /\ job' = [c \in Clients |-> NoJob]
    /\ fd' = [c \in Clients |-> None]
    /\ UNCHANGED <<files, latest, calls>>

Next ==
    \/ \E c \in Clients :
         \/ Update(c) \/ Resolve(c) \/ UploadResource(c) \/ EnsureResource(c)
         \/ \E version \in Uploads : Upload(c, version)
         \/ CreateFails(c) \/ Create(c) \/ CopyBegins(c) \/ CopyEnds(c) \/ CopyFails(c)
         \/ Rename(c) \/ RenameFails(c) \/ Extract(c) \/ Install(c) \/ Chmod(c)
    \/ NewRelease
    \/ Crash

Spec == Init /\ [][Next]_vars

-----------------------------------------------------------------------------
(* Properties *)

\* Calls write in the data directory only.
TypeOK ==
    /\ files \in [Path -> {None} \cup File]
    /\ latest \in 1..Len(Releases)
    /\ calls \in 0..MaxCalls
    /\ crashes \in 0..MaxCrashes
    /\ pc \in [Clients -> {"idle", "create", "open", "copy", "rename", "extract",
                           "install", "chmod"}]
    /\ job \in [Clients -> {NoJob} \cup Job]
    /\ \A c \in Clients : pc[c] # "idle" => job[c] \in Job
    /\ fd \in [Clients -> {None} \cup Path]
    /\ \A c \in Clients : fd[c] # None => files[fd[c]] # None

Several(S) == \E x, y \in S : x # y

\* A file under its final name is all there, whatever failed and whenever the server
\* ended, unless two calls wrote it at once; it is all there again when both have written
\* the same, and neither failed or was cut off.  A call that wrote it alone may still have
\* put a torn binary there, but only out of an archive that two calls wrote at once.
InstalledIsWhole ==
    \A p \in Path : ~p.tmp /\ files[p] # None =>
      /\ ~files[p].whole =>
           /\ Several(files[p].by)
           /\ \/ Writers(p) # {} \/ Several(files[p].from) \/ "bad" \in files[p].from
              \/ crashes > 0
      /\ "torn" \in files[p].from => Several(files[p].torn)

\* A binary of the cache can be started, or a call is about to make it so; only the end
\* of the server between the two leaves one that ResolveBinary finds and cannot be
\* started (and that no later update replaces).
CachedIsStartable ==
    \A dir \in Dirs : Executable(dir) /\ ~files[Bin(dir)].x =>
      \/ \E c \in Clients : pc[c] = "chmod" /\ job[c].path = Bin(dir)
      \/ crashes > 0

\* README.md:41: of the cached versions the newest valid one is used.
NewestIsUsed ==
    \A i, j \in 1..Len(Releases) :
      i < j /\ Executable(Releases[i]) /\ Executable(Releases[j]) =>
        CachedBinary # Releases[i]
=============================================================================
