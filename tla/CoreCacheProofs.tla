--------------------------- MODULE CoreCacheProofs ---------------------------
(***************************************************************************)
(* Proofs about CoreCache, for every set of versions, uploads and clients  *)
(* and any number of calls and ends of the server.  IInv is inductive: it  *)
(* adds to the types where each call is with the file it works on.         *)
(***************************************************************************)
EXTENDS CoreCache, TLAPS

\* A file that is all there holds something, and a call beyond the writing of a file has
\* it under the name it goes on with.
InPlace ==
    /\ \A p \in Path : files[p] # None /\ files[p].whole => files[p].from # {}
    /\ \A c \in Clients :
         /\ fd[c] # None => pc[c] \in {"open", "copy"}
         /\ pc[c] # "idle" => ~job[c].path.tmp
         /\ pc[c] = "extract" => job[c].path.name = "archive"
         /\ pc[c] = "install" => job[c].path.name = "plain"
         /\ pc[c] = "chmod" => job[c].path.name = "bin"
         /\ pc[c] \in {"extract", "chmod"} => files[job[c].path] # None

IInv == TypeOK /\ InPlace

\* The names of files that calls write to are paths.
LEMMA PathsType ==
  ASSUME NEW p \in Path
  PROVE  Tmp(p) \in Path /\ Tmp(p).tmp /\ Bin(p.dir) \in Path /\ ~Bin(p.dir).tmp
BY DEF Path, Tmp, Bin, At

\* A name in a directory is a path, and not that of a temporary file.
LEMMA AtType ==
  ASSUME NEW dir \in Dirs, NEW name \in {"bin", "archive", "plain", "resource"}
  PROVE  At(dir, name) \in Path /\ ~At(dir, name).tmp /\ At(dir, name).name = name
BY DEF Path, At

\* The version that is downloaded is one of the known tags.
LEMMA LatestTag == ASSUME TypeOK PROVE Releases[latest] \in Tags
BY SomeRelease DEF TypeOK, Tags

\* A call begins with a path under its final name.
LEMMA BeginKeeps ==
  ASSUME IInv, NEW c \in Clients, NEW path \in Path, ~path.tmp,
         NEW content \in Contents, Begin(c, path, content)
  PROVE  IInv'
<1>1. TypeOK'
  <2> DEFINE j == [path |-> path, content |-> content, torn |-> {}]
  <2>1. j \in Job
    BY DEF Job
  <2>2. job' = [job EXCEPT ![c] = j] /\ pc' = [pc EXCEPT ![c] = "create"]
        /\ UNCHANGED <<files, latest, crashes, fd>> /\ calls < MaxCalls /\ calls' = calls + 1
    BY DEF Begin
  <2> HIDE DEF j
  <2> QED
    BY <2>1, <2>2, BoundsAreNat DEF IInv, TypeOK
<1>2. InPlace'
  BY DEF IInv, TypeOK, InPlace, Begin
<1> QED
  BY <1>1, <1>2 DEF IInv

\* What a call that is under way has to do.
LEMMA JobType ==
  ASSUME TypeOK, NEW c \in Clients, pc[c] # "idle"
  PROVE  job[c].path \in Path /\ job[c].content \in Contents /\ job[c].torn \subseteq Clients
BY DEF TypeOK, Job

\* The first bytes of a copy: the file is begun, and what made it executable stays.
LEMMA BeginsWriting ==
  ASSUME IInv, NEW c \in Clients, CopyBegins(c), fd[c] # None
  PROVE  \E f \in File : /\ files' = [files EXCEPT ![fd[c]] = f]
                       /\ f.x = files[fd[c]].x /\ f.by = files[fd[c]].by /\ ~f.whole
                       /\ f.from = files[fd[c]].from \cup {job[c].content}
                       /\ f.torn = files[fd[c]].torn \cup job[c].torn
<1>0. PICK header \in Starts(job[c].path, job[c].content) :
         files' = [files EXCEPT ![fd[c]].header = header, ![fd[c]].whole = FALSE,
                                ![fd[c]].from = @ \cup {job[c].content},
                                ![fd[c]].torn = @ \cup job[c].torn]
  BY DEF CopyBegins
<1> DEFINE p == fd[c]
           f == [files[p] EXCEPT !.header = header, !.whole = FALSE,
                                 !.from = @ \cup {job[c].content},
                                 !.torn = @ \cup job[c].torn]
<1>1. /\ p \in Path /\ files[p] \in File /\ job[c].content \in Contents
      /\ job[c].torn \subseteq Clients
  BY JobType DEF CopyBegins, IInv, TypeOK
<1>2. header \in BOOLEAN
  BY DEF Starts
<1>3. /\ f \in File /\ f.x = files[p].x /\ f.by = files[p].by /\ ~f.whole
      /\ f.from = files[p].from \cup {job[c].content}
      /\ f.torn = files[p].torn \cup job[c].torn
  BY <1>1, <1>2 DEF File
<1>4. files' = [files EXCEPT ![p] = f]
  BY <1>0, <1>1
<1> QED
  BY <1>3, <1>4

\* The last bytes of a copy: the file is whole, or another content was written into it
\* or is being written.
LEMMA EndsWriting ==
  ASSUME IInv, NEW c \in Clients, CopyEnds(c), fd[c] # None
  PROVE  \E f \in File :
           /\ files' = [files EXCEPT ![fd[c]] = f]
           /\ f.x = files[fd[c]].x /\ f.by = files[fd[c]].by
           /\ f.torn = files[fd[c]].torn \cup job[c].torn
           /\ \/ f.whole /\ f.from = {job[c].content}
              \/ /\ ~f.whole /\ f.from = files[fd[c]].from \cup {job[c].content}
                 /\ files[fd[c]].from # {job[c].content} \/ Writers(fd[c]) # {c}
<1> DEFINE p == fd[c]
           clear == files[p].from = {job[c].content} /\ Writers(p) = {c}
<1>0. PICK whole \in {TRUE, clear} :
         files' = [files EXCEPT ![p].whole = whole,
                                ![p].from = {job[c].content} \cup IF whole THEN {} ELSE @,
                                ![p].torn = @ \cup job[c].torn]
  BY DEF CopyEnds
<1> DEFINE f == [files[p] EXCEPT !.whole = whole,
                                 !.from = {job[c].content} \cup IF whole THEN {} ELSE @,
                                 !.torn = @ \cup job[c].torn]
<1>1. /\ p \in Path /\ files[p] \in File /\ job[c].content \in Contents
      /\ job[c].torn \subseteq Clients
  BY JobType DEF CopyEnds, IInv, TypeOK
<1>2. whole \in BOOLEAN /\ (~whole => ~clear)
  BY <1>0
<1>3. /\ f \in File /\ f.x = files[p].x /\ f.by = files[p].by
      /\ f.torn = files[p].torn \cup job[c].torn /\ f.whole = whole
      /\ f.from = {job[c].content} \cup IF whole THEN {} ELSE files[p].from
  BY <1>1, <1>2 DEF File
<1>4. files' = [files EXCEPT ![p] = f]
  BY <1>0, <1>1
<1> HIDE DEF f
<1> QED
  BY <1>2, <1>3, <1>4

\* Every step keeps the invariant: one step per action.
LEMMA IInvNext == IInv /\ [Next]_vars => IInv'
<1> SUFFICES ASSUME IInv, [Next]_vars PROVE IInv'
  OBVIOUS
<1>0. {"embedded", "exe", "junk", "bad", "torn"} \subseteq Contents
  BY DEF Contents
<1>1. ASSUME NEW c \in Clients, Download(c) PROVE IInv'
  BY <1>1, LatestTag, TagsAreVersions, AtType, BeginKeeps DEF Download, IInv, Contents
<1>2. ASSUME NEW c \in Clients, Resolve(c) PROVE IInv'
  BY <1>0, <1>1, <1>2, TagsAreVersions, AtType, BeginKeeps DEF Resolve, Bin
<1>3. ASSUME NEW c \in Clients, NEW v \in Uploads, Upload(c, v) PROVE IInv'
  BY <1>0, <1>3, TagsAreVersions, AtType, BeginKeeps DEF Upload
<1>4. ASSUME NEW c \in Clients, UploadResource(c) \/ EnsureResource(c) PROVE IInv'
  BY <1>0, <1>4, AtType, BeginKeeps DEF UploadResource, EnsureResource, Dirs
<1> USE NoneIsNothing, JobType DEF IInv, TypeOK, InPlace, Goto, Done
<1>5. ASSUME NEW c \in Clients, CreateFails(c) PROVE IInv'
  <2>1. TypeOK'
    BY <1>5 DEF CreateFails
  <2>2. InPlace'
    BY <1>5 DEF CreateFails
  <2> QED
    BY <2>1, <2>2
<1>6. ASSUME NEW c \in Clients, Create(c) PROVE IInv'
  <2> DEFINE p == Tmp(job[c].path)
             f == [header |-> FALSE, whole |-> FALSE, x |-> files[p] # None /\ files[p].x,
                   from |-> {job[d].content : d \in Writers(p)}, by |-> {c} \cup Users(p),
                   torn |-> UNION {job[d].torn : d \in Writers(p)}]
  <2>1. job[c].path \in Path /\ p \in Path /\ p.tmp
    BY <1>6, PathsType DEF Create
  <2>2. \A d \in Writers(p) : job[d].content \in Contents /\ job[d].torn \subseteq Clients
    BY <2>1 DEF Writers
  <2>3. (files[p] # None /\ files[p].x) \in BOOLEAN
    OBVIOUS
  <2>4. f \in File /\ ~f.whole
    <3>1. {job[d].content : d \in Writers(p)} \subseteq Contents
      BY <2>2
    <3>2. {c} \cup Users(p) \subseteq Clients
      BY DEF Users
    <3>3. UNION {job[d].torn : d \in Writers(p)} \subseteq Clients
      BY <2>2
    <3> QED
      BY <2>3, <3>1, <3>2, <3>3 DEF File
  <2>5. files' = [files EXCEPT ![p] = f] /\ fd' = [fd EXCEPT ![c] = p] /\ UNCHANGED job
        /\ pc' = [pc EXCEPT ![c] = "open"] /\ pc[c] = "create"
        /\ UNCHANGED <<latest, calls, crashes>>
    BY <1>6 DEF Create
  <2> HIDE DEF p, f
  <2>6. \A q \in Path : files'[q] = IF q = p THEN f ELSE files[q]
    BY <2>1, <2>5
  <2>7. TypeOK'
    BY <2>1, <2>4, <2>5, <2>6 DEF TypeOK
  <2>8. InPlace'
    BY <2>1, <2>4, <2>5, <2>6
  <2> QED
    BY <2>7, <2>8
<1>7. ASSUME NEW c \in Clients, CopyBegins(c) PROVE IInv'
  <2>1. CASE fd[c] = None
    BY <1>7, <2>1 DEF CopyBegins
  <2>2. CASE fd[c] # None
    <3>1. fd[c] \in Path /\ files[fd[c]] \in File
      BY <1>7, <2>2 DEF CopyBegins
    <3>2. PICK f \in File : files' = [files EXCEPT ![fd[c]] = f] /\ ~f.whole
      BY <1>7, <2>2, BeginsWriting
    <3>3. pc' = [pc EXCEPT ![c] = "copy"] /\ pc[c] = "open"
          /\ UNCHANGED <<latest, calls, crashes, job, fd>>
      BY <1>7 DEF CopyBegins
    <3> QED
      BY <3>1, <3>2, <3>3
  <2> QED
    BY <2>1, <2>2
<1>8. ASSUME NEW c \in Clients, CopyEnds(c) PROVE IInv'
  <2>1. CASE fd[c] = None
    BY <1>8, <2>1 DEF CopyEnds
  <2>2. CASE fd[c] # None
    <3>1. fd[c] \in Path /\ files[fd[c]] \in File
      BY <1>8, <2>2 DEF CopyEnds
    <3>2. PICK f \in File : files' = [files EXCEPT ![fd[c]] = f] /\ f.from # {}
      BY <1>8, <2>2, EndsWriting
    <3>3. pc' = [pc EXCEPT ![c] = "rename"] /\ pc[c] = "copy" /\ fd' = [fd EXCEPT ![c] = None]
          /\ UNCHANGED <<latest, calls, crashes, job>>
      BY <1>8 DEF CopyEnds
    <3> QED
      BY <3>1, <3>2, <3>3
  <2> QED
    BY <2>1, <2>2
<1>9. ASSUME NEW c \in Clients, CopyFails(c) PROVE IInv'
  <2> DEFINE p == Tmp(job[c].path)
             marked == IF fd[c] = None THEN files
                       ELSE [files EXCEPT ![fd[c]].from = @ \cup {"bad"}]
  <2>1. p \in Path /\ p.tmp
    BY <1>9, PathsType DEF CopyFails
  <2>2. /\ marked \in [Path -> {None} \cup File]
        /\ \A q \in Path : (marked[q] = None) <=> (files[q] = None)
        /\ \A q \in Path : marked[q] # None /\ marked[q].whole => marked[q].from # {}
    <3>1. CASE fd[c] = None
      BY <3>1
    <3>2. CASE fd[c] # None
      <4>1. fd[c] \in Path /\ files[fd[c]] \in File
        BY <3>2
      <4>2. [files[fd[c]] EXCEPT !.from = @ \cup {"bad"}] \in File
        BY <1>0, <4>1 DEF File
      <4>3. marked = [files EXCEPT ![fd[c]] = [files[fd[c]] EXCEPT !.from = @ \cup {"bad"}]]
        BY <3>2
      <4> QED
        BY <4>1, <4>2, <4>3 DEF File
    <3> QED
      BY <3>1, <3>2
  <2>3. /\ files' = [marked EXCEPT ![p] = None] /\ pc' = [pc EXCEPT ![c] = "idle"]
        /\ job' = [job EXCEPT ![c] = NoJob] /\ UNCHANGED <<latest, calls, crashes>>
        /\ fd' = [d \in Clients |-> IF d = c \/ fd[d] = p THEN None ELSE fd[d]]
    BY <1>9 DEF CopyFails
  <2> HIDE DEF p, marked
  <2>4. \A q \in Path : files'[q] = IF q = p THEN None ELSE marked[q]
    BY <2>1, <2>2, <2>3
  <2>5. TypeOK'
    <3>1. files' \in [Path -> {None} \cup File] /\ fd' \in [Clients -> {None} \cup Path]
      BY <2>1, <2>2, <2>3
    <3>2. \A d \in Clients : fd'[d] # None => files'[fd'[d]] # None
      BY <2>1, <2>2, <2>3, <2>4
    <3> QED
      BY <2>3, <3>1, <3>2
  <2>6. InPlace'
    <3>1. \A q \in Path : files'[q] # None /\ files'[q].whole => files'[q].from # {}
      BY <2>2, <2>4
    <3>2. \A d \in Clients : pc[d] \in {"extract", "chmod"} => files'[job[d].path] # None
      BY <2>1, <2>2, <2>4
    <3> QED
      BY <2>3, <3>1, <3>2
  <2> QED
    BY <2>5, <2>6
<1>10. ASSUME NEW c \in Clients, Rename(c) PROVE IInv'
  <2> DEFINE q == job[c].path
             p == Tmp(q)
  <2>1. p \in Path /\ p.tmp /\ q \in Path /\ ~q.tmp /\ files[p] # None
        /\ q.name \in {"bin", "archive", "plain", "resource"}
    BY <1>10, PathsType DEF Rename, Path
  <2>2. /\ files' = [files EXCEPT ![q] = files[p], ![p] = None]
        /\ fd' = [d \in Clients |-> IF fd[d] = p THEN q ELSE IF fd[d] = q THEN None ELSE fd[d]]
        /\ pc' = [pc EXCEPT ![c] = Next1(q.name)] /\ pc[c] = "rename"
        /\ job' = IF q.name = "resource" THEN [job EXCEPT ![c] = NoJob] ELSE job
        /\ UNCHANGED <<latest, calls, crashes>>
    BY <1>10 DEF Rename, Moved
  <2>3. /\ q.name = "archive" => Next1(q.name) = "extract"
        /\ q.name = "plain" => Next1(q.name) = "install"
        /\ q.name = "bin" => Next1(q.name) = "chmod"
        /\ q.name = "resource" => Next1(q.name) = "idle"
    BY DEF Next1
  <2> DEFINE next == Next1(q.name)
  <2> HIDE DEF p, next
  <2>4. TypeOK'
    <3>1. next \in {"extract", "install", "chmod", "idle"}
      BY <2>1, <2>3 DEF next
    <3>2. next = "idle" <=> q.name = "resource"
      BY <2>1, <2>3 DEF next
    <3>3. files' \in [Path -> {None} \cup File] /\ fd' \in [Clients -> {None} \cup Path]
      BY <2>1, <2>2
    <3>4. \A d \in Clients : fd'[d] # None => files'[fd'[d]] # None
      BY <2>1, <2>2
    <3>5. /\ job' \in [Clients -> {NoJob} \cup Job]
          /\ \A d \in Clients : pc'[d] # "idle" => job'[d] \in Job
      BY <2>2, <3>1, <3>2 DEF next
    <3> QED
      BY <2>2, <3>1, <3>3, <3>4, <3>5 DEF next
  <2>5. InPlace'
    BY <2>1, <2>2, <2>3 DEF next
  <2> QED
    BY <2>4, <2>5
<1>11. ASSUME NEW c \in Clients, RenameFails(c) PROVE IInv'
  <2>1. TypeOK'
    BY <1>11 DEF RenameFails
  <2>2. InPlace'
    BY <1>11 DEF RenameFails
  <2> QED
    BY <2>1, <2>2
<1>12. ASSUME NEW c \in Clients, Extract(c) PROVE IInv'
  <2> DEFINE archive == files[job[c].path]
  <2>1. job[c].path \in Path /\ archive \in File
    BY <1>12 DEF Extract
  <2>2. PICK content \in Unpacked(archive, Writers(job[c].path)) :
           job' = [job EXCEPT ![c] =
                     [path |-> Bin(job[c].path.dir), content |-> content,
                      torn |-> IF content = "torn" THEN archive.by \cup archive.torn ELSE {}]]
    BY <1>12 DEF Extract
  <2> DEFINE next == [path |-> Bin(job[c].path.dir), content |-> content,
                      torn |-> IF content = "torn" THEN archive.by \cup archive.torn ELSE {}]
  <2>3. content \in Contents
    BY <1>0, <2>1 DEF File, Unpacked
  <2>4. next \in Job /\ ~next.path.tmp
    BY <2>1, <2>3, PathsType DEF Job, File
  <2>5. pc' = [pc EXCEPT ![c] = "create"] /\ job' = [job EXCEPT ![c] = next] /\ pc[c] = "extract"
        /\ UNCHANGED <<files, latest, calls, crashes, fd>>
    BY <1>12, <2>2 DEF Extract
  <2> HIDE DEF next
  <2> QED
    BY <2>4, <2>5
<1>13. ASSUME NEW c \in Clients, Install(c) PROVE IInv'
  <2> DEFINE p == job[c].path
             q == Bin(p.dir)
             next == [job[c] EXCEPT !.path = q]
  <2>1. p \in Path /\ ~p.tmp /\ p.name = "plain" /\ files[p] # None
        /\ job[c] \in Job
    BY <1>13 DEF Install
  <2>2. q \in Path /\ ~q.tmp /\ q.name = "bin"
    BY <2>1, PathsType DEF Bin, At
  <2>3. next \in Job /\ next.path = q
    BY <2>1, <2>2 DEF Job
  <2>4. /\ files' = [files EXCEPT ![q] = files[p], ![p] = None]
        /\ fd' = [d \in Clients |-> IF fd[d] = p THEN q ELSE IF fd[d] = q THEN None ELSE fd[d]]
        /\ pc' = [pc EXCEPT ![c] = "chmod"] /\ pc[c] = "install"
        /\ job' = [job EXCEPT ![c] = next]
        /\ UNCHANGED <<latest, calls, crashes>>
    BY <1>13 DEF Install, Moved
  <2> HIDE DEF p, q, next
  <2>5. TypeOK'
    BY <2>1, <2>2, <2>3, <2>4 DEF TypeOK
  <2>6. InPlace'
    BY <2>1, <2>2, <2>3, <2>4 DEF p
  <2> QED
    BY <2>5, <2>6
<1>14. ASSUME NEW c \in Clients, Chmod(c) PROVE IInv'
  <2> DEFINE p == job[c].path
             f == [files[p] EXCEPT !.x = TRUE]
  <2>1. p \in Path /\ files[p] \in File /\ (files[p].whole => files[p].from # {})
    BY <1>14 DEF Chmod
  <2>2. f \in File /\ (f.whole => f.from # {})
    BY <2>1 DEF File
  <2>3. /\ files' = [files EXCEPT ![p] = f] /\ pc' = [pc EXCEPT ![c] = "idle"]
        /\ job' = [job EXCEPT ![c] = NoJob] /\ fd' = [fd EXCEPT ![c] = None]
        /\ UNCHANGED <<latest, calls, crashes>>
    BY <1>14 DEF Chmod
  <2> HIDE DEF p, f
  <2> QED
    BY <2>1, <2>2, <2>3
<1>15. CASE NewRelease
  BY <1>15, SomeRelease DEF NewRelease
<1>16. CASE Crash
  BY <1>16, BoundsAreNat DEF Crash
<1>17. CASE UNCHANGED vars
  BY <1>17 DEF vars
<1> QED
  BY <1>1, <1>2, <1>3, <1>4, <1>5, <1>6, <1>7, <1>8, <1>9, <1>10, <1>11, <1>12, <1>13,
     <1>14, <1>15, <1>16, <1>17 DEF Next, Update

\* The invariant of every behaviour, for the theorems below.
LEMMA IInvCorrect == Spec => []IInv
<1>1. Init => IInv
  BY SomeRelease, BoundsAreNat DEF Init, IInv, TypeOK, InPlace
<1> QED
  BY <1>1, IInvNext, PTL DEF Spec

\* The variables keep their types, whatever is installed, fails and crashes.
THEOREM TypeCorrect == Spec => []TypeOK
<1>1. IInv => TypeOK
  BY DEF IInv
<1> QED
  BY <1>1, IInvCorrect, PTL

-----------------------------------------------------------------------------
(* CachedIsStartable *)

\* Every binary under its final name is executable or about to be made so.
BinariesStartable ==
    \A p \in Path : p.name = "bin" /\ ~p.tmp /\ files[p] # None /\ ~files[p].x =>
      \/ \E c \in Clients : pc[c] = "chmod" /\ job[c].path = p
      \/ crashes > 0

\* A binary gets its name in the step after which its call makes it executable.
LEMMA BinariesNext == IInv /\ BinariesStartable /\ [Next]_vars => BinariesStartable'
<1> SUFFICES ASSUME IInv, BinariesStartable, [Next]_vars PROVE BinariesStartable'
  OBVIOUS
<1> USE JobType DEF IInv, BinariesStartable, Goto, Done
<1>1. ASSUME NEW c \in Clients, NEW path, NEW content, Begin(c, path, content)
      PROVE BinariesStartable'
  BY <1>1 DEF Begin, TypeOK
<1>2. ASSUME NEW c \in Clients,
             Download(c) \/ Resolve(c) \/ UploadResource(c) \/ EnsureResource(c)
      PROVE BinariesStartable'
  BY <1>1, <1>2 DEF Download, Resolve, UploadResource, EnsureResource
<1>3. ASSUME NEW c \in Clients, NEW v \in Uploads, Upload(c, v) PROVE BinariesStartable'
  BY <1>1, <1>3 DEF Upload
<1>4. ASSUME NEW c \in Clients,
             CreateFails(c) \/ RenameFails(c) \/ Extract(c)
      PROVE BinariesStartable'
  BY <1>4 DEF CreateFails, RenameFails, Extract, TypeOK
<1>5. ASSUME NEW c \in Clients, Create(c) PROVE BinariesStartable'
  <2>1. Tmp(job[c].path) \in Path /\ Tmp(job[c].path).tmp
    BY <1>5, PathsType DEF Create
  <2> QED
    BY <1>5, <2>1 DEF Create, TypeOK
<1>6. ASSUME NEW c \in Clients, CopyBegins(c) \/ CopyEnds(c) PROVE BinariesStartable'
  <2>1. \A p \in Path : files[p] # None =>
          files'[p] # None /\ files'[p].x = files[p].x
    <3>1. CASE fd[c] = None
      BY <1>6, <3>1 DEF CopyBegins, CopyEnds
    <3>2. CASE fd[c] # None
      <4>1. fd[c] \in Path /\ files[fd[c]] \in File
        BY <1>6, <3>2 DEF CopyBegins, CopyEnds, TypeOK
      <4>2. PICK f : f # None /\ f.x = files[fd[c]].x /\ files' = [files EXCEPT ![fd[c]] = f]
        BY <1>6, <3>2, BeginsWriting, EndsWriting, NoneIsNothing
      <4> QED
        BY <4>1, <4>2 DEF TypeOK
    <3> QED
      BY <3>1, <3>2
  <2>2. \A p \in Path : files'[p] # None => files[p] # None
    BY <1>6 DEF CopyBegins, CopyEnds, TypeOK
  <2>3. \A d \in Clients : pc[d] = "chmod" => pc'[d] = "chmod"
    BY <1>6 DEF CopyBegins, CopyEnds, TypeOK
  <2>4. UNCHANGED <<job, crashes>>
    BY <1>6 DEF CopyBegins, CopyEnds
  <2> QED
    BY <2>1, <2>2, <2>3, <2>4
<1>7. ASSUME NEW c \in Clients, CopyFails(c) PROVE BinariesStartable'
  <2>1. \A p \in Path : files'[p] # None => files[p] # None /\ files'[p].x = files[p].x
    BY <1>7 DEF CopyFails, TypeOK, File
  <2>2. \A d \in Clients : pc[d] = "chmod" => pc'[d] = "chmod" /\ job'[d] = job[d]
    BY <1>7 DEF CopyFails, TypeOK
  <2>3. UNCHANGED crashes
    BY <1>7 DEF CopyFails
  <2> QED
    BY <2>1, <2>2, <2>3
<1>8. ASSUME NEW c \in Clients, Rename(c) PROVE BinariesStartable'
  <2>1. /\ job[c].path \in Path /\ Tmp(job[c].path) \in Path /\ Tmp(job[c].path).tmp
    BY <1>8, PathsType DEF Rename
  <2>2. \A p \in Path : p # job[c].path /\ ~p.tmp => files'[p] = files[p]
    BY <1>8, <2>1 DEF Rename, Moved, TypeOK
  <2>3. job[c].path.name = "bin" => pc'[c] = "chmod" /\ job'[c] = job[c]
    BY <1>8 DEF Rename, Next1, TypeOK
  <2>4. \A d \in Clients : pc[d] = "chmod" => pc'[d] = "chmod" /\ job'[d] = job[d]
    BY <1>8 DEF Rename, TypeOK
  <2> QED
    BY <1>8, <2>2, <2>3, <2>4 DEF Rename
<1>9. ASSUME NEW c \in Clients, Install(c) PROVE BinariesStartable'
  <2> DEFINE q == Bin(job[c].path.dir)
  <2>1. job[c].path \in Path /\ q \in Path
    BY <1>9, PathsType DEF Install
  <2>2. job[c].path.name = "plain"
    BY <1>9 DEF Install, InPlace
  <2>3. \A p \in Path : p # q /\ p.name = "bin" => files'[p] = files[p]
    BY <1>9, <2>1, <2>2 DEF Install, Moved, TypeOK
  <2>4. pc'[c] = "chmod" /\ job'[c].path = q
    <3>1. job[c] \in Job
      BY <1>9 DEF Install, TypeOK
    <3> QED
      BY <1>9, <3>1 DEF Install, TypeOK, Job
  <2>5. \A d \in Clients : pc[d] = "chmod" => pc'[d] = "chmod" /\ job'[d] = job[d]
    BY <1>9 DEF Install, TypeOK
  <2> HIDE DEF q
  <2> QED
    BY <1>9, <2>3, <2>4, <2>5 DEF Install
<1>10. ASSUME NEW c \in Clients, Chmod(c) PROVE BinariesStartable'
  <2>1. job[c].path \in Path /\ files[job[c].path] \in File
    BY <1>10 DEF Chmod, TypeOK, InPlace
  <2>2. files'[job[c].path].x
    BY <1>10, <2>1 DEF Chmod, TypeOK, File
  <2>3. \A p \in Path : p # job[c].path => files'[p] = files[p]
    BY <1>10, <2>1 DEF Chmod, TypeOK
  <2>4. \A d \in Clients \ {c} : pc'[d] = pc[d] /\ job'[d] = job[d]
    BY <1>10 DEF Chmod, TypeOK
  <2> QED
    BY <1>10, <2>2, <2>3, <2>4 DEF Chmod
<1>11. CASE NewRelease
  BY <1>11 DEF NewRelease
<1>12. CASE Crash
  BY <1>12, BoundsAreNat DEF Crash, TypeOK
<1>13. CASE UNCHANGED vars
  BY <1>13 DEF vars
<1> QED
  BY <1>2, <1>3, <1>4, <1>5, <1>6, <1>7, <1>8, <1>9, <1>10, <1>11, <1>12, <1>13
  DEF Next, Update

\* A binary that the cache offers can be started, or is about to be made executable,
\* unless the server ended in between.
THEOREM CachedAreStartable == Spec => []CachedIsStartable
<1>1. Init => BinariesStartable
  BY DEF Init, BinariesStartable
<1>2. BinariesStartable => CachedIsStartable
  <2> SUFFICES ASSUME BinariesStartable, NEW dir \in Dirs, Executable(dir), ~files[Bin(dir)].x
               PROVE  \/ \E c \in Clients : pc[c] = "chmod" /\ job[c].path = Bin(dir)
                      \/ crashes > 0
    BY DEF CachedIsStartable
  <2>1. Bin(dir) \in Path /\ Bin(dir).name = "bin" /\ ~Bin(dir).tmp
    BY AtType DEF Bin
  <2> QED
    BY <2>1 DEF BinariesStartable, Executable
<1> QED
  BY <1>1, <1>2, BinariesNext, IInvCorrect, PTL DEF Spec

-----------------------------------------------------------------------------
(* InstalledIsWhole *)

\* Who writes what: a temporary file knows all calls that are about to rename it, and a
\* call that is the only one of them has the file open, with nothing else written into it,
\* until it is whole.
Known ==
    /\ \A p \in Path : p.tmp /\ files[p] # None => Users(p) \subseteq files[p].by
    /\ \A c \in Clients : fd[c] # None /\ fd[c].tmp => Tmp(job[c].path) = fd[c]
    /\ \A c \in Clients : fd[c] # None /\ ~fd[c].tmp => Several(files[fd[c]].by)
    /\ \A c \in Clients : fd[c] # None /\ pc[c] = "copy" => files[fd[c]].from # {}
Single ==
    \A c \in Clients :
      /\ pc[c] \in {"open", "copy", "rename"}
      /\ files[Tmp(job[c].path)] # None
      /\ files[Tmp(job[c].path)].by \subseteq {c}
      => IF pc[c] = "rename" THEN files[Tmp(job[c].path)].whole
         ELSE /\ fd[c] = Tmp(job[c].path)
              /\ files[Tmp(job[c].path)].from \subseteq {job[c].content}

\* A file that is not whole has a writer, or several contents, or was cut off; and under
\* its final name, it had several users.
Broken ==
    /\ \A p \in Path : files[p] # None /\ ~files[p].whole =>
         Writers(p) # {} \/ Several(files[p].from) \/ "bad" \in files[p].from \/ crashes > 0
    /\ \A p \in Path : ~p.tmp /\ files[p] # None /\ ~files[p].whole => Several(files[p].by)

WInv == Known /\ Single /\ Broken

\* Whoever writes a file is among those that use it.
LEMMA WritersAreUsers ==
  ASSUME IInv, WInv, NEW p \in Path, p.tmp
  PROVE  Writers(p) \subseteq Users(p)
<1> SUFFICES ASSUME NEW d \in Writers(p) PROVE d \in Users(p)
  OBVIOUS
<1>1. d \in Clients /\ fd[d] = p /\ p # None
  BY NoneIsNothing DEF Writers
<1>2. pc[d] \in {"open", "copy"} /\ Tmp(job[d].path) = p
  BY <1>1 DEF IInv, InPlace, WInv, Known
<1> QED
  BY <1>1, <1>2 DEF Users

\* Calls that have no file open and change none keep it.
LEMMA QuietKeeps ==
  ASSUME IInv, WInv, NEW c \in Clients, UNCHANGED <<files, crashes>>, fd[c] = None,
         fd' = [fd EXCEPT ![c] = None], NEW point, pc' = [pc EXCEPT ![c] = point],
         point \notin {"open", "copy", "rename"}, NEW j, job' = [job EXCEPT ![c] = j]
  PROVE  WInv'
<1>1. fd' = fd /\ \A d \in Clients \ {c} : job'[d] = job[d] /\ pc'[d] = pc[d]
  BY DEF IInv, TypeOK
<1>2. pc'[c] = point
  BY DEF IInv, TypeOK
<1>3. \A p : Users(p)' \subseteq Users(p) /\ Writers(p)' = Writers(p)
  BY <1>1, <1>2 DEF Users, Writers
<1>4. Known'
  BY <1>1, <1>2, <1>3 DEF Known, WInv
<1>5. Single'
  BY <1>1, <1>2 DEF Single, WInv
<1>6. Broken'
  BY <1>3 DEF Broken, WInv
<1> QED
  BY <1>4, <1>5, <1>6 DEF WInv

\* A file under a temporary name is taken by a further call.
LEMMA CreateKeeps ==
  ASSUME IInv, WInv, NEW c \in Clients, Create(c)
  PROVE  WInv'
<1>1. PICK p \in Path : p = Tmp(job[c].path) /\ p.tmp
  BY JobType, PathsType DEF Create, IInv
<1>2. PICK f : /\ files' = [files EXCEPT ![p] = f] /\ f.by = {c} \cup Users(p)
               /\ f.from = {job[d].content : d \in Writers(p)} /\ ~f.whole
  <2> DEFINE f == [header |-> FALSE, whole |-> FALSE, x |-> files[p] # None /\ files[p].x,
                   from |-> {job[d].content : d \in Writers(p)}, by |-> {c} \cup Users(p),
                   torn |-> UNION {job[d].torn : d \in Writers(p)}]
  <2>1. files' = [files EXCEPT ![p] = f]
    BY <1>1 DEF Create
  <2>2. /\ f.by = {c} \cup Users(p) /\ ~f.whole
        /\ f.from = {job[d].content : d \in Writers(p)}
    OBVIOUS
  <2> HIDE DEF f
  <2> QED
    BY <2>1, <2>2
<1>3. /\ fd' = [fd EXCEPT ![c] = p] /\ pc' = [pc EXCEPT ![c] = "open"] /\ pc[c] = "create"
      /\ UNCHANGED <<job, crashes>>
  BY <1>1 DEF Create, Goto
<1>4. \A q \in Path : files'[q] = IF q = p THEN f ELSE files[q]
  BY <1>1, <1>2 DEF IInv, TypeOK
<1>5. \A d \in Clients : fd'[d] = (IF d = c THEN p ELSE fd[d])
                        /\ pc'[d] = (IF d = c THEN "open" ELSE pc[d])
  BY <1>1, <1>3 DEF IInv, TypeOK
<1>6. fd[c] = None /\ p # None
  BY <1>1, <1>3, NoneIsNothing DEF IInv, InPlace
<1>7. \A q : Users(q)' \subseteq Users(q) \cup {c} /\ (q # p => Users(q)' \subseteq Users(q))
  BY <1>1, <1>3, <1>5 DEF Users
<1>8. Writers(p) \subseteq Users(p)
  BY <1>1, WritersAreUsers
<1>9. c \in Writers(p)' /\ \A q \in Path : Writers(q) \subseteq Writers(q)'
  BY <1>5, <1>6, NoneIsNothing DEF Writers
<1>10. Known'
  <2>1. \A q \in Path : q.tmp /\ files'[q] # None => Users(q)' \subseteq files'[q].by
    BY <1>2, <1>4, <1>7 DEF WInv, Known
  <2>2. \A d \in Clients : fd'[d] # None /\ fd'[d].tmp => Tmp(job'[d].path) = fd'[d]
    BY <1>1, <1>3, <1>5 DEF WInv, Known
  <2>3. \A d \in Clients : fd'[d] # None /\ pc'[d] = "copy" =>
                            files'[fd'[d]].from # {}
    <3>1. \A d \in Clients : fd[d] # None => fd[d] \in Path
      BY DEF IInv, TypeOK
    <3>2. \A d \in Writers(p) : f.from # {}
      BY <1>2
    <3> QED
      BY <1>3, <1>4, <1>5, <3>1, <3>2 DEF WInv, Known, Writers
  <2>4. \A d \in Clients : fd'[d] # None /\ ~fd'[d].tmp => Several(files'[fd'[d]].by)
    <3>1. \A d \in Clients : fd[d] # None => fd[d] \in Path
      BY DEF IInv, TypeOK
    <3> QED
      BY <1>1, <1>4, <1>5, <3>1 DEF WInv, Known
  <2> QED
    BY <2>1, <2>2, <2>3, <2>4 DEF Known, Several
<1>11. Single'
  <2> SUFFICES ASSUME NEW d \in Clients, pc'[d] \in {"open", "copy", "rename"},
                      files'[Tmp(job[d].path)] # None,
                      files'[Tmp(job[d].path)].by \subseteq {d}
               PROVE  IF pc'[d] = "rename" THEN files'[Tmp(job[d].path)].whole
                      ELSE /\ fd'[d] = Tmp(job[d].path)
                           /\ files'[Tmp(job[d].path)].from \subseteq {job[d].content}
    BY <1>3 DEF Single
  <2>1. CASE d = c
    <3>1. Users(p) \subseteq {c} /\ c \notin Users(p)
      BY <1>1, <1>2, <1>3, <1>4, <2>1 DEF Users
    <3>2. Writers(p) = {}
      BY <1>8, <3>1
    <3> QED
      BY <1>1, <1>2, <1>4, <1>5, <2>1, <3>2
  <2>2. CASE d # c
    <3>1. Tmp(job[d].path) # p
      BY <1>1, <1>2, <1>4, <2>2
    <3>2. Tmp(job[d].path) \in Path
      BY <1>5, <2>2, JobType, PathsType DEF IInv
    <3> QED
      BY <1>4, <1>5, <2>2, <3>1, <3>2 DEF WInv, Single
  <2> QED
    BY <2>1, <2>2
<1>12. Broken'
  <2>1. \A q \in Path : files'[q] # None /\ ~files'[q].whole =>
          \/ Writers(q)' # {} \/ Several(files'[q].from)
          \/ "bad" \in files'[q].from \/ crashes' > 0
    BY <1>3, <1>4, <1>9 DEF WInv, Broken
  <2>2. \A q \in Path : ~q.tmp /\ files'[q] # None /\ ~files'[q].whole => Several(files'[q].by)
    BY <1>1, <1>4 DEF WInv, Broken
  <2> QED
    BY <2>1, <2>2 DEF Broken, Several
<1> QED
  BY <1>10, <1>11, <1>12 DEF WInv

\* The two steps of a copy, where the file still is: the writer of a file with one user
\* is that user, so it ends up whole.
LEMMA CopyKeeps ==
  ASSUME IInv, WInv, NEW c \in Clients, fd[c] # None, CopyBegins(c) \/ CopyEnds(c)
  PROVE  WInv'
<1>1. PICK p \in Path : p = fd[c] /\ files[p] # None
  BY DEF IInv, TypeOK
<1>2. PICK f \in File :
         /\ files' = [files EXCEPT ![p] = f]
         /\ f.by = files[p].by
         /\ job[c].content \in f.from
         /\ f.from \subseteq files[p].from \cup {job[c].content}
         /\ CopyBegins(c) => files[p].from \subseteq f.from
         /\ CopyEnds(c) =>
              \/ f.whole
              \/ /\ files[p].from \subseteq f.from
                 /\ files[p].from # {job[c].content} \/ Writers(p) # {c}
  BY <1>1, BeginsWriting, EndsWriting
<1>3. /\ CopyBegins(c) => pc[c] = "open" /\ pc' = [pc EXCEPT ![c] = "copy"] /\ fd' = fd
      /\ CopyEnds(c) => pc[c] = "copy" /\ pc' = [pc EXCEPT ![c] = "rename"]
                        /\ fd' = [fd EXCEPT ![c] = None]
      /\ UNCHANGED <<job, crashes>>
  BY DEF CopyBegins, CopyEnds, Goto
<1>4. \A q \in Path : files'[q] = IF q = p THEN f ELSE files[q]
  <2>1. files \in [Path -> {None} \cup File] /\ files' = [files EXCEPT ![p] = f]
    BY <1>2 DEF IInv, TypeOK
  <2> QED
    BY <2>1
<1>5. f # None
  BY NoneIsNothing
<1>6. \A d \in Clients \ {c} : fd'[d] = fd[d] /\ pc'[d] = pc[d]
  BY <1>3 DEF IInv, TypeOK
<1>7. \A q : Users(q)' = Users(q)
  BY <1>3, <1>6 DEF Users, IInv, TypeOK
<1>8. /\ CopyBegins(c) => fd'[c] = p /\ pc'[c] = "copy"
      /\ CopyEnds(c) => fd'[c] = None /\ pc'[c] = "rename"
  BY <1>1, <1>3 DEF IInv, TypeOK
<1>9. Known'
  <2>1. \A q \in Path : q.tmp /\ files'[q] # None => Users(q)' \subseteq files'[q].by
    <3>1. f.by = files[p].by
      BY <1>2
    <3> QED
      BY <1>1, <1>4, <1>7, <3>1 DEF WInv, Known
  <2>2. \A d \in Clients : fd'[d] # None /\ fd'[d].tmp => Tmp(job'[d].path) = fd'[d]
    BY <1>1, <1>3, <1>6, <1>8 DEF WInv, Known
  <2>3. ASSUME NEW d \in Clients, fd'[d] # None, pc'[d] = "copy"
        PROVE  files'[fd'[d]].from # {}
    <3>1. fd'[d] \in Path
      BY <1>3, <2>3 DEF IInv, TypeOK
    <3>2. f.from # {}
      BY <1>2
    <3>3. CASE fd'[d] = p
      BY <1>4, <3>1, <3>2, <3>3
    <3>4. CASE fd'[d] # p
      <4>1. d # c /\ fd[d] # None /\ pc[d] = "copy" /\ fd'[d] = fd[d]
        BY <1>6, <1>8, <2>3, <3>4
      <4> QED
        BY <1>4, <3>1, <3>4, <4>1 DEF WInv, Known
    <3> QED
      BY <3>3, <3>4
  <2>4. \A q \in Path : files[q] # None => files'[q].by = files[q].by
    BY <1>2, <1>4
  <2>5. \A d \in Clients : fd'[d] # None => fd'[d] = fd[d] /\ fd[d] \in Path /\ files[fd[d]] # None
    BY <1>1, <1>6, <1>8 DEF IInv, TypeOK
  <2>6. \A d \in Clients : fd'[d] # None /\ ~fd'[d].tmp => Several(files'[fd'[d]].by)
    BY <2>4, <2>5 DEF WInv, Known
  <2> QED
    BY <2>1, <2>2, <2>3, <2>6 DEF Known, Several
<1>10. Single'
  <2> SUFFICES ASSUME NEW d \in Clients, pc'[d] \in {"open", "copy", "rename"},
                      files'[Tmp(job[d].path)] # None,
                      files'[Tmp(job[d].path)].by \subseteq {d}
               PROVE  IF pc'[d] = "rename" THEN files'[Tmp(job[d].path)].whole
                      ELSE /\ fd'[d] = Tmp(job[d].path)
                           /\ files'[Tmp(job[d].path)].from \subseteq {job[d].content}
    BY <1>3 DEF Single
  <2>1. PICK q \in Path : q = Tmp(job[d].path) /\ q.tmp
    <3>1. pc[d] # "idle"
      BY <1>3, <1>6
    <3> QED
      BY <3>1, JobType, PathsType DEF IInv
  <2>2. /\ files[q] # None /\ files[q].by \subseteq {d} /\ pc[d] \in {"open", "copy", "rename"}
    BY <1>1, <1>2, <1>3, <1>4, <1>6, <2>1
  <2>3. IF pc[d] = "rename" THEN files[q].whole
        ELSE fd[d] = q /\ files[q].from \subseteq {job[d].content}
    BY <2>1, <2>2 DEF WInv, Single
  <2>4. Users(q) \subseteq {d}
    BY <2>1, <2>2 DEF WInv, Known
  <2>5. CASE d = c
    <3>1. p = q /\ pc[c] # "rename" /\ files[p].from \subseteq {job[c].content}
      BY <1>1, <1>3, <2>3, <2>5
    <3>2. Writers(p) = {c}
      BY <1>1, <2>1, <2>4, <2>5, <3>1, WritersAreUsers DEF Writers
    <3>3. CopyEnds(c) => f.whole
      <4>1. CopyEnds(c) => files[p].from # {}
        BY <1>1, <1>3 DEF WInv, Known
      <4> QED
        BY <1>2, <3>1, <3>2, <4>1
    <3>4. f.from \subseteq {job[c].content}
      BY <1>2, <3>1
    <3> QED
      BY <1>4, <1>8, <2>1, <2>5, <3>1, <3>3, <3>4
  <2>6. CASE d # c
    <3>1. q # p
      BY <1>1, <1>3, <2>1, <2>4, <2>6 DEF Users, WInv, Known
    <3> QED
      BY <1>4, <1>6, <2>1, <2>3, <2>6, <3>1
  <2> QED
    BY <2>5, <2>6
<1>11. Broken'
  <2>1. ASSUME NEW q \in Path, files'[q] # None, ~files'[q].whole
        PROVE  \/ Writers(q)' # {} \/ Several(files'[q].from)
               \/ "bad" \in files'[q].from \/ crashes' > 0
    <3>1. CASE q # p
      <4>1. Writers(q)' = Writers(q)
        BY <1>1, <1>6, <1>8, <3>1, NoneIsNothing DEF Writers
      <4> QED
        BY <1>3, <1>4, <2>1, <3>1, <4>1 DEF WInv, Broken
    <3>2. CASE q = p /\ CopyBegins(c)
      BY <1>8, <3>2 DEF Writers
    <3>3. CASE q = p /\ CopyEnds(c)
      <4>1. /\ files[p].from # {job[c].content} \/ Writers(p) # {c}
            /\ job[c].content \in f.from /\ files[p].from \subseteq f.from /\ files'[q].from = f.from
        BY <1>2, <1>4, <2>1, <3>3
      <4>2. CASE Writers(p) # {c}
        <5>1. PICK d \in Clients \ {c} : fd[d] = p
          BY <1>1, <4>2 DEF Writers
        <5> QED
          BY <1>6, <3>3, <5>1 DEF Writers
      <4>3. CASE files[p].from # {job[c].content}
        <5>1. files[p].from # {}
          BY <1>1, <1>3, <3>3 DEF WInv, Known
        <5> QED
          BY <4>1, <4>3, <5>1 DEF Several
      <4> QED
        BY <4>1, <4>2, <4>3
    <3> QED
      BY <3>1, <3>2, <3>3
  <2>2. ASSUME NEW q \in Path, ~q.tmp, files'[q] # None, ~files'[q].whole
        PROVE  Several(files'[q].by)
    <3>1. CASE q # p
      BY <1>4, <2>2, <3>1 DEF WInv, Broken
    <3>2. CASE q = p
      BY <1>1, <1>2, <1>4, <2>2, <3>2 DEF WInv, Known
    <3> QED
      BY <3>1, <3>2
  <2> QED
    BY <2>1, <2>2 DEF Broken, Several
<1> QED
  BY <1>9, <1>10, <1>11 DEF WInv

\* A copy that fails takes the temporary name away from all who use it, and spoils the
\* file it wrote, wherever that is by now.
LEMMA CopyFailsKeeps ==
  ASSUME IInv, WInv, NEW c \in Clients, CopyFails(c)
  PROVE  WInv'
<1>1. PICK p \in Path : p = Tmp(job[c].path) /\ p.tmp
  BY JobType, PathsType DEF CopyFails, IInv
<1>2. /\ fd' = [d \in Clients |-> IF d = c \/ fd[d] = p THEN None ELSE fd[d]]
      /\ pc' = [pc EXCEPT ![c] = "idle"] /\ job' = [job EXCEPT ![c] = NoJob]
      /\ UNCHANGED crashes
  BY <1>1 DEF CopyFails
<1>3. \A d \in Clients \ {c} : pc'[d] = pc[d] /\ job'[d] = job[d]
  BY <1>2 DEF IInv, TypeOK
<1>4. /\ files'[p] = None
      /\ \A q \in Path \ {p} :
           /\ (files'[q] = None) <=> (files[q] = None)
           /\ files[q] # None => /\ files'[q].whole = files[q].whole
                                 /\ files'[q].by = files[q].by
                                 /\ files'[q].from = files[q].from
                                      \cup (IF q = fd[c] THEN {"bad"} ELSE {})
  <2>1. CASE fd[c] = None
    <3>1. files' = [files EXCEPT ![p] = None]
      BY <1>1, <2>1 DEF CopyFails
    <3> QED
      BY <2>1, <3>1, NoneIsNothing DEF IInv, TypeOK
  <2>2. CASE fd[c] # None
    <3> DEFINE f == [files[fd[c]] EXCEPT !.from = @ \cup {"bad"}]
    <3>1. fd[c] \in Path /\ files[fd[c]] \in File
      BY <2>2 DEF IInv, TypeOK
    <3>2. /\ f # None /\ f.whole = files[fd[c]].whole /\ f.by = files[fd[c]].by
          /\ f.from = files[fd[c]].from \cup {"bad"}
      <4>1. f \in [header : BOOLEAN, whole : BOOLEAN, x : BOOLEAN,
                   from : SUBSET (Contents \cup {"bad"}), by : SUBSET Clients,
                   torn : SUBSET Clients]
        BY <3>1 DEF File
      <4>2. "bad" \in Contents
        BY DEF Contents
      <4> QED
        BY <3>1, <4>1, <4>2, NoneIsNothing DEF File
    <3>3. files' = [[files EXCEPT ![fd[c]] = f] EXCEPT ![p] = None]
      BY <1>1, <2>2 DEF CopyFails
    <3> HIDE DEF f
    <3>4. files \in [Path -> {None} \cup File]
      BY DEF IInv, TypeOK
    <3>5. files'[p] = None /\ \A q \in Path \ {p} : files'[q] = IF q = fd[c] THEN f ELSE files[q]
      BY <3>1, <3>3, <3>4
    <3> QED
      BY <3>1, <3>2, <3>5, NoneIsNothing
  <2> QED
    BY <2>1, <2>2
<1>5. \A q : Users(q)' \subseteq Users(q) \ {c}
  BY <1>2, <1>3 DEF Users, IInv, TypeOK
<1>6. \A d \in Clients : fd'[d] # None =>
        d # c /\ fd'[d] = fd[d] /\ fd[d] \in Path \ {p} /\ files[fd[d]] # None
  BY <1>2 DEF IInv, TypeOK
<1>7. Known'
  <2>1. \A q \in Path : q.tmp /\ files'[q] # None => Users(q)' \subseteq files'[q].by
    BY <1>4, <1>5 DEF WInv, Known
  <2>2. \A d \in Clients : fd'[d] # None /\ fd'[d].tmp => Tmp(job'[d].path) = fd'[d]
    BY <1>3, <1>6 DEF WInv, Known
  <2>3. \A d \in Clients : fd'[d] # None /\ pc'[d] = "copy" => files'[fd'[d]].from # {}
    BY <1>3, <1>4, <1>6 DEF WInv, Known
  <2>4. \A d \in Clients : fd'[d] # None /\ ~fd'[d].tmp => Several(files'[fd'[d]].by)
    BY <1>4, <1>6 DEF WInv, Known
  <2> QED
    BY <2>1, <2>2, <2>3, <2>4 DEF Known, Several
<1>8. Single'
  <2> SUFFICES ASSUME NEW d \in Clients, pc'[d] \in {"open", "copy", "rename"},
                      files'[Tmp(job'[d].path)] # None,
                      files'[Tmp(job'[d].path)].by \subseteq {d}
               PROVE  IF pc'[d] = "rename" THEN files'[Tmp(job'[d].path)].whole
                      ELSE /\ fd'[d] = Tmp(job'[d].path)
                           /\ files'[Tmp(job'[d].path)].from \subseteq {job'[d].content}
    BY DEF Single
  <2>1. d # c /\ pc'[d] = pc[d] /\ job'[d] = job[d]
    BY <1>2, <1>3 DEF IInv, TypeOK
  <2>2. PICK q \in Path : q = Tmp(job[d].path) /\ q.tmp
    BY <2>1, JobType, PathsType DEF IInv
  <2>3. q # p /\ files[q] # None /\ files[q].by \subseteq {d}
    BY <1>4, <2>1, <2>2
  <2>4. Writers(q) \subseteq {d}
    BY <2>2, <2>3, WritersAreUsers DEF WInv, Known
  <2>5. fd[c] # q
    BY <2>1, <2>4 DEF Writers
  <2> QED
    BY <1>2, <1>4, <2>1, <2>2, <2>3, <2>5 DEF WInv, Single
<1>9. Broken'
  <2>1. ASSUME NEW q \in Path, files'[q] # None, ~files'[q].whole
        PROVE  \/ Writers(q)' # {} \/ Several(files'[q].from)
               \/ "bad" \in files'[q].from \/ crashes' > 0
    <3>1. q # p /\ files[q] # None /\ ~files[q].whole
      BY <1>4, <2>1
    <3>2. CASE q = fd[c]
      BY <1>4, <3>1, <3>2
    <3>3. CASE q # fd[c]
      <4>1. Writers(q)' = Writers(q)
        BY <1>2, <3>1, <3>3, NoneIsNothing DEF Writers
      <4> QED
        BY <1>2, <1>4, <3>1, <3>3, <4>1 DEF WInv, Broken
    <3> QED
      BY <3>2, <3>3
  <2>2. \A q \in Path : ~q.tmp /\ files'[q] # None /\ ~files'[q].whole => Several(files'[q].by)
    BY <1>1, <1>4 DEF WInv, Broken
  <2> QED
    BY <2>1, <2>2 DEF Broken, Several
<1> QED
  BY <1>7, <1>8, <1>9 DEF WInv

\* Renaming p to q takes the writers along.  A temporary file is renamed by one of its
\* users; if another still writes it, it has two.
LEMMA MovedKeeps ==
  ASSUME IInv, WInv, NEW c \in Clients, fd[c] = None, NEW p \in Path, NEW q \in Path,
         p # q, ~q.tmp, files[p] # None, Moved(p, q), UNCHANGED crashes,
         p.tmp => pc[c] = "rename" /\ Tmp(job[c].path) = p,
         NEW point, point \notin {"open", "copy", "rename"}, pc' = [pc EXCEPT ![c] = point],
         NEW j, job' = [job EXCEPT ![c] = j]
  PROVE  WInv'
<1>1. /\ files' = [files EXCEPT ![q] = files[p], ![p] = None]
      /\ fd' = [d \in Clients |-> IF fd[d] = p THEN q ELSE IF fd[d] = q THEN None ELSE fd[d]]
  BY DEF Moved
<1>2. files'[p] = None /\ files'[q] = files[p] /\ \A r \in Path \ {p, q} : files'[r] = files[r]
  BY <1>1 DEF IInv, TypeOK
<1>3. pc'[c] = point /\ \A d \in Clients \ {c} : pc'[d] = pc[d] /\ job'[d] = job[d]
  BY DEF IInv, TypeOK
<1>4. \A d \in Clients :
        /\ fd[d] = p => fd'[d] = q
        /\ fd'[d] = q => fd[d] = p
        /\ fd'[d] # None /\ fd'[d] # q =>
             d # c /\ fd'[d] = fd[d] /\ fd[d] \in Path \ {p, q}
  BY <1>1, NoneIsNothing DEF IInv, TypeOK
<1>5. \A r : Users(r)' \subseteq Users(r) \ {c}
  BY <1>3 DEF Users
<1>6. \A r \in Path \ {p, q} : Writers(r)' = Writers(r)
  BY <1>1, NoneIsNothing DEF Writers
<1>7. Writers(q)' = Writers(p)
  BY <1>4 DEF Writers
<1>8. p.tmp => Users(p) \subseteq files[p].by /\ c \in Users(p) /\ c \notin Writers(p)
  BY NoneIsNothing DEF WInv, Known, Users, Writers
<1>9. Known'
  <2>1. \A r \in Path : r.tmp /\ files'[r] # None => Users(r)' \subseteq files'[r].by
    BY <1>2, <1>5 DEF WInv, Known
  <2>2. \A d \in Clients : fd'[d] # None /\ fd'[d].tmp => Tmp(job'[d].path) = fd'[d]
    BY <1>3, <1>4 DEF WInv, Known
  <2>3. ASSUME NEW d \in Clients, fd'[d] # None, pc'[d] = "copy"
        PROVE  files'[fd'[d]].from # {}
    <3>1. CASE fd'[d] = q
      <4>1. fd[d] = p /\ d # c
        BY <1>4, <3>1, NoneIsNothing
      <4> QED
        BY <1>2, <1>3, <2>3, <3>1, <4>1, NoneIsNothing DEF WInv, Known
    <3>2. CASE fd'[d] # q
      BY <1>2, <1>3, <1>4, <2>3, <3>2 DEF WInv, Known
    <3> QED
      BY <3>1, <3>2
  <2>4. ASSUME NEW d \in Clients, fd'[d] # None, ~fd'[d].tmp
        PROVE  Several(files'[fd'[d]].by)
    <3>1. CASE fd'[d] = q /\ p.tmp
      <4>1. d \in Writers(p) /\ d # c
        BY <1>4, <1>8, <3>1 DEF Writers
      <4>2. d \in Users(p)
        BY <3>1, <4>1, WritersAreUsers
      <4> QED
        BY <1>2, <1>8, <3>1, <4>1, <4>2 DEF Several
    <3>2. CASE fd'[d] = q /\ ~p.tmp
      BY <1>2, <1>4, <3>2, NoneIsNothing DEF WInv, Known
    <3>3. CASE fd'[d] # q
      BY <1>2, <1>4, <2>4, <3>3 DEF WInv, Known
    <3> QED
      BY <3>1, <3>2, <3>3
  <2> QED
    BY <2>1, <2>2, <2>3, <2>4 DEF Known, Several
<1>10. Single'
  <2> SUFFICES ASSUME NEW d \in Clients, pc'[d] \in {"open", "copy", "rename"},
                      files'[Tmp(job'[d].path)] # None,
                      files'[Tmp(job'[d].path)].by \subseteq {d}
               PROVE  IF pc'[d] = "rename" THEN files'[Tmp(job'[d].path)].whole
                      ELSE /\ fd'[d] = Tmp(job'[d].path)
                           /\ files'[Tmp(job'[d].path)].from \subseteq {job'[d].content}
    BY DEF Single
  <2>1. d # c /\ pc'[d] = pc[d] /\ job'[d] = job[d]
    BY <1>3
  <2>2. PICK r \in Path : r = Tmp(job[d].path) /\ r.tmp
    BY <2>1, JobType, PathsType DEF IInv
  <2>3. r # p /\ r # q
    BY <1>2, <2>1, <2>2
  <2>4. files'[r] = files[r]
    BY <1>2, <2>3
  <2>5. IF pc[d] = "rename" THEN files[r].whole
        ELSE fd[d] = r /\ files[r].from \subseteq {job[d].content}
    BY <2>1, <2>2, <2>4 DEF WInv, Single
  <2>6. fd[d] = r => fd'[d] = r
    BY <1>1, <2>3
  <2> QED
    BY <2>1, <2>2, <2>4, <2>5, <2>6
<1>11. Broken'
  <2>1. ASSUME NEW r \in Path, files'[r] # None, ~files'[r].whole
        PROVE  \/ Writers(r)' # {} \/ Several(files'[r].from)
               \/ "bad" \in files'[r].from \/ crashes' > 0
    <3>1. CASE r = q
      BY <1>2, <1>7, <2>1, <3>1 DEF WInv, Broken
    <3>2. CASE r # q
      BY <1>2, <1>6, <2>1, <3>2 DEF WInv, Broken
    <3> QED
      BY <3>1, <3>2
  <2>2. ASSUME NEW r \in Path, ~r.tmp, files'[r] # None, ~files'[r].whole
        PROVE  Several(files'[r].by)
    <3>1. CASE r = q /\ p.tmp
      <4>1. ~(files[p].by \subseteq {c})
        BY <1>2, <2>2, <3>1 DEF WInv, Single
      <4> QED
        BY <1>2, <1>8, <3>1, <4>1 DEF Several
    <3>2. CASE r = q /\ ~p.tmp
      BY <1>2, <2>2, <3>2 DEF WInv, Broken
    <3>3. CASE r # q
      BY <1>2, <2>2, <3>3 DEF WInv, Broken
    <3> QED
      BY <3>1, <3>2, <3>3
  <2> QED
    BY <2>1, <2>2 DEF Broken, Several
<1> QED
  BY <1>9, <1>10, <1>11 DEF WInv

\* Making a file executable leaves the rest of it.
LEMMA ChmodKeeps ==
  ASSUME IInv, WInv, NEW c \in Clients, Chmod(c)
  PROVE  WInv'
<1>1. fd[c] = None /\ pc[c] = "chmod"
  BY DEF Chmod, IInv, InPlace
<1>2. job[c].path \in Path /\ files[job[c].path] \in File
  BY <1>1, JobType DEF IInv, TypeOK, InPlace
<1>3. PICK f \in File :
        /\ files' = [files EXCEPT ![job[c].path] = f]
        /\ f.whole = files[job[c].path].whole
        /\ f.by = files[job[c].path].by
        /\ f.from = files[job[c].path].from
  <2> DEFINE f == [files[job[c].path] EXCEPT !.x = TRUE]
  <2>1. files' = [files EXCEPT ![job[c].path] = f]
    BY DEF Chmod
  <2>2. /\ f \in File
        /\ f.whole = files[job[c].path].whole
        /\ f.by = files[job[c].path].by
        /\ f.from = files[job[c].path].from
    BY <1>2 DEF File
  <2> HIDE DEF f
  <2> QED
    BY <2>1, <2>2
<1>4. \A q \in Path :
        /\ (files'[q] = None) <=> (files[q] = None)
        /\ files'[q].whole = files[q].whole
        /\ files'[q].by = files[q].by
        /\ files'[q].from = files[q].from
  BY <1>2, <1>3, NoneIsNothing DEF IInv, TypeOK
<1>5. fd' = fd /\ pc'[c] = "idle" /\ UNCHANGED crashes
      /\ \A d \in Clients \ {c} : pc'[d] = pc[d] /\ job'[d] = job[d]
  BY <1>1 DEF Chmod, Done, Goto, IInv, TypeOK
<1>6. \A q : Users(q)' \subseteq Users(q) /\ Writers(q)' = Writers(q)
  BY <1>5 DEF Users, Writers
<1>7. \A d \in Clients : fd[d] # None => fd[d] \in Path /\ d # c
  BY <1>1 DEF IInv, TypeOK
<1>8. Known'
  BY <1>4, <1>5, <1>6, <1>7 DEF WInv, Known, Several
<1>9. Single'
  <2>1. \A d \in Clients \ {c} : pc[d] # "idle" => Tmp(job[d].path) \in Path
    BY JobType, PathsType DEF IInv
  <2> QED
    BY <1>4, <1>5, <2>1 DEF WInv, Single
<1>10. Broken'
  BY <1>4, <1>5, <1>6 DEF WInv, Broken, Several
<1> QED
  BY <1>8, <1>9, <1>10 DEF WInv

\* Every step keeps what is known of who writes what.
LEMMA WInvNext == IInv /\ WInv /\ [Next]_vars => WInv'
<1> SUFFICES ASSUME IInv, WInv, [Next]_vars PROVE WInv'
  OBVIOUS
<1>1. ASSUME NEW c \in Clients, NEW path, NEW content, Begin(c, path, content) PROVE WInv'
  <2>1. fd[c] = None /\ fd' = [fd EXCEPT ![c] = None]
    BY <1>1 DEF Begin, IInv, TypeOK, InPlace
  <2> QED
    BY <1>1, <2>1, QuietKeeps DEF Begin
<1>2. ASSUME NEW c \in Clients,
             Download(c) \/ Resolve(c) \/ UploadResource(c) \/ EnsureResource(c)
      PROVE WInv'
  BY <1>1, <1>2 DEF Download, Resolve, UploadResource, EnsureResource
<1>3. ASSUME NEW c \in Clients, NEW v \in Uploads, Upload(c, v) PROVE WInv'
  BY <1>1, <1>3 DEF Upload
<1>4. ASSUME NEW c \in Clients, CreateFails(c) \/ RenameFails(c) PROVE WInv'
  <2>1. fd[c] = None
    BY <1>4 DEF CreateFails, RenameFails, IInv, InPlace
  <2> QED
    BY <1>4, <2>1, QuietKeeps DEF CreateFails, RenameFails, Done, Goto
<1>5. ASSUME NEW c \in Clients, Extract(c) PROVE WInv'
  <2>1. fd[c] = None /\ fd' = [fd EXCEPT ![c] = None]
    BY <1>5 DEF Extract, IInv, TypeOK, InPlace
  <2>2. PICK j : job' = [job EXCEPT ![c] = j]
    BY <1>5 DEF Extract
  <2> QED
    BY <1>5, <2>1, <2>2, QuietKeeps DEF Extract, Goto
<1>6. ASSUME NEW c \in Clients, CopyBegins(c) \/ CopyEnds(c) PROVE WInv'
  <2>1. CASE fd[c] # None
    BY <1>6, <2>1, CopyKeeps
  <2>2. CASE fd[c] = None
    <3>1. /\ UNCHANGED <<files, fd, job, crashes>>
          /\ pc[c] \in {"open", "copy"}
          /\ \A d \in Clients \ {c} : pc'[d] = pc[d]
          /\ pc'[c] \in {"copy", "rename"}
      BY <1>6, <2>2 DEF CopyBegins, CopyEnds, Goto, IInv, TypeOK
    <3>2. Tmp(job[c].path) \in Path
      BY <3>1, JobType, PathsType DEF IInv
    <3>3. ~(files[Tmp(job[c].path)] # None /\ files[Tmp(job[c].path)].by \subseteq {c})
      BY <2>2, <3>1, <3>2, NoneIsNothing DEF WInv, Single
    <3>4. \A q : Users(q)' = Users(q) /\ Writers(q)' = Writers(q)
      BY <3>1 DEF Users, Writers
    <3>5. Known'
      BY <2>2, <3>1, <3>4 DEF WInv, Known, Several
    <3>6. Single'
      BY <3>1, <3>3 DEF WInv, Single
    <3>7. Broken'
      BY <3>1, <3>4 DEF WInv, Broken, Several
    <3> QED
      BY <3>5, <3>6, <3>7 DEF WInv
  <2> QED
    BY <2>1, <2>2
<1>7. ASSUME NEW c \in Clients, Rename(c) PROVE WInv'
  <2>1. PICK q \in Path : q = job[c].path /\ ~q.tmp /\ Tmp(q) \in Path /\ Tmp(q).tmp
    BY <1>7, JobType, PathsType DEF Rename, IInv, InPlace
  <2>2. fd[c] = None /\ pc[c] = "rename"
    BY <1>7 DEF Rename, IInv, InPlace
  <2>3. Next1(q.name) \notin {"open", "copy", "rename"}
    BY <2>1 DEF Next1, Path
  <2>4. PICK j : job' = [job EXCEPT ![c] = j]
    <3>1. job = [job EXCEPT ![c] = job[c]]
      BY DEF IInv, TypeOK
    <3> QED
      BY <1>7, <3>1 DEF Rename
  <2> QED
    BY <1>7, <2>1, <2>2, <2>3, <2>4, MovedKeeps DEF Rename, Goto
<1>8. ASSUME NEW c \in Clients, Install(c) PROVE WInv'
  <2>1. PICK p \in Path : p = job[c].path /\ ~p.tmp /\ p.name = "plain"
    BY <1>8, JobType DEF Install, IInv, InPlace
  <2>2. PICK q \in Path : q = Bin(p.dir) /\ ~q.tmp /\ q.name = "bin"
    BY PathsType DEF Bin, At
  <2>3. fd[c] = None
    BY <1>8 DEF Install, IInv, InPlace
  <2>4. PICK j : job' = [job EXCEPT ![c] = j]
    BY <1>8 DEF Install
  <2> QED
    BY <1>8, <2>1, <2>2, <2>3, <2>4, MovedKeeps DEF Install, Goto
<1>9. CASE NewRelease
  BY <1>9 DEF NewRelease, WInv, Known, Single, Broken, Users, Writers, Several
<1>10. CASE Crash
  <2>1. /\ UNCHANGED files /\ crashes' > 0
        /\ \A d \in Clients : pc'[d] = "idle" /\ fd'[d] = None
    BY <1>10, BoundsAreNat DEF Crash, IInv, TypeOK
  <2>2. \A q : Users(q)' = {}
    BY <2>1 DEF Users
  <2> QED
    BY <2>1, <2>2 DEF WInv, Known, Single, Broken, Several
<1>11. CASE UNCHANGED vars
  BY <1>11 DEF vars, WInv, Known, Single, Broken, Users, Writers, Several
<1> QED
  BY <1>2, <1>3, <1>4, <1>5, <1>6, <1>7, <1>8, <1>9, <1>10, <1>11, CreateKeeps,
     CopyFailsKeeps, ChmodKeeps DEF Next, Update

-----------------------------------------------------------------------------
(* Torn contents *)

\* Whatever is torn, in a file or on its way there, is known to come out of an archive that
\* several calls wrote.
Torn ==
    /\ \A p \in Path : files[p] # None /\ "torn" \in files[p].from => Several(files[p].torn)
    /\ \A c \in Clients :
         pc[c] # "idle" /\ job[c].content = "torn" => Several(job[c].torn)

\* Every step keeps that: a call gets torn contents only from an archive that is not whole
\* or is being written, and such an archive had several users.
LEMMA TornNext == IInv /\ WInv /\ Torn /\ [Next]_vars => Torn'
<1> SUFFICES ASSUME IInv, WInv, Torn, [Next]_vars PROVE Torn'
  OBVIOUS
<1> USE DEF Torn, Goto, Done
<1>1. ASSUME NEW c \in Clients, NEW path, NEW content, content # "torn",
             Begin(c, path, content)
      PROVE Torn'
  BY <1>1 DEF Begin, IInv, TypeOK, Several
<1>2. ASSUME NEW c \in Clients, Download(c) PROVE Torn'
  BY <1>1, <1>2, ReleasesAreNoOther, LatestTag DEF Download, IInv
<1>3. ASSUME NEW c \in Clients, Resolve(c) \/ UploadResource(c) \/ EnsureResource(c)
      PROVE Torn'
  BY <1>1, <1>2, <1>3 DEF Resolve, UploadResource, EnsureResource
<1>4. ASSUME NEW c \in Clients, NEW v \in Uploads, Upload(c, v) PROVE Torn'
  BY <1>1, <1>4 DEF Upload
<1>5. ASSUME NEW c \in Clients, CreateFails(c) \/ RenameFails(c) PROVE Torn'
  BY <1>5 DEF CreateFails, RenameFails, IInv, TypeOK, Several
<1>6. ASSUME NEW c \in Clients, Create(c) PROVE Torn'
  <2>1. PICK p \in Path : p = Tmp(job[c].path) /\ p.tmp
    BY <1>6, JobType, PathsType DEF Create, IInv
  <2>2. PICK f : /\ files' = [files EXCEPT ![p] = f]
                 /\ f.from = {job[d].content : d \in Writers(p)}
                 /\ f.torn = UNION {job[d].torn : d \in Writers(p)}
    <3> DEFINE f == [header |-> FALSE, whole |-> FALSE, x |-> files[p] # None /\ files[p].x,
                     from |-> {job[d].content : d \in Writers(p)}, by |-> {c} \cup Users(p),
                     torn |-> UNION {job[d].torn : d \in Writers(p)}]
    <3>1. files' = [files EXCEPT ![p] = f]
      BY <1>6, <2>1 DEF Create
    <3>2. /\ f.from = {job[d].content : d \in Writers(p)}
          /\ f.torn = UNION {job[d].torn : d \in Writers(p)}
      OBVIOUS
    <3> HIDE DEF f
    <3> QED
      BY <3>1, <3>2
  <2>3. \A d \in Writers(p) : pc[d] # "idle"
    BY <2>1, NoneIsNothing DEF Writers, IInv, InPlace
  <2>4. "torn" \in f.from => Several(f.torn)
    <3>1. SUFFICES ASSUME NEW d \in Writers(p), job[d].content = "torn"
                   PROVE  Several(f.torn)
      BY <2>2
    <3>2. Several(job[d].torn) /\ job[d].torn \subseteq f.torn
      BY <2>2, <2>3, <3>1 DEF Writers
    <3> QED
      BY <3>2 DEF Several
  <2>5. \A q \in Path : files'[q] = IF q = p THEN f ELSE files[q]
    BY <2>1, <2>2 DEF IInv, TypeOK
  <2>6. pc[c] = "create" /\ UNCHANGED job /\ pc' = [pc EXCEPT ![c] = "open"]
    BY <1>6 DEF Create
  <2>7. \A d \in Clients : pc'[d] # "idle" => pc[d] # "idle"
    BY <2>6 DEF IInv, TypeOK
  <2> QED
    BY <2>4, <2>5, <2>6, <2>7 DEF Several
<1>7. ASSUME NEW c \in Clients, CopyBegins(c) \/ CopyEnds(c) PROVE Torn'
  <2>1. pc[c] # "idle" /\ UNCHANGED job /\ \A d \in Clients : pc'[d] # "idle" => pc[d] # "idle"
    BY <1>7 DEF CopyBegins, CopyEnds, IInv, TypeOK
  <2>2. CASE fd[c] = None
    BY <1>7, <2>1, <2>2 DEF CopyBegins, CopyEnds, Several
  <2>3. CASE fd[c] # None
    <3>1. PICK p \in Path : p = fd[c] /\ files[p] # None
      BY <2>3 DEF IInv, TypeOK
    <3>2. PICK f \in File :
            /\ files' = [files EXCEPT ![p] = f]
            /\ f.from \subseteq files[p].from \cup {job[c].content}
            /\ f.torn = files[p].torn \cup job[c].torn
      BY <1>7, <2>3, <3>1, BeginsWriting, EndsWriting
    <3>3. "torn" \in f.from => Several(f.torn)
      BY <2>1, <3>1, <3>2 DEF Several
    <3>4. \A q \in Path : files'[q] = IF q = p THEN f ELSE files[q]
      BY <3>1, <3>2 DEF IInv, TypeOK
    <3> QED
      BY <2>1, <3>3, <3>4 DEF Several
  <2> QED
    BY <2>2, <2>3
<1>8. ASSUME NEW c \in Clients, CopyFails(c) PROVE Torn'
  <2>1. PICK p \in Path : p = Tmp(job[c].path)
    BY <1>8, JobType, PathsType DEF CopyFails, IInv
  <2>2. \A q \in Path : files'[q] # None =>
          /\ files[q] # None /\ files'[q].torn = files[q].torn
          /\ files'[q].from \subseteq files[q].from \cup {"bad"}
    <3>1. CASE fd[c] = None
      <4>1. files' = [files EXCEPT ![p] = None]
        BY <1>8, <2>1, <3>1 DEF CopyFails
      <4> QED
        BY <4>1 DEF IInv, TypeOK
    <3>2. CASE fd[c] # None
      <4> DEFINE f == [files[fd[c]] EXCEPT !.from = @ \cup {"bad"}]
      <4>1. fd[c] \in Path /\ files[fd[c]] \in File
        BY <3>2 DEF IInv, TypeOK
      <4>2. f.torn = files[fd[c]].torn /\ f.from = files[fd[c]].from \cup {"bad"}
        BY <4>1 DEF File
      <4>3. files' = [[files EXCEPT ![fd[c]] = f] EXCEPT ![p] = None]
        BY <1>8, <2>1, <3>2 DEF CopyFails
      <4>4. files \in [Path -> {None} \cup File] /\ files[fd[c]] # None
        BY <3>2 DEF IInv, TypeOK
      <4> HIDE DEF f
      <4>5. files'[p] = None /\ \A q \in Path \ {p} : files'[q] = IF q = fd[c] THEN f ELSE files[q]
        BY <4>1, <4>3, <4>4
      <4> QED
        BY <4>1, <4>2, <4>4, <4>5
    <3> QED
      BY <3>1, <3>2
  <2>3. \A d \in Clients : pc'[d] # "idle" => pc[d] # "idle" /\ job'[d] = job[d]
    BY <1>8 DEF CopyFails, IInv, TypeOK
  <2> QED
    BY <2>2, <2>3 DEF Several
<1>9. ASSUME NEW p \in Path, NEW q \in Path, files[p] # None, Moved(p, q)
      PROVE  \A r \in Path : files'[r] # None /\ "torn" \in files'[r].from =>
               Several(files'[r].torn)
  BY <1>9 DEF Moved, IInv, TypeOK
<1>10. ASSUME NEW c \in Clients, Rename(c) PROVE Torn'
  <2>1. job[c].path \in Path /\ Tmp(job[c].path) \in Path
    BY <1>10, JobType, PathsType DEF Rename, IInv
  <2>2. \A d \in Clients : pc'[d] # "idle" => pc[d] # "idle" /\ job'[d] = job[d]
    BY <1>10 DEF Rename, Next1, IInv, TypeOK
  <2>3. files[Tmp(job[c].path)] # None /\ Moved(Tmp(job[c].path), job[c].path)
    BY <1>10 DEF Rename
  <2> QED
    BY <1>9, <2>1, <2>2, <2>3 DEF Several
<1>11. ASSUME NEW c \in Clients, Install(c) PROVE Torn'
  <2>1. job[c].path \in Path /\ Bin(job[c].path.dir) \in Path /\ job[c] \in Job
    BY <1>11, JobType, PathsType DEF Install, IInv, TypeOK
  <2>2. pc[c] # "idle" /\ \A d \in Clients \ {c} : pc'[d] = pc[d] /\ job'[d] = job[d]
    BY <1>11 DEF Install, IInv, TypeOK
  <2>3. job'[c].content = job[c].content /\ job'[c].torn = job[c].torn
    BY <1>11, <2>1 DEF Install, Job, IInv, TypeOK
  <2>4. files[job[c].path] # None /\ Moved(job[c].path, Bin(job[c].path.dir))
    BY <1>11 DEF Install
  <2> QED
    BY <1>9, <2>1, <2>2, <2>3, <2>4 DEF Several
<1>12. ASSUME NEW c \in Clients, Extract(c) PROVE Torn'
  <2> DEFINE archive == files[job[c].path]
  <2>1. PICK content \in Unpacked(archive, Writers(job[c].path)) :
           job' = [job EXCEPT ![c] =
                     [path |-> Bin(job[c].path.dir), content |-> content,
                      torn |-> IF content = "torn" THEN archive.by \cup archive.torn ELSE {}]]
    BY <1>12 DEF Extract
  <2>2. job[c].path \in Path /\ ~job[c].path.tmp /\ archive # None
    BY <1>12, JobType DEF Extract, IInv, InPlace
  <2>3. ASSUME content = "torn", archive.whole, Writers(job[c].path) = {}
        PROVE  Several(archive.by \cup archive.torn)
    <3>1. archive.from = {"junk"} => content # "torn"
      BY <2>1, <2>3 DEF Unpacked
    <3>2. archive.from # {"junk"} => content \in archive.from
      BY <2>1, <2>3 DEF Unpacked
    <3> QED
      BY <2>2, <2>3, <3>1, <3>2 DEF Several
  <2>4. ASSUME ~archive.whole PROVE  Several(archive.by \cup archive.torn)
    BY <2>2, <2>4 DEF WInv, Broken, Several
  <2>5. ASSUME Writers(job[c].path) # {} PROVE  Several(archive.by \cup archive.torn)
    <3>1. PICK d \in Clients : fd[d] = job[c].path /\ fd[d] # None
      BY <2>2, <2>5, NoneIsNothing DEF Writers
    <3> QED
      BY <2>2, <3>1 DEF WInv, Known, Several
  <2>6. QED
    <3>1. content = "torn" => Several(archive.by \cup archive.torn)
      BY <2>3, <2>4, <2>5
    <3>2. pc[c] # "idle" /\ UNCHANGED files /\ \A d \in Clients \ {c} : pc'[d] = pc[d] /\ job'[d] = job[d]
      BY <1>12 DEF Extract, IInv, TypeOK
    <3>3. /\ job'[c].content = content
          /\ content = "torn" => job'[c].torn = archive.by \cup archive.torn
      BY <2>1 DEF IInv, TypeOK
    <3> QED
      BY <3>1, <3>2, <3>3 DEF Several
<1>13. ASSUME NEW c \in Clients, Chmod(c) PROVE Torn'
  <2> DEFINE f == [files[job[c].path] EXCEPT !.x = TRUE]
  <2>1. job[c].path \in Path /\ files[job[c].path] \in File
    BY <1>13, JobType DEF Chmod, IInv, TypeOK, InPlace
  <2>2. f.torn = files[job[c].path].torn /\ f.from = files[job[c].path].from
    BY <2>1 DEF File
  <2>3. files' = [files EXCEPT ![job[c].path] = f]
    BY <1>13 DEF Chmod
  <2>4. \A d \in Clients : pc'[d] # "idle" => pc[d] # "idle" /\ job'[d] = job[d]
    BY <1>13 DEF Chmod, IInv, TypeOK
  <2> HIDE DEF f
  <2>5. \A q \in Path : files'[q] # None =>
          /\ files[q] # None
          /\ files'[q].torn = files[q].torn /\ files'[q].from = files[q].from
    BY <2>1, <2>2, <2>3, NoneIsNothing DEF IInv, TypeOK
  <2> QED
    BY <2>4, <2>5 DEF Several
<1>14. CASE NewRelease
  BY <1>14 DEF NewRelease, Several
<1>15. CASE Crash
  BY <1>15 DEF Crash, Several
<1>16. CASE UNCHANGED vars
  BY <1>16 DEF vars, Several
<1> QED
  BY <1>2, <1>3, <1>4, <1>5, <1>6, <1>7, <1>8, <1>10, <1>11, <1>12, <1>13, <1>14, <1>15, <1>16
  DEF Next, Update

\* A file under its final name is whole, unless several calls wrote it at once and one of
\* them is still writing, wrote something else, failed, or was cut off by a crash; what is
\* torn came out of an archive that several calls wrote.
THEOREM InstalledAreWhole == Spec => []InstalledIsWhole
<1>1. Init => WInv
  <2>1. \A p \in Path : Init => files[p] = None
    BY DEF Init
  <2>2. \A c \in Clients : Init => fd[c] = None /\ pc[c] = "idle"
    BY DEF Init
  <2> QED
    BY <2>1, <2>2 DEF WInv, Known, Single, Broken
<1>2. Init => Torn
  BY DEF Init, Torn
<1>3. WInv /\ Torn => InstalledIsWhole
  BY DEF WInv, Broken, Torn, InstalledIsWhole
<1> QED
  BY <1>1, <1>2, <1>3, WInvNext, TornNext, IInvCorrect, PTL DEF Spec
=============================================================================
