-------------------------------- MODULE Files --------------------------------
(***************************************************************************)
(* The users' files: the handlers of rm, mkdir, cd, mv, cp, clean and      *)
(* compress (client_controller.cpp, io.hpp, compression_controller.hpp) on *)
(* the one tree below ./tmp, run by the sessions of several connections.   *)
(*                                                                         *)
(* A system call is one step.  What the code does in several, removing a   *)
(* directory, cleaning the server and making an archive, is a job that     *)
(* requests of other sessions come in between of.  A session has one       *)
(* request at a time: the client waits for the reply.  An exception that a *)
(* handler throws is caught by nobody and ends the process.                *)
(***************************************************************************)
EXTENDS Naturals, FiniteSets, SequencesExt, TLC

CONSTANTS Homes,        \* the users' directories, named by their ids
          Longer,       \* pairs of homes: the second's id begins with the first
          HomeOf,       \* the sessions, each with the home of its user
          Admins,       \* the sessions whose is_admin is true
          Names,        \* names for files and directories
          Archives,     \* names for archives, without their extensions
          Formats,      \* the formats they are asked for in
          InitialFiles, \* a sequence of paths
          MaxDepth,     \* how deep paths go below a home
          MaxFiles,     \* how many files there may be, open ones included
          MaxRequests   \* how many requests the sessions make in all

Sessions == DOMAIN HomeOf

VARIABLES
    tree,       \* what each path that exists names: Dir, or a file's number
    data,       \* the contents of each file
    cwd,        \* ConnectionWrapper::current_dir
    job,        \* what is left to do of each session's request
    last,       \* the session that made the last step, and the reply it got
    ended,      \* what threw and so ended the process, or "no"
    requests,   \* how many requests there have been
    overlapped, \* history: another session changed the files during the job
    changed,    \* history: the job itself has changed them
    climbed     \* history: somebody has removed ".."

vars == <<tree, data, cwd, job, last, ended, requests, overlapped, changed, climbed>>

Dir == 0
Idle == [step |-> "idle"]
Busy(s) == job[s] # Idle

\* Contents are members, each a path with what it held; the contents of a
\* file that is no archive are one member, the file as it was at first.
Plain(p) == <<<<p, <<>>>>>>
Hole == <<<<>>, <<>>>>

Extension == [zst |-> ".tar.zst", gz |-> ".tar.gz", xz |-> ".tar.xz",
              lz4 |-> ".tar.lz4", zip |-> ".zip"]
Written == {a \o ".tar" : a \in Archives}
           \cup {a \o Extension[f] : a \in Archives, f \in Formats}

Under(names) ==
    UNION {{<<h>> \o q : h \in Homes, q \in [1 .. n -> names]} : n \in 0 .. MaxDepth}
Paths == Under(Names)
AllPaths == Under(Names \cup Written)

\* Where everything starts: files, none of them below another.  No archive
\* has the name of its tar.
ASSUME FilesAssumption ==
    /\ Longer \subseteq Homes \X Homes
    /\ \A s \in Sessions : HomeOf[s] \in Homes
    /\ IsFiniteSet(Names)
    /\ MaxDepth \in Nat /\ MaxRequests \in Nat
    /\ MaxFiles \in Nat /\ MaxFiles > Len(InitialFiles)
    /\ InitialFiles \in Seq(Paths)
    /\ \A i, j \in DOMAIN InitialFiles :
          i # j => ~IsPrefix(InitialFiles[i], InitialFiles[j])
    /\ \A a \in Archives, f \in Formats : a \o Extension[f] # a \o ".tar"

Exists(p) == p \in DOMAIN tree
IsDir(p) == p = <<>> \/ (Exists(p) /\ tree[p] = Dir)
IsFile(p) == Exists(p) /\ tree[p] # Dir
Below(p) == {q \in DOMAIN tree : IsStrictPrefix(p, q)}

\* Numbers of files that are neither named nor open are free.
Open == {job[s].out : s \in {t \in Sessions : "out" \in DOMAIN job[t]}}
Free == (1 .. MaxFiles) \ (Range(tree) \cup Open)
Fresh == CHOOSE n \in Free : \A m \in Free : n <= m

TypeOK ==
    /\ DOMAIN tree \subseteq AllPaths
    /\ Range(tree) \subseteq 0 .. MaxFiles
    /\ \A p \in DOMAIN tree : IsDir(Front(p))
    /\ DOMAIN data = 1 .. MaxFiles
    /\ cwd \in [Sessions -> Paths]
    /\ DOMAIN job = Sessions
    /\ last \in (Sessions \cup {"nobody"}) \X
                {"none", "RESP_OK", "RESP_IO_ERROR", "RESP_COMPRESS"}
    /\ ended \in {"no", "cp", "directory listed", "cwd lost", "race"}
    /\ requests \in 0 .. MaxRequests
    /\ overlapped \in [Sessions -> BOOLEAN] /\ changed \in [Sessions -> BOOLEAN]
    /\ climbed \in BOOLEAN

Init ==
    /\ tree = [p \in (UNION {Prefixes(f) : f \in Range(InitialFiles)}) \ {<<>>} |->
                  IF Contains(InitialFiles, p)
                  THEN CHOOSE n \in DOMAIN InitialFiles : InitialFiles[n] = p ELSE Dir]
    /\ data = [n \in 1 .. MaxFiles |->
                  IF n \in DOMAIN InitialFiles THEN Plain(InitialFiles[n]) ELSE <<>>]
    /\ cwd = [s \in Sessions |-> <<HomeOf[s]>>]
    /\ job = [s \in Sessions |-> Idle]
    /\ last = <<"nobody", "none">>
    /\ ended = "no"
    /\ requests = 0
    /\ overlapped = [s \in Sessions |-> FALSE]
    /\ changed = [s \in Sessions |-> FALSE]
    /\ climbed = FALSE
-----------------------------------------------------------------------------
(***************************************************************************)
(* How a step of a handler ends, and what the kernel does to the tree.     *)
(***************************************************************************)
Answer(s, r) ==
    /\ job' = [job EXCEPT ![s] = Idle]
    /\ last' = <<s, r>>
    /\ UNCHANGED ended

Continue(s, j) ==
    /\ job' = [job EXCEPT ![s] = j]
    /\ last' = <<s, "none">>
    /\ UNCHANGED ended

Throw(s, what) == ended' = what /\ last' = <<s, "none">> /\ UNCHANGED job

\* The tree once p names v.
Naming(p, v) == [q \in DOMAIN tree \cup {p} |-> IF q = p THEN v ELSE tree[q]]

Unlink(p) == tree' = [q \in DOMAIN tree \ {p} |-> tree[q]] /\ UNCHANGED data

CanCreate(p) == IsDir(Front(p)) /\ (Exists(p) => IsFile(p))
NumberFor(p) == IF Exists(p) THEN tree[p] ELSE Fresh

\* open() for writing, with truncation.
Create(p) ==
    /\ tree' = Naming(p, NumberFor(p))
    /\ data' = [data EXCEPT ![NumberFor(p)] = <<>>]

CanRename(p, q) ==
    /\ Exists(p) /\ IsDir(Front(q)) /\ ~IsStrictPrefix(p, q)
    /\ \/ ~Exists(q) \/ p = q
       \/ IsFile(p) /\ IsFile(q)
       \/ IsDir(p) /\ IsDir(q) /\ Below(q) = {}

\* Everything below p has its path begin with q instead.
Renamed(p, q) ==
    LET At(r) == q \o SubSeq(r, Len(p) + 1, Len(r))
        moving == {p} \cup Below(p)
    IN [r \in (DOMAIN tree \ moving) \cup {At(m) : m \in moving} |->
           IF IsPrefix(q, r) THEN tree[p \o SubSeq(r, Len(q) + 1, Len(r))] ELSE tree[r]]

\* is_path_within_user_dir compares the paths as strings, by their beginning.
Within(p, h) == Head(p) = h \/ <<h, Head(p)>> \in Longer
-----------------------------------------------------------------------------
(***************************************************************************)
(* rm.  A file or an empty directory goes at once; otherwise remove_all    *)
(* empties the directory entry by entry.  A refused name changes nothing   *)
(* and is left out.                                                        *)
(***************************************************************************)
RemoveAll(cmd, p) ==
    [step |-> "remove", cmd |-> cmd, target |-> p, seen |-> Below(p), any |-> FALSE]

RemovePath(s) ==
    /\ \E n \in Names \cup Written :
         LET p == Append(cwd[s], n) IN
         \/ Exists(p) /\ Below(p) = {} /\ Unlink(p) /\ Answer(s, "RESP_OK")
         \/ Below(p) # {} /\ Continue(s, RemoveAll("rm", p)) /\ UNCHANGED <<tree, data>>
         \/ ~Exists(p) /\ Answer(s, "RESP_IO_ERROR") /\ UNCHANGED <<tree, data>>
    /\ UNCHANGED <<cwd, climbed>>

\* ".." has no delimiter in it and so is a valid file name.
RemoveParent(s) ==
    /\ IF Exists(cwd[s])
       THEN Continue(s, RemoveAll("rm ..", Front(cwd[s])))
       ELSE Answer(s, "RESP_IO_ERROR")
    /\ climbed' = TRUE
    /\ UNCHANGED <<tree, data, cwd>>

RemoveEntry(s) ==
    /\ job[s].step = "remove"
    /\ \E q \in Below(job[s].target) :
         /\ Below(q) = {}
         /\ Unlink(q)
         /\ Continue(s, [job[s] EXCEPT !.any = TRUE])
    /\ UNCHANGED <<cwd, climbed>>

\* An entry made behind the iterator keeps rmdir() from removing its directory.
RemoveThrows(s) ==
    /\ job[s].step = "remove"
    /\ ~(Below(job[s].target) \subseteq job[s].seen)
    /\ Throw(s, "race")
    /\ UNCHANGED <<tree, data, cwd, climbed>>

\* The directory itself, if it is still there; through "..", it never is.
RemoveTarget(s) ==
    LET j == job[s]
        any == j.any \/ (Exists(j.target) /\ j.cmd # "rm ..") IN
    /\ j.step = "remove" /\ Below(j.target) = {}
    /\ IF Exists(j.target) /\ j.cmd # "rm .." THEN Unlink(j.target) ELSE UNCHANGED <<tree, data>>
    /\ CASE ~any -> Answer(s, "RESP_IO_ERROR")
         [] any /\ j.cmd = "clean" -> Continue(s, [step |-> "clean", left |-> j.left])
         [] OTHER -> Answer(s, "RESP_OK")
    /\ UNCHANGED <<cwd, climbed>>
-----------------------------------------------------------------------------
(***************************************************************************)
(* clean: the directories that the iterator has listed, one after another. *)
(***************************************************************************)
Clean(s) ==
    /\ s \in Admins
    /\ Continue(s, [step |-> "clean", left |-> {h \in Homes : IsDir(<<h>>)}])
    /\ UNCHANGED <<tree, data, cwd, climbed>>

CleanHome(h, left) ==
    [step |-> "remove", cmd |-> "clean", target |-> <<h>>, seen |-> Below(<<h>>),
     any |-> FALSE, left |-> left]

CleanNext(s) ==
    /\ job[s].step = "clean"
    /\ IF job[s].left = {}
       THEN Answer(s, "RESP_OK")
       ELSE \E h \in job[s].left :
              Continue(s, CleanHome(h, job[s].left \ {h}))
    /\ UNCHANGED <<tree, data, cwd, climbed>>
-----------------------------------------------------------------------------
(***************************************************************************)
(* mkdir, cd, mv, cp, and the mkdir of a login.                            *)
(***************************************************************************)
MakeDirectory(s) ==
    /\ \E n \in Names :
         LET p == Append(cwd[s], n) IN
         /\ Len(p) <= MaxDepth + 1
         /\ IF IsDir(cwd[s]) /\ ~Exists(p)
            THEN tree' = Naming(p, Dir) /\ Answer(s, "RESP_OK")
            ELSE Answer(s, "RESP_IO_ERROR") /\ UNCHANGED tree
    /\ UNCHANGED <<data, cwd, climbed>>

\* Faulty variant: ".." is let one level too far up.
ChangeDirectoryTooFar(s) ==
    /\ \/ \E n \in Names :
            IF Len(cwd[s]) <= MaxDepth /\ IsDir(Append(cwd[s], n))
            THEN cwd' = [cwd EXCEPT ![s] = Append(@, n)] /\ Answer(s, "RESP_OK")
            ELSE UNCHANGED cwd /\ Answer(s, "RESP_IO_ERROR")
       \/ cwd' = [cwd EXCEPT ![s] = Front(@)] /\ Answer(s, "RESP_OK")
    /\ UNCHANGED <<tree, data, climbed>>

\* One component; a path of several is as many of these, all or none of them.
ChangeDirectory(s) ==
    /\ \/ \E n \in Names :
            IF Len(cwd[s]) <= MaxDepth /\ IsDir(Append(cwd[s], n))
            THEN cwd' = [cwd EXCEPT ![s] = Append(@, n)] /\ Answer(s, "RESP_OK")
            ELSE UNCHANGED cwd /\ Answer(s, "RESP_IO_ERROR")
       \/ /\ cwd' = [cwd EXCEPT ![s] = IF Len(@) > 1 THEN Front(@) ELSE @]
          /\ Answer(s, "RESP_OK")
    /\ UNCHANGED <<tree, data, climbed>>

Arguments == Paths \cup DOMAIN tree

\* Faulty variant: only the source has to be the user's.
MoveAnywhere(s) ==
    /\ \E p \in Arguments, q \in Paths :
         /\ \A r \in Below(p) : Len(r) - Len(p) + Len(q) <= MaxDepth + 1
         /\ IF Within(p, HomeOf[s]) /\ CanRename(p, q)
            THEN tree' = Renamed(p, q) /\ Answer(s, "RESP_OK")
            ELSE Answer(s, "RESP_IO_ERROR") /\ UNCHANGED tree
    /\ UNCHANGED <<data, cwd, climbed>>

\* Faulty variant: what is in the way of the destination is removed first.
MoveOver(s) ==
    /\ \E p \in Arguments, q \in Paths :
         /\ \A r \in Below(p) : Len(r) - Len(p) + Len(q) <= MaxDepth + 1
         /\ IF Within(p, HomeOf[s]) /\ Within(q, HomeOf[s])
            THEN IF CanRename(p, q)
                 THEN tree' = Renamed(p, q) /\ Answer(s, "RESP_OK")
                 ELSE /\ tree' = [r \in {x \in DOMAIN tree : ~IsPrefix(q, x)} |-> tree[r]]
                      /\ Answer(s, "RESP_IO_ERROR")
            ELSE Answer(s, "RESP_IO_ERROR") /\ UNCHANGED tree
    /\ UNCHANGED <<data, cwd, climbed>>

Move(s) ==
    /\ \E p \in Arguments, q \in Paths :
         /\ \A r \in Below(p) : Len(r) - Len(p) + Len(q) <= MaxDepth + 1
         /\ IF Within(p, HomeOf[s]) /\ Within(q, HomeOf[s]) /\ CanRename(p, q)
            THEN tree' = Renamed(p, q) /\ Answer(s, "RESP_OK")
            ELSE Answer(s, "RESP_IO_ERROR") /\ UNCHANGED tree
    /\ UNCHANGED <<data, cwd, climbed>>

\* copy_file is std::filesystem's, found by its arguments, and throws.
Copy(s) ==
    /\ \E p \in Arguments, q \in Paths :
         IF ~Within(p, HomeOf[s]) \/ ~Within(q, HomeOf[s])
         THEN Answer(s, "RESP_IO_ERROR") /\ UNCHANGED <<tree, data>>
         ELSE IF IsFile(p) /\ ~Exists(q) /\ IsDir(Front(q))
              THEN /\ Free # {}
                   /\ tree' = Naming(q, Fresh)
                   /\ data' = [data EXCEPT ![Fresh] = data[tree[p]]]
                   /\ Answer(s, "RESP_OK")
              ELSE Throw(s, "cp") /\ UNCHANGED <<tree, data>>
    /\ UNCHANGED <<cwd, climbed>>

Login(s) ==
    LET home == <<HomeOf[s]>> IN
    /\ cwd' = [cwd EXCEPT ![s] = home]
    /\ tree' = IF Exists(home) THEN tree ELSE Naming(home, Dir)
    /\ Answer(s, "RESP_OK")
    /\ UNCHANGED <<data, climbed>>
-----------------------------------------------------------------------------
(***************************************************************************)
(* compress.  The files are listed, each of them checked to exist; then    *)
(* all formats but zip write them into a tar, compress the tar into the    *)
(* archive and remove the tar.                                             *)
(***************************************************************************)
Archive(s, a, f, files) ==
    [step |-> IF f = "zip" THEN "zip open" ELSE "tar open",
     tar |-> Append(cwd[s], a \o ".tar"), archive |-> Append(cwd[s], a \o Extension[f]),
     files |-> files, next |-> 1, out |-> 0,
     listed |-> [i \in DOMAIN files |->
        <<files[i], IF IsFile(files[i]) THEN data[tree[files[i]]] ELSE <<>>>>],
     directory |-> \E i \in DOMAIN files : IsDir(files[i])]

Listings(s) ==
    {[i \in DOMAIN l |-> Append(cwd[s], l[i])] : l \in SetToAllKPermutations(Names) \ {<<>>}}

\* Faulty variant: does_file_exist is not asked.
CompressUnchecked(s) ==
    /\ Len(cwd[s]) <= MaxDepth
    /\ \E a \in Archives, f \in Formats, files \in Listings(s) :
         Continue(s, Archive(s, a, f, files))
    /\ UNCHANGED <<tree, data, cwd, climbed>>

Compress(s) ==
    /\ Len(cwd[s]) <= MaxDepth
    /\ \E a \in Archives, f \in Formats, files \in Listings(s) :
         IF \A i \in DOMAIN files : Exists(files[i])
         THEN Continue(s, Archive(s, a, f, files))
         ELSE Answer(s, "RESP_IO_ERROR")
    /\ UNCHANGED <<tree, data, cwd, climbed>>

\* "*": every file below the current directory, which must be there.
CompressAll(s) ==
    /\ Len(cwd[s]) <= MaxDepth
    /\ \E a \in Archives, f \in Formats :
         IF IsDir(cwd[s])
         THEN Continue(s, Archive(s, a, f, SetToSeq({p \in Below(cwd[s]) : IsFile(p)})))
         ELSE Throw(s, "cwd lost")
    /\ UNCHANGED <<tree, data, cwd, climbed>>

\* A tar that cannot be opened is not noticed, nothing is written then.
TarOpen(s) ==
    LET j == job[s] IN
    /\ j.step = "tar open" /\ Free # {}
    /\ IF CanCreate(j.tar)
       THEN /\ Create(j.tar)
            /\ Continue(s, [j EXCEPT !.step = "add", !.out = NumberFor(j.tar)])
       ELSE /\ Continue(s, [j EXCEPT !.step = "add"])
            /\ UNCHANGED <<tree, data>>
    /\ UNCHANGED <<cwd, climbed>>

\* What a write at place i makes of contents d; a gap reads as zeros.
WriteAt(d, i, member) ==
    [k \in 1 .. (IF i > Len(d) THEN i ELSE Len(d)) |->
        IF k = i THEN member ELSE IF k <= Len(d) THEN d[k] ELSE Hole]

\* file_size throws if the file is gone, or is a directory.
TarAdd(s) ==
    LET j == job[s]
        f == j.files[j.next] IN
    /\ j.step = "add" /\ j.next <= Len(j.files)
    /\ IF IsFile(f)
       THEN /\ Continue(s, [j EXCEPT !.next = @ + 1])
            /\ data' = IF j.out = 0 THEN data
                       ELSE [data EXCEPT ![j.out] = WriteAt(@, j.next, <<f, data[tree[f]]>>)]
       ELSE /\ Throw(s, IF j.directory THEN "directory listed" ELSE "race")
            /\ UNCHANGED data
    /\ UNCHANGED <<tree, cwd, climbed>>

\* Faulty variant: the last file is left out.
ArchiveOpenEarly(s) ==
    LET j == job[s] IN
    /\ j.step = "add" /\ j.next >= Len(j.files) /\ Free # {}
    /\ IF CanCreate(j.archive)
       THEN /\ Create(j.archive)
            /\ Continue(s, [j EXCEPT !.step = "copy", !.out = NumberFor(j.archive)])
       ELSE Answer(s, "RESP_IO_ERROR") /\ UNCHANGED <<tree, data>>
    /\ UNCHANGED <<cwd, climbed>>

ArchiveOpen(s) ==
    LET j == job[s] IN
    /\ j.step = "add" /\ j.next > Len(j.files) /\ Free # {}
    /\ IF CanCreate(j.archive)
       THEN /\ Create(j.archive)
            /\ Continue(s, [j EXCEPT !.step = "copy", !.out = NumberFor(j.archive)])
       ELSE Answer(s, "RESP_IO_ERROR") /\ UNCHANGED <<tree, data>>
    /\ UNCHANGED <<cwd, climbed>>

(***************************************************************************)
(* The tar is opened again by its name and read to its end; what it is by  *)
(* then goes to the front of the archive.  A directory reads as nothing.   *)
(***************************************************************************)
ArchiveCopy(s) ==
    LET j == job[s]
        new == IF IsFile(j.tar) THEN data[tree[j.tar]] ELSE <<>>
        old == data[j.out] IN
    /\ j.step = "copy"
    /\ IF Exists(j.tar)
       THEN /\ data' = [data EXCEPT ![j.out] = new \o SubSeq(old, Len(new) + 1, Len(old))]
            /\ Continue(s, [j EXCEPT !.step = "unlink"])
       ELSE Answer(s, "RESP_IO_ERROR") /\ UNCHANGED data
    /\ UNCHANGED <<tree, cwd, climbed>>

\* Whosever tar it is; the result of remove() is not looked at.
TarUnlink(s) ==
    /\ job[s].step = "unlink"
    /\ IF Exists(job[s].tar) /\ Below(job[s].tar) = {}
       THEN Unlink(job[s].tar) ELSE UNCHANGED <<tree, data>>
    /\ Answer(s, "RESP_COMPRESS")
    /\ UNCHANGED <<cwd, climbed>>

ZipOpen(s) ==
    /\ job[s].step = "zip open"
    /\ IF IsDir(job[s].archive)
       THEN Answer(s, "RESP_IO_ERROR")
       ELSE Continue(s, [job[s] EXCEPT !.step = "zip close"])
    /\ UNCHANGED <<tree, data, cwd, climbed>>

(***************************************************************************)
(* zip_close reads the files, writes a new archive and renames it into     *)
(* place, or fails and leaves everything; without files there is no        *)
(* archive.  Its result is not looked at.                                  *)
(***************************************************************************)
ZipClose(s) ==
    LET j == job[s] IN
    /\ j.step = "zip close" /\ Free # {}
    /\ IF j.files = <<>>
       THEN IF IsFile(j.archive) THEN Unlink(j.archive) ELSE UNCHANGED <<tree, data>>
       ELSE IF CanCreate(j.archive) /\ \A i \in DOMAIN j.files : IsFile(j.files[i])
            THEN /\ tree' = Naming(j.archive, Fresh)
                 /\ data' = [data EXCEPT ![Fresh] =
                       [i \in DOMAIN j.files |-> <<j.files[i], data[tree[j.files[i]]]>>]]
            ELSE UNCHANGED <<tree, data>>
    /\ Answer(s, "RESP_COMPRESS")
    /\ UNCHANGED <<cwd, climbed>>
-----------------------------------------------------------------------------
Ask(s) ==
    /\ ~Busy(s) /\ requests < MaxRequests
    /\ requests' = requests + 1
    /\ \/ RemovePath(s) \/ RemoveParent(s) \/ Clean(s)
       \/ MakeDirectory(s) \/ ChangeDirectory(s) \/ Move(s) \/ Copy(s) \/ Login(s)
       \/ Compress(s) \/ CompressAll(s)

Work(s) ==
    /\ Busy(s)
    /\ \/ RemoveEntry(s) \/ RemoveThrows(s) \/ RemoveTarget(s) \/ CleanNext(s)
       \/ TarOpen(s) \/ TarAdd(s) \/ ArchiveOpen(s) \/ ArchiveCopy(s) \/ TarUnlink(s)
       \/ ZipOpen(s) \/ ZipClose(s)
    /\ UNCHANGED requests

Touched == tree' # tree \/ data' # data

\* The histories, kept while a job lasts.
Remember(s) ==
    /\ overlapped' = [t \in Sessions |->
          job'[t] # Idle /\ (overlapped[t] \/ (t # s /\ Busy(t) /\ Touched))]
    /\ changed' = [t \in Sessions |-> job'[t] # Idle /\ (changed[t] \/ (t = s /\ Touched))]

Step(s) == ended = "no" /\ (Ask(s) \/ Work(s)) /\ Remember(s)

\* The process is gone, or nobody wants anything.
Rest ==
    /\ ended # "no" \/ (requests = MaxRequests /\ \A s \in Sessions : ~Busy(s))
    /\ UNCHANGED vars

Next == (\E s \in Sessions : Step(s)) \/ Rest

Spec == Init /\ [][Next]_vars
-----------------------------------------------------------------------------
Same(p) ==
    /\ p \in DOMAIN tree <=> p \in DOMAIN tree'
    /\ p \in DOMAIN tree => tree'[p] = tree[p] /\ (IsFile(p) => data'[tree[p]] = data[tree[p]])

(***************************************************************************)
(* A session changes files of its own user only, whatever paths it gives   *)
(* and whatever becomes of its current directory meanwhile (io.hpp:54,     *)
(* 104-115, 146-151).  There are two exceptions: clean, which is for that, *)
(* and rm .., which passes for a file name and empties the directory       *)
(* above, from a home that of all users.                                   *)
(***************************************************************************)
OwnFilesOnly ==
    [][\A s \in Sessions :
         last'[1] = s /\ ~climbed' /\ ~("left" \in DOMAIN job[s]) =>
            \A p \in DOMAIN tree \cup DOMAIN tree' : Head(p) # HomeOf[s] => Same(p)]_vars

(***************************************************************************)
(* RESP_COMPRESS means that the archive holds the files that were asked    *)
(* for, as they were then, and that the tar is gone; unless another        *)
(* session changed files meanwhile (two archives of one name share their   *)
(* tar), a directory was listed (zip drops the whole archive without a     *)
(* word), nothing was listed, or the name of the tar was taken: by a file  *)
(* that "*" finds, which an earlier compression left, or by a directory    *)
(* (client_controller.cpp:379-450).                                        *)
(***************************************************************************)
CompressedMeansArchived ==
    [][\A s \in Sessions :
         LET j == job[s] IN
         Busy(s) /\ last' = <<s, "RESP_COMPRESS">> /\ ~overlapped[s]
         /\ ~j.directory /\ j.files # <<>>
         /\ (j.step = "unlink" => ~Contains(j.files, j.tar) /\ ~IsDir(j.tar)) =>
            /\ j.archive \in DOMAIN tree' /\ tree'[j.archive] # Dir
            /\ data'[tree'[j.archive]] = j.listed
            /\ j.step = "unlink" => j.tar \notin DOMAIN tree']_vars

(***************************************************************************)
(* RESP_IO_ERROR means that nothing was changed, by rm in several steps    *)
(* too; clean and compress leave what they have done until then, and clean *)
(* is refused only for what another session has removed                    *)
(* (client_controller.cpp:94, 464-469).                                    *)
(***************************************************************************)
RefusedChangesNothing ==
    [][\A s \in Sessions :
         LET j == job[s] IN
         last' = <<s, "RESP_IO_ERROR">> /\ j.step # "copy" /\ j.step # "add" =>
            IF "left" \in DOMAIN j THEN overlapped[s]
            ELSE ~changed[s] /\ ~Touched]_vars

(***************************************************************************)
(* Apart from the requests that end the process by themselves (cp unless   *)
(* from a file to a free name, a directory listed for compress, "*" in a   *)
(* directory that is no more), it ends only if the jobs of two sessions    *)
(* overlap: what a handler has checked is still so when it is used.        *)
(***************************************************************************)
EndsOnlyByOverlap == ended = "race" => \E s \in Sessions : overlapped[s]
=============================================================================
