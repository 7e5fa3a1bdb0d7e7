------------------------------ MODULE FileOps ------------------------------
(***************************************************************************)
(* The daemon's file manager: FileManager::check_request_approval and      *)
(* dispatch (file_manager/mod.rs), the policy (policy.rs), the operations  *)
(* that change the namespace (fs_ops.rs) and the directory handles they    *)
(* act through on Unix (io_safe.rs).                                       *)
(*                                                                         *)
(* The file system is a graph of inodes, so that a directory handle keeps  *)
(* naming the same directory after another process moves it.  A path is a  *)
(* sequence of names below "/".  Several requests are in progress at once, *)
(* each a sequence of system calls, and another process of the host may    *)
(* put a symbolic link in the place of a directory between any two.        *)
(***************************************************************************)
EXTENDS Integers, Sequences, FiniteSets, SequencesExt

CONSTANTS
  FileRequests,  \* requests in progress
  Menu,          \* the operations a request may ask for
  Names, Inodes, InitTree,   \* the names, the inodes, and the tree at the start
  FilePath,      \* content -> the path of the file that has it at the start
  AllowDirs, DenyPaths, DangerousPaths,  \* path_allowlist, path_denylist, dangerous_paths
  SwapAt, SwapAside, SwapLink,  \* the directory the host swaps, where it puts it, the link
  MaxSwaps,      \* bound: changes made by other processes
  GlobScanCap,   \* GLOB_APPROVAL_SCAN_CAP
  MaxLinks       \* links the kernel follows in one lookup

VARIABLES
  node,    \* inode -> [kind, kids, body, to, mode, dev]
  bin,     \* inodes moved to the trash
  req,     \* request -> its operation
  stage,   \* request -> the step it is about to take
  src, dst,      \* request -> resolved source and resolved target
  fd,      \* request -> the handles it holds: parents of source and target, file read
  todo,    \* request -> what is left of a walk
  fileResult,  \* request -> the code it is answered with
  swaps,   \* changes other processes have made
  prompted    \* the requests whose approval was prompted for

fileVars == <<node, bin, req, stage, src, dst, fd, todo, fileResult, swaps, prompted>>

Root == 1
NoFd == [from |-> 0, into |-> 0, file |-> 0]

----------------------------------------------------------------------------
(* Lookups.  Walk follows at most `links` symbolic links; with none it is   *)
(* openat2(RESOLVE_NO_SYMLINKS) and the O_NOFOLLOW chain.                   *)

Failed(e) == [err |-> e, ino |-> 0, path |-> <<>>]

RECURSIVE Walk(_, _, _, _)
Walk(i, path, rest, links) ==
  IF rest = <<>> THEN [err |-> "", ino |-> i, path |-> path]
  ELSE IF node[i].kind # "dir" THEN Failed("ENOTDIR")
  ELSE LET j == node[i].kids[Head(rest)] IN
       IF j = 0 THEN Failed("ENOENT")
       ELSE IF node[j].kind # "link" THEN Walk(j, Append(path, Head(rest)), Tail(rest), links)
       ELSE IF links = 0 THEN Failed("ELOOP")
       ELSE Walk(Root, <<>>, node[j].to \o Tail(rest), links - 1)

Canonicalize(p) == Walk(Root, <<>>, p, MaxLinks)

\* tokio::fs::metadata and try_exists: the inode a path leads to, 0 when it leads nowhere.
Metadata(p) == Canonicalize(p).ino

\* tokio::fs::symlink_metadata: the last component is not followed.
SymlinkMetadata(p) ==
  LET parent == Canonicalize(Front(p)) IN
  IF parent.err # "" \/ node[parent.ino].kind # "dir" THEN 0 ELSE node[parent.ino].kids[Last(p)]

IsDir(i) == i # 0 /\ node[i].kind = "dir"
IsLink(i) == i # 0 /\ node[i].kind = "link"
Kids(i) == IF IsDir(i) THEN {n \in Names : node[i].kids[n] # 0} ELSE {}

MutOpenDir(p) == LET w == Canonicalize(p) IN IF w.err = "" /\ ~IsDir(w.ino) THEN Failed("ENOTDIR") ELSE w

\* io_safe::open_dir_no_symlinks of a path that policy has resolved.
open_dir_no_symlinks(p) ==
  LET w == Walk(Root, <<>>, p, 0) IN
  IF w.err = "" /\ ~IsDir(w.ino) THEN Failed("ENOTDIR") ELSE w

----------------------------------------------------------------------------
(* policy.rs *)

RECURSIVE canonicalize_or_parent(_)
canonicalize_or_parent(p) ==
  LET c == Canonicalize(p) IN
  IF c.err # "ENOENT" \/ p = <<>> THEN c
  ELSE LET up == canonicalize_or_parent(Front(p)) IN
       IF up.err # "" THEN up ELSE [err |-> "", ino |-> 0, path |-> Append(up.path, Last(p))]

canonicalize_no_follow(p) ==
  LET up == canonicalize_or_parent(Front(p)) IN
  IF up.err # "" THEN up ELSE [err |-> "", ino |-> 0, path |-> Append(up.path, Last(p))]

Allowed(p) == \E a \in AllowDirs : IsStrictPrefix(a, p)

\* A path that is empty, relative or contains ".." is refused before it is resolved.
check_path(q, p, nofollow) ==
  LET c == IF nofollow THEN canonicalize_no_follow(p) ELSE canonicalize_or_parent(p) IN
  IF ~q.clean \/ c.err # "" THEN [code |-> "invalid_path", path |-> <<>>, ask |-> FALSE]
  ELSE IF c.path \in DenyPaths \/ ~Allowed(c.path)
       THEN [code |-> "policy_denied", path |-> <<>>, ask |-> FALSE]
  ELSE [code |-> "ok", path |-> c.path, ask |-> c.path \in DangerousPaths]

----------------------------------------------------------------------------
(* Errors: a lookup through handles answers an ancestor that is not a       *)
(* directory as a refusal, a path-based one as an ordinary error.           *)

io_to_safe_open_error(e) ==
  CASE e \in {"ELOOP", "ENOTDIR"} -> "policy_denied"
    [] e = "ENOENT" -> "not_found"

io_safe_error(e) ==
  CASE e \in {"ELOOP", "ENOTDIR"} -> "policy_denied"
    [] e = "ENOENT" -> "not_found"
    [] e = "EEXIST" -> "already_exists"
    [] e = "EISDIR" -> "is_a_directory"
    [] OTHER -> "io"

io_to_file_error(e) ==
  CASE e = "ENOENT" -> "not_found"
    [] e = "EEXIST" -> "already_exists"
    [] e = "ENOTDIR" -> "not_a_directory"
    [] e = "EISDIR" -> "is_a_directory"
    [] e = "ENOTEMPTY" -> "not_empty"
    [] OTHER -> "io"

----------------------------------------------------------------------------
(* Changes of the file system. *)

Fresh == CHOOSE i \in Inodes : node[i].kind = "free" /\ \A j \in Inodes : node[j].kind = "free" => i <= j

Blank == [kind |-> "free", kids |-> [n \in Names |-> 0], body |-> "", to |-> <<>>, mode |-> 0, dev |-> 0]

\* A new entry named n in directory i.
Create(i, n, kind, body, to) ==
  node' = [node EXCEPT ![i].kids[n] = Fresh,
                       ![Fresh] = [Blank EXCEPT !.kind = kind, !.body = body, !.to = to, !.dev = node[i].dev]]

\* Entry n leaves directory i; a directory that is removed accepts no entry any more.
Unlinked(i, n) == [node EXCEPT ![i].kids[n] = 0,
                               ![node[i].kids[n]].kind = IF @ = "dir" THEN "removed" ELSE @]

FileFinish(r, code) ==
  /\ stage' = [stage EXCEPT ![r] = "done"]
  /\ fileResult' = [fileResult EXCEPT ![r] = code]

FileGoto(r, s) == stage' = [stage EXCEPT ![r] = s] /\ UNCHANGED fileResult

RECURSIVE Below(_)
Below(i) == {i} \cup UNION {Below(node[i].kids[n]) : n \in Kids(i)}

----------------------------------------------------------------------------
FilesInit ==
  /\ node = InitTree
  /\ bin = {}
  /\ req = [r \in FileRequests |-> CHOOSE q \in Menu : TRUE]
  /\ stage = [r \in FileRequests |-> "idle"]
  /\ src = [r \in FileRequests |-> <<>>]
  /\ dst = [r \in FileRequests |-> <<>>]
  /\ fd = [r \in FileRequests |-> NoFd]
  /\ todo = [r \in FileRequests |-> {}]
  /\ fileResult = [r \in FileRequests |-> ""]
  /\ swaps = 0
  /\ prompted = {}

Request(r) ==
  /\ stage[r] = "idle"
  /\ \E q \in Menu : req' = [req EXCEPT ![r] = q]
  /\ FileGoto(r, "preflight")
  /\ UNCHANGED <<node, bin, src, dst, fd, todo, swaps, prompted>>

\* The paths a request touches, with no_follow_symlink (collect_request_paths).
request_paths(q) ==
  CASE q.op = "symlink" -> <<<<q.path, TRUE>>, <<q.dest, TRUE>>>>
    [] q.op \in {"copy", "move"} -> <<<<q.path, FALSE>>, <<q.dest, FALSE>>>>
    [] q.op = "mkdir" -> <<<<q.path, FALSE>>>>
    [] OTHER -> <<<<q.path, q.nofollow>>>>

check_request_approval(r) ==
  LET q == req[r]
      seen == [k \in DOMAIN request_paths(q) |->
                 check_path(q, request_paths(q)[k][1], request_paths(q)[k][2])]
      hits == {k \in DOMAIN seen : seen[k].code # "ok" \/ seen[k].ask}
      first == CHOOSE k \in hits : \A j \in hits : k <= j
  IN /\ stage[r] = "preflight"
     /\ IF q.op = "delete" /\ q.permanent /\ q.recursive THEN FileGoto(r, "ask")
        ELSE IF hits = {} THEN FileGoto(r, IF q.op = "glob" THEN "scan" ELSE "dispatch")
        ELSE IF seen[first].code # "ok" THEN FileFinish(r, seen[first].code)
        ELSE FileGoto(r, "ask")
     /\ UNCHANGED <<node, bin, req, src, dst, fd, todo, swaps, prompted>>

\* The paths a glob matches in its base directory; a pattern that dispatch will refuse
\* matches none.
Matches(q) == {Append(q.path, n) : n \in IF q.clean THEN Kids(Metadata(q.path)) ELSE {}}
IsDangerous(q, p) == LET c == check_path(q, p, FALSE) IN c.code = "ok" /\ c.ask

\* glob_has_dangerous_match looks at the first GlobScanCap matches, in the order glob
\* gives them; when there are more it asks as well.
glob_has_dangerous_match(r) ==
  /\ stage[r] = "scan"
  /\ \E scanned \in SUBSET Matches(req[r]) :
       /\ Cardinality(scanned) <= GlobScanCap
       /\ scanned # Matches(req[r]) => Cardinality(scanned) = GlobScanCap
       /\ FileGoto(r, IF \/ \E p \in scanned : IsDangerous(req[r], p)
                         \/ scanned # Matches(req[r]) THEN "ask" ELSE "dispatch")
  /\ UNCHANGED <<node, bin, req, src, dst, fd, todo, swaps, prompted>>

\* The approval that handle_file_request waits for.
FileAnswer(r, approved) ==
  /\ stage[r] = "ask"
  /\ IF approved THEN FileGoto(r, "dispatch") ELSE FileFinish(r, "policy_denied")
  /\ prompted' = prompted \cup {r}
  /\ UNCHANGED <<node, bin, req, src, dst, fd, todo, swaps>>

\* dispatch: the first path is checked again, whatever the pre-check said of it.
FileDispatch(r) ==
  LET q == req[r]
      c == check_path(q, request_paths(q)[1][1], request_paths(q)[1][2])
  IN /\ stage[r] = "dispatch"
     /\ IF c.code # "ok" THEN FileFinish(r, c.code) /\ UNCHANGED <<src, dst>>
        ELSE IF q.op \in {"copy", "move"}
             THEN src' = [src EXCEPT ![r] = c.path] /\ FileGoto(r, "dispatch2") /\ UNCHANGED dst
        ELSE /\ dst' = [dst EXCEPT ![r] = c.path]
             /\ FileGoto(r, IF q.op = "symlink" THEN "dispatch2" ELSE q.op)
             /\ UNCHANGED src
     /\ UNCHANGED <<node, bin, req, fd, todo, swaps, prompted>>

\* The destination of a copy or a move, or the target a symlink will name.
DispatchSecond(r) ==
  LET q == req[r]
      c == check_path(q, request_paths(q)[2][1], request_paths(q)[2][2])
  IN /\ stage[r] = "dispatch2"
     /\ IF c.code # "ok" THEN FileFinish(r, c.code) /\ UNCHANGED dst
        ELSE IF q.op = "symlink" THEN FileGoto(r, "open_symlinkat") /\ UNCHANGED dst
        ELSE dst' = [dst EXCEPT ![r] = c.path] /\ FileGoto(r, q.op)
     /\ UNCHANGED <<node, bin, req, src, fd, todo, swaps, prompted>>

----------------------------------------------------------------------------
(* Handles: safe_open_parent_dirfd_for, for the target and, where the       *)
(* operation has one, the source.                                           *)

Acts == [open_mkdirat |-> "mkdirat", open_chmodat |-> "chmodat", open_symlinkat |-> "symlinkat",
         open_rename |-> "rename", open_copy |-> "copy_create"]

safe_open_parent_dirfd_for(r) ==
  LET two == stage[r] \in {"open_rename", "open_copy"}
      from == IF two THEN open_dir_no_symlinks(Front(src[r])) ELSE [err |-> "", ino |-> 0]
      file == IF stage[r] = "open_copy" /\ from.err = "" THEN node[from.ino].kids[Last(src[r])] ELSE 0
      into == open_dir_no_symlinks(Front(dst[r]))
  IN /\ stage[r] \in DOMAIN Acts
     /\ IF from.err # "" THEN FileFinish(r, io_to_safe_open_error(from.err)) /\ UNCHANGED fd
        ELSE IF stage[r] = "open_copy" /\ file = 0 THEN FileFinish(r, "not_found") /\ UNCHANGED fd
        ELSE IF IsLink(file) THEN FileFinish(r, "policy_denied") /\ UNCHANGED fd
        ELSE IF into.err # "" THEN FileFinish(r, io_to_safe_open_error(into.err)) /\ UNCHANGED fd
        ELSE /\ fd' = [fd EXCEPT ![r] = [from |-> from.ino, into |-> into.ino, file |-> file]]
             /\ FileGoto(r, Acts[stage[r]])
     /\ UNCHANGED <<node, bin, req, src, dst, todo, swaps, prompted>>

\* What mkdirat and symlinkat answer when the handle's directory is gone or the name taken.
AtError(r) == IF ~IsDir(fd[r].into) THEN "ENOENT"
              ELSE IF node[fd[r].into].kids[Last(dst[r])] # 0 THEN "EEXIST" ELSE ""

ToVerify(r, code) ==
  /\ stage' = [stage EXCEPT ![r] = "verify"]
  /\ fileResult' = [fileResult EXCEPT ![r] = code]

----------------------------------------------------------------------------
(* Stat, Glob, Write *)

handle_stat(r) ==
  /\ stage[r] = "stat"
  /\ FileFinish(r, IF (IF req[r].nofollow THEN SymlinkMetadata(dst[r]) ELSE Metadata(dst[r])) = 0
                   THEN "not_found" ELSE "ok")
  /\ UNCHANGED <<node, bin, req, src, dst, fd, todo, swaps, prompted>>

\* Every match is checked again; what policy refuses is left out of the answer.
handle_glob(r) ==
  /\ stage[r] = "glob"
  /\ todo' = [todo EXCEPT ![r] = {p \in {Append(dst[r], n) : n \in Kids(Metadata(dst[r]))} :
                                    check_path(req[r], p, FALSE).code = "ok"}]
  /\ FileFinish(r, "ok")
  /\ UNCHANGED <<node, bin, req, src, dst, fd, swaps, prompted>>

\* handle_write with a FullWrite: reject_if_final_component_is_symlink, then the write.
RejectLink(r) ==
  /\ stage[r] = "write"
  /\ IF req[r].nofollow /\ IsLink(SymlinkMetadata(dst[r])) THEN FileFinish(r, "invalid_path")
     ELSE FileGoto(r, "write_file")
  /\ UNCHANGED <<node, bin, req, src, dst, fd, todo, swaps, prompted>>

\* tokio::fs::write by path: the file is made or truncated, and its last link followed.
handle_full_write(r) ==
  LET i == Metadata(dst[r])
      up == Canonicalize(Front(dst[r])).ino
  IN /\ stage[r] = "write_file"
     /\ IF IsDir(i) THEN FileFinish(r, io_to_file_error("EISDIR")) /\ UNCHANGED node
        ELSE IF i # 0 THEN node' = [node EXCEPT ![i].body = "W"] /\ ToVerify(r, "ok")
        ELSE IF ~IsDir(up) \/ node[up].kids[Last(dst[r])] # 0
             THEN FileFinish(r, io_to_file_error("ENOENT")) /\ UNCHANGED node
        ELSE Create(up, Last(dst[r]), "file", "W", <<>>) /\ ToVerify(r, "ok")
     /\ UNCHANGED <<bin, req, src, dst, fd, todo, swaps, prompted>>

----------------------------------------------------------------------------
(* Mkdir *)

handle_mkdir(r) ==
  /\ stage[r] = "mkdir"
  /\ IF Metadata(dst[r]) = 0
     THEN IF req[r].recursive
          THEN FileGoto(r, "mkdirp") /\ fd' = [fd EXCEPT ![r] = [NoFd EXCEPT !.into = Root]]
          ELSE FileGoto(r, "open_mkdirat") /\ UNCHANGED fd
     ELSE /\ IF IsDir(SymlinkMetadata(dst[r])) THEN ToVerify(r, "already_existed")
             ELSE FileFinish(r, "already_exists")
          /\ UNCHANGED fd
  /\ UNCHANGED <<node, bin, req, src, dst, todo, swaps, prompted>>

\* Where a made directory goes next: an explicit mode is set through a fresh handle.
AfterMkdir(r) == IF req[r].mode # 0 THEN FileGoto(r, "open_chmodat") ELSE ToVerify(r, "ok")

mkdirat(r) ==
  /\ stage[r] = "mkdirat"
  /\ IF AtError(r) # "" THEN FileFinish(r, io_safe_error(AtError(r))) /\ UNCHANGED node
     ELSE Create(fd[r].into, Last(dst[r]), "dir", "", <<>>) /\ AfterMkdir(r)
  /\ UNCHANGED <<bin, req, src, dst, fd, todo, swaps, prompted>>

\* safe_mkdirp: one component per step; fd.file counts the components walked.
MkdirpName(r) == dst[r][fd[r].file + 1]
MkdirpNext(r, i) ==
  /\ fd' = [fd EXCEPT ![r].into = i, ![r].file = @ + 1]
  /\ IF fd[r].file + 1 < Len(dst[r]) THEN FileGoto(r, "mkdirp")
     ELSE IF req[r].op = "mkdir" THEN AfterMkdir(r)
     ELSE FileGoto(r, "read_dir")

safe_mkdirp(r) ==
  LET i == node[fd[r].into].kids[MkdirpName(r)] IN
  /\ stage[r] = "mkdirp"
  /\ IF i = 0 THEN FileGoto(r, "mkdirp_make") /\ UNCHANGED fd
     ELSE IF IsDir(i) THEN MkdirpNext(r, i)
     ELSE FileFinish(r, io_safe_error("ELOOP")) /\ UNCHANGED fd
  /\ UNCHANGED <<node, bin, req, src, dst, todo, swaps, prompted>>

\* mkdirat and the open after it; EEXIST means that somebody else made it.
MkdirpMake(r) ==
  LET i == node[fd[r].into].kids[MkdirpName(r)] IN
  /\ stage[r] = "mkdirp_make"
  /\ IF ~IsDir(fd[r].into) THEN FileFinish(r, io_safe_error("ENOENT")) /\ UNCHANGED <<node, fd>>
     ELSE IF i = 0 THEN Create(fd[r].into, MkdirpName(r), "dir", "", <<>>) /\ MkdirpNext(r, Fresh)
     ELSE /\ UNCHANGED node
          /\ IF IsDir(i) THEN MkdirpNext(r, i)
             ELSE FileFinish(r, io_safe_error("ELOOP")) /\ UNCHANGED fd
  /\ UNCHANGED <<bin, req, src, dst, todo, swaps, prompted>>

----------------------------------------------------------------------------
(* Delete *)

handle_delete(r) ==
  LET q == req[r]
      i == IF q.nofollow THEN SymlinkMetadata(dst[r]) ELSE Metadata(dst[r])
  IN /\ stage[r] = "delete"
     /\ IF i = 0 THEN FileFinish(r, "not_found")
        ELSE IF IsDir(i) /\ ~q.recursive /\ Kids(i) # {} THEN FileFinish(r, "not_empty")
        ELSE FileGoto(r, IF ~q.permanent THEN "trash"
                     ELSE IF ~IsDir(i) THEN "unlink"
                     ELSE IF q.recursive THEN "rmtree_start" ELSE "rmdir")
     /\ UNCHANGED <<node, bin, req, src, dst, fd, todo, swaps, prompted>>

\* trash::delete takes whatever is at the path with all that is below it.
Trash(r) ==
  LET i == SymlinkMetadata(dst[r]) IN
  /\ stage[r] = "trash"
  /\ IF i = 0 THEN FileFinish(r, "io") /\ UNCHANGED <<node, bin>>
     ELSE /\ node' = [node EXCEPT ![Canonicalize(Front(dst[r])).ino].kids[Last(dst[r])] = 0]
          /\ bin' = bin \cup {i}
          /\ FileFinish(r, "ok")
  /\ UNCHANGED <<req, src, dst, fd, todo, swaps, prompted>>

\* What is removed: the target of a delete, the source of a finished move.
Victim(r) == IF req[r].op = "move" THEN src[r] ELSE dst[r]
Removed(r) == IF req[r].op = "move" THEN ToVerify(r, "ok") ELSE FileFinish(r, "ok")

remove_file(r) ==
  LET i == SymlinkMetadata(Victim(r)) IN
  /\ stage[r] = "unlink"
  /\ IF i = 0 \/ IsDir(i)
     THEN FileFinish(r, io_to_file_error(IF i = 0 THEN "ENOENT" ELSE "EISDIR")) /\ UNCHANGED node
     ELSE node' = Unlinked(Canonicalize(Front(Victim(r))).ino, Last(Victim(r))) /\ Removed(r)
  /\ UNCHANGED <<bin, req, src, dst, fd, todo, swaps, prompted>>

remove_dir(r) ==
  LET i == SymlinkMetadata(dst[r]) IN
  /\ stage[r] = "rmdir"
  /\ IF ~IsDir(i) \/ Kids(i) # {}
     THEN /\ FileFinish(r, io_to_file_error(IF i = 0 THEN "ENOENT"
                                        ELSE IF ~IsDir(i) THEN "ENOTDIR" ELSE "ENOTEMPTY"))
          /\ UNCHANGED node
     ELSE node' = Unlinked(Canonicalize(Front(dst[r])).ino, Last(dst[r])) /\ FileFinish(r, "ok")
  /\ UNCHANGED <<bin, req, src, dst, fd, todo, swaps, prompted>>

\* remove_dir_all reads the tree, then removes what it read, children first.
RemoveTreeStart(r) ==
  LET i == SymlinkMetadata(Victim(r)) IN
  /\ stage[r] = "rmtree_start"
  /\ IF ~IsDir(i)
     THEN FileFinish(r, io_to_file_error(IF i = 0 THEN "ENOENT" ELSE "ENOTDIR")) /\ UNCHANGED todo
     ELSE todo' = [todo EXCEPT ![r] = Below(i)] /\ FileGoto(r, "rmtree")
  /\ UNCHANGED <<node, bin, req, src, dst, fd, swaps, prompted>>

RemoveTree(r, i) ==
  LET left == {node[i].kids[n] : n \in Kids(i)}
      up == {e \in Inodes \X Names : node[e[1]].kids[e[2]] = i}
  IN /\ stage[r] = "rmtree" /\ i \in todo[r] /\ left \cap todo[r] = {}
     /\ IF left # {} THEN FileFinish(r, io_to_file_error("ENOTEMPTY")) /\ UNCHANGED <<node, todo>>
        ELSE /\ todo' = [todo EXCEPT ![r] = @ \ {i}]
             /\ node' = IF up = {} THEN node ELSE LET e == CHOOSE e \in up : TRUE IN Unlinked(e[1], e[2])
             /\ IF todo[r] = {i} THEN Removed(r) ELSE UNCHANGED <<stage, fileResult>>
     /\ UNCHANGED <<bin, req, src, dst, fd, swaps, prompted>>

----------------------------------------------------------------------------
(* Copy, and the copy half of a move across devices. *)

handle_copy(r) ==
  LET i == SymlinkMetadata(src[r]) IN
  /\ stage[r] = "copy"
  /\ IF i = 0 THEN FileFinish(r, "not_found") /\ UNCHANGED fd
     ELSE IF Metadata(dst[r]) # 0 /\ ~req[r].overwrite THEN FileFinish(r, "already_exists") /\ UNCHANGED fd
     ELSE IF ~IsDir(i) THEN FileGoto(r, "open_copy") /\ UNCHANGED fd
     ELSE IF ~(req[r].recursive \/ req[r].op = "move") THEN FileFinish(r, "is_a_directory") /\ UNCHANGED fd
     ELSE FileGoto(r, "mkdirp") /\ fd' = [fd EXCEPT ![r] = [NoFd EXCEPT !.into = Root]]
  /\ UNCHANGED <<node, bin, req, src, dst, todo, swaps, prompted>>

\* openat_create_write: O_EXCL without overwrite, O_TRUNC with it, never through a link.
copy_single_file(r) ==
  LET i == node[fd[r].into].kids[Last(dst[r])] IN
  /\ stage[r] = "copy_create"
  /\ IF ~IsDir(fd[r].into) THEN FileFinish(r, io_safe_error("ENOENT")) /\ UNCHANGED <<node, fd>>
     ELSE IF i = 0
     THEN /\ Create(fd[r].into, Last(dst[r]), "file", "", <<>>)
          /\ fd' = [fd EXCEPT ![r].into = Fresh]
          /\ FileGoto(r, "copy_bytes")
     ELSE IF ~req[r].overwrite \/ node[i].kind # "file"
          THEN /\ FileFinish(r, io_safe_error(IF ~req[r].overwrite THEN "EEXIST"
                                          ELSE IF IsLink(i) THEN "ELOOP" ELSE "EISDIR"))
               /\ UNCHANGED <<node, fd>>
     ELSE /\ node' = [node EXCEPT ![i].body = ""]
          /\ fd' = [fd EXCEPT ![r].into = i]
          /\ FileGoto(r, "copy_bytes")
  /\ UNCHANGED <<bin, req, src, dst, todo, swaps, prompted>>

Copied(r) ==
  IF req[r].op = "copy" THEN ToVerify(r, "ok")
  ELSE FileGoto(r, IF IsDir(SymlinkMetadata(src[r])) THEN "rmtree_start" ELSE "unlink")

MutCopyBytes(r) ==
  /\ stage[r] = "copy_bytes"
  /\ node' \in {node, [node EXCEPT ![fd[r].into].body = node[fd[r].file].body]}
  /\ Copied(r)
  /\ UNCHANGED <<bin, req, src, dst, fd, todo, swaps, prompted>>

\* std::io::copy between the two open files; it may fail half way.
CopyBytes(r) ==
  /\ stage[r] = "copy_bytes"
  /\ \/ /\ node[fd[r].file].kind = "file"
        /\ node' = [node EXCEPT ![fd[r].into].body = node[fd[r].file].body]
        /\ Copied(r)
     \/ UNCHANGED node /\ FileFinish(r, "io")
  /\ UNCHANGED <<bin, req, src, dst, fd, todo, swaps, prompted>>

\* copy_dir_sync: what is left to copy, as pairs of paths.
Entries(from, to) == {<<Append(from, n), Append(to, n)>> : n \in Kids(Metadata(from))}

ReadDir(r) ==
  /\ stage[r] = "read_dir"
  /\ IF ~IsDir(Metadata(src[r]))
     THEN /\ FileFinish(r, io_to_file_error(IF Metadata(src[r]) = 0 THEN "ENOENT" ELSE "ENOTDIR"))
          /\ UNCHANGED todo
     ELSE todo' = [todo EXCEPT ![r] = Entries(src[r], dst[r])] /\ FileGoto(r, "copytree")
  /\ UNCHANGED <<node, bin, req, src, dst, fd, swaps, prompted>>

copy_dir_sync(r, e) ==
  LET i == SymlinkMetadata(e[1])
      up == Canonicalize(Front(e[2])).ino
      j == IF i # 0 /\ node[i].kind = "file" THEN Metadata(e[2]) ELSE SymlinkMetadata(e[2])
      more == IF IsDir(i) THEN Entries(e[1], e[2]) ELSE {}
  IN /\ stage[r] = "copytree" /\ e \in todo[r]
     /\ IF i = 0 \/ ~IsDir(up) \/ (j # 0 /\ node[j].kind # node[i].kind) \/ (IsLink(i) /\ j # 0)
        THEN /\ FileFinish(r, io_to_file_error(IF i = 0 \/ ~IsDir(up) THEN "ENOENT"
                                           ELSE IF node[i].kind = "file" THEN "EISDIR" ELSE "EEXIST"))
             /\ UNCHANGED <<node, todo>>
        ELSE /\ IF j = 0 THEN Create(up, Last(e[2]), node[i].kind, node[i].body, node[i].to)
                ELSE node' = [node EXCEPT ![j].body = node[i].body]
             /\ todo' = [todo EXCEPT ![r] = (@ \ {e}) \cup more]
             /\ UNCHANGED <<stage, fileResult>>
     /\ UNCHANGED <<bin, req, src, dst, fd, swaps, prompted>>

CopiedTree(r) ==
  /\ stage[r] = "copytree" /\ todo[r] = {}
  /\ Copied(r)
  /\ UNCHANGED <<node, bin, req, src, dst, fd, todo, swaps, prompted>>

----------------------------------------------------------------------------
(* Move, CreateSymlink, Chmod *)

handle_move(r) ==
  /\ stage[r] = "move"
  /\ IF Metadata(dst[r]) # 0 /\ ~req[r].overwrite THEN FileFinish(r, "already_exists")
     ELSE FileGoto(r, "open_rename")
  /\ UNCHANGED <<node, bin, req, src, dst, fd, todo, swaps, prompted>>

\* renameat; across devices the move becomes a copy and a removal.
rename_safely(r) ==
  LET from == fd[r].from   into == fd[r].into
      i == node[from].kids[Last(src[r])]
      j == node[into].kids[Last(dst[r])]
      err == IF i = 0 \/ ~IsDir(into) THEN "ENOENT"
             ELSE IF j = i THEN ""
             ELSE IF IsDir(i) /\ into \in Below(i) THEN "EINVAL"
             ELSE IF IsDir(i) /\ j # 0 /\ ~IsDir(j) THEN "ENOTDIR"
             ELSE IF IsDir(i) /\ Kids(j) # {} THEN "ENOTEMPTY"
             ELSE IF ~IsDir(i) /\ IsDir(j) THEN "EISDIR" ELSE ""
  IN /\ stage[r] = "rename"
     /\ IF i # 0 /\ IsDir(into) /\ node[from].dev # node[into].dev THEN FileGoto(r, "copy") /\ UNCHANGED node
        ELSE IF err # "" THEN FileFinish(r, io_to_file_error(err)) /\ UNCHANGED node
        ELSE /\ node' = IF i = j THEN node
                        ELSE [node EXCEPT ![from].kids[Last(src[r])] = 0, ![into].kids[Last(dst[r])] = i]
             /\ ToVerify(r, "ok")
     /\ UNCHANGED <<bin, req, src, dst, fd, todo, swaps, prompted>>

handle_create_symlink(r) ==
  /\ stage[r] = "symlinkat"
  /\ IF AtError(r) # "" THEN FileFinish(r, io_safe_error(AtError(r))) /\ UNCHANGED node
     ELSE Create(fd[r].into, Last(dst[r]), "link", "", req[r].dest) /\ ToVerify(r, "ok")
  /\ UNCHANGED <<bin, req, src, dst, fd, todo, swaps, prompted>>

handle_chmod(r) ==
  /\ stage[r] = "chmod"
  /\ IF req[r].nofollow /\ IsLink(SymlinkMetadata(dst[r])) THEN FileFinish(r, "invalid_path")
     ELSE FileGoto(r, "open_chmodat")
  /\ UNCHANGED <<node, bin, req, src, dst, fd, todo, swaps, prompted>>

\* fchmodat on the leaf, then the walk below it.
set_unix_mode(r) ==
  LET leaf == node[fd[r].into].kids[Last(dst[r])]
      i == IF IsLink(leaf) THEN Metadata(node[leaf].to) ELSE leaf
      below == SymlinkMetadata(dst[r])
  IN /\ stage[r] = "chmodat"
     /\ IF i = 0 THEN FileFinish(r, "not_found") /\ UNCHANGED <<node, todo>>
        ELSE /\ node' = [node EXCEPT ![i].mode = req[r].mode]
             /\ IF req[r].op = "mkdir" THEN ToVerify(r, "ok") /\ UNCHANGED todo
                ELSE IF ~req[r].recursive THEN FileFinish(r, "ok") /\ UNCHANGED todo
                ELSE IF below = 0 THEN FileFinish(r, "not_found") /\ UNCHANGED todo
                ELSE /\ todo' = [todo EXCEPT ![r] = {Append(dst[r], n) : n \in Kids(below)}]
                     /\ FileGoto(r, "chmodtree")
     /\ UNCHANGED <<bin, req, src, dst, fd, swaps, prompted>>

set_unix_mode_recursive(r) ==
  /\ stage[r] = "chmodtree"
  /\ \/ todo[r] = {} /\ FileFinish(r, "ok") /\ UNCHANGED <<node, todo>>
     \/ \E p \in todo[r] :
          LET i == SymlinkMetadata(p) IN
          IF i = 0 THEN FileFinish(r, "not_found") /\ UNCHANGED <<node, todo>>
          ELSE /\ todo' = [todo EXCEPT ![r] = (@ \ {p}) \cup {Append(p, n) : n \in Kids(i)}]
               /\ node' = IF IsLink(i) THEN node ELSE [node EXCEPT ![i].mode = req[r].mode]
               /\ UNCHANGED <<stage, fileResult>>
  /\ UNCHANGED <<bin, req, src, dst, fd, swaps, prompted>>

----------------------------------------------------------------------------
(* verify_post_create: the target is checked again; what landed on a path   *)
(* that is no longer allowed is removed, except what was moved there.       *)
verify_post_create(r) ==
  LET c == check_path([clean |-> TRUE], dst[r], FALSE)
      i == SymlinkMetadata(dst[r])
      up == Canonicalize(Front(dst[r])).ino
      removes == \/ req[r].op = "copy" /\ i # 0
                 \/ req[r].op \in {"mkdir", "symlink", "write"} /\ i # 0 /\ Kids(i) = {}
  IN /\ stage[r] = "verify"
     /\ IF c.code = "ok" THEN FileFinish(r, fileResult[r]) /\ UNCHANGED node
        ELSE /\ FileFinish(r, c.code)
             /\ node' = IF removes THEN Unlinked(up, Last(dst[r])) ELSE node
     /\ UNCHANGED <<bin, req, src, dst, fd, todo, swaps, prompted>>

\* Another process moves a directory aside and puts a link in its place.
HostSwaps ==
  LET up == Walk(Root, <<>>, Front(SwapAt), 0).ino
      a == Last(SwapAt)   b == Last(SwapAside)
  IN /\ swaps < MaxSwaps /\ swaps' = swaps + 1
     /\ IsDir(node[up].kids[a]) /\ node[up].kids[b] = 0
     /\ node' = [node EXCEPT ![up].kids[b] = node[up].kids[a], ![up].kids[a] = SwapLink]
     /\ UNCHANGED <<bin, req, stage, src, dst, fd, todo, fileResult, prompted>>

FileStep(r) ==
  \/ Request(r) \/ check_request_approval(r) \/ glob_has_dangerous_match(r)
  \/ handle_stat(r) \/ handle_glob(r) \/ RejectLink(r) \/ handle_full_write(r)
  \/ FileAnswer(r, TRUE) \/ FileAnswer(r, FALSE)
  \/ FileDispatch(r) \/ DispatchSecond(r) \/ safe_open_parent_dirfd_for(r)
  \/ handle_mkdir(r) \/ mkdirat(r) \/ safe_mkdirp(r) \/ MkdirpMake(r)
  \/ handle_delete(r) \/ Trash(r) \/ remove_file(r) \/ remove_dir(r)
  \/ RemoveTreeStart(r) \/ (\E i \in Inodes : RemoveTree(r, i))
  \/ handle_copy(r) \/ copy_single_file(r) \/ CopyBytes(r)
  \/ ReadDir(r) \/ (\E e \in todo[r] : copy_dir_sync(r, e)) \/ CopiedTree(r)
  \/ handle_move(r) \/ rename_safely(r) \/ handle_create_symlink(r)
  \/ handle_chmod(r) \/ set_unix_mode(r) \/ set_unix_mode_recursive(r)
  \/ verify_post_create(r)

\* Every request has been answered.
FilesDone == (\A r \in FileRequests : stage[r] = "done") /\ UNCHANGED fileVars

FilesNext == HostSwaps \/ FilesDone \/ \E r \in FileRequests : FileStep(r)

FilesSpec == FilesInit /\ [][FilesNext]_fileVars

----------------------------------------------------------------------------
Codes == {"ok", "already_existed", "already_exists", "invalid_path", "policy_denied", "not_found",
          "not_a_directory", "is_a_directory", "not_empty", "io"}

Links == UNION {{i} \X Kids(i) : i \in Inodes}

\* Every answer is one of the protocol's codes, every entry names an inode that is in
\* use, and no inode has two names: Create, renameat and the removals keep a tree.
FilesTypeOK ==
  /\ \A r \in FileRequests : stage[r] = "done" <=> fileResult[r] \in Codes /\ stage[r] # "verify"
  /\ \A i \in Inodes : \A n \in Kids(i) : node[node[i].kids[n]].kind # "free"
  /\ Cardinality(Links) = Cardinality({node[e[1]].kids[e[2]] : e \in Links})

Started(r) == stage[r] \notin {"idle", "preflight", "scan", "ask", "dispatch"}
\* Another request writes to the same destination, or into the directory being moved.
InTheWay(r) == \E q \in FileRequests \ {r} :
  Started(q) /\ (req[q].dest = req[r].dest \/ IsStrictPrefix(req[r].path, req[q].dest))

\* The operations that are allowed to end the life of a file's content.
MayReplace(r) ==
  /\ Started(r)
  /\ \/ req[r].op = "delete" /\ (req[r].recursive \/ req[r].path \in {FilePath[b] : b \in DOMAIN FilePath})
     \/ req[r].overwrite \/ req[r].op = "write"
     \/ req[r].op = "move" /\ InTheWay(r)

\* A file's content never disappears from the tree or the trash unless a request was
\* told to delete that file, to delete recursively or to overwrite: a move across
\* devices removes its source only after the copy succeeded, a failed or refused move
\* leaves the data where it is (PostCreateCleanup::Leave), and a non-recursive delete
\* takes no directory that gained an entry after it was found empty.  Two cases are
\* left out because the code does not exclude them: two moves to one destination may
\* replace each other (handle_move looks before it renames), and what enters a directory
\* after it was copied to another device is removed with it (cross_device_move_fallback).
ContentSurvives ==
  (\A r \in FileRequests : ~MayReplace(r)) =>
    \A b \in DOMAIN FilePath :
      \E i \in Below(Root) \cup UNION {Below(j) : j \in bin} : node[i].body = b

\* Two copies to one destination without overwrite do not both succeed, however their
\* existence checks interleave: the file is created with O_EXCL (copy_single_file).
CopyNeverClobbers ==
  \A r, q \in FileRequests :
    /\ r # q /\ req[r].op = "copy" /\ req[q].op = "copy" /\ req[r].dest = req[q].dest
    /\ ~req[r].recursive /\ ~req[q].recursive /\ ~req[r].overwrite /\ ~req[q].overwrite
    => ~(fileResult[r] = "ok" /\ fileResult[q] = "ok")

\* Concurrent recursive mkdirs of paths that share components all succeed: a component
\* that appears between the open and the mkdirat is entered, not an error (safe_mkdirp).
MkdirpConcurrent ==
  (\A r \in FileRequests : stage[r] # "idle" => req[r].op = "mkdir" /\ req[r].recursive /\ req[r].clean)
  /\ swaps = 0
    => \A r \in FileRequests : stage[r] = "done" => fileResult[r] \in {"ok", "already_existed"}

\* A glob never lists a dangerous path without having prompted: when its matches exceed
\* the scan's cap it asks although no dangerous one was seen (glob_has_dangerous_match).
\* Only a path that came to be dangerous or to exist after the scan may slip in.
GlobAsksFirst ==
  \A r \in FileRequests :
    /\ stage[r] = "done" /\ req[r].op = "glob" /\ r \notin prompted
    /\ swaps = 0 /\ \A q \in FileRequests \ {r} : ~Started(q)
    => \A p \in todo[r] : ~IsDangerous(req[r], p)

\* Mkdir, a single-file copy, a rename, a symlink and a single chmod change nothing
\* outside the allowed directories even when an ancestor of their path turns into a link
\* after it was checked: they act on directories opened without following links
\* (safe_open_parent_dirfd_for).  The path-based steps are the walks, the removals and
\* the clean-up; a chmod follows its own leaf (fchmodat), so that case is left out too.
PathBased == {"write_file", "unlink", "rmdir", "rmtree", "trash", "copytree", "chmodtree", "verify"}
Outside == Below(Root) \ UNION {Below(Walk(Root, <<>>, a, 0).ino) : a \in AllowDirs}
HandlesStayInside ==
  [][\/ node' = node \/ swaps' # swaps
     \/ \E r \in FileRequests : /\ <<stage[r], todo[r]>>' # <<stage[r], todo[r]>>
                                /\ stage[r] \in PathBased \/ (stage[r] = "chmodat" /\ dst[r] = SwapAt)
     \/ \A i \in Outside : node'[i] = node[i]]_fileVars

\* What the file operations promise of the tree and of each other, however their system
\* calls interleave: a well-formed tree, no content lost, no copy over another, no mkdir
\* failing on a twin, no dangerous listing unasked, and nothing changed outside.
OperationsSafe ==
  /\ [](FilesTypeOK /\ ContentSurvives /\ CopyNeverClobbers /\ MkdirpConcurrent /\ GlobAsksFirst)
  /\ HandlesStayInside

=============================================================================
