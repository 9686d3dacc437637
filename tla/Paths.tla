------------------------------- MODULE Paths -------------------------------
(***************************************************************************)
(* fs/path.c and the lookup of fs/mount.c: a path is made absolute, its    *)
(* dots and symbolic links are resolved as text, and each prefix is sent   *)
(* to the file system mounted on the longest mount point above it.  The    *)
(* reference is the walk POSIX describes, which goes from directory to     *)
(* directory.  A normalized path is a sequence of names; a raw one has the *)
(* components as written, "." and ".." among them.                         *)
(***************************************************************************)
EXTENDS Naturals, Sequences, SequencesExt

CONSTANTS
  MountCalls,   \* the mount points in the order of the do_mount calls
  Trees,        \* call number -> the nodes of its file system, by path
  MaxPath,      \* MAX_PATH - 1, counted in components (bound)
  MaxLevels     \* symbolic links that are followed before ELOOP (5)

RawPath(abs, comps, slash) == [abs |-> abs, comps |-> comps, slash |-> slash]

-----------------------------------------------------------------------------
MountsNewestLast(list, mount) ==
  LET longer == {i \in DOMAIN list : \A j \in 1..i : Len(list[j].point) >= Len(mount.point)}
  IN  InsertAt(list, Cardinality(longer) + 1, mount)

\* do_mount: the list stays in descending order of the length of the point, the
\* newest first among equals.
AddMount(list, mount) ==
  LET longer == {i \in DOMAIN list : \A j \in 1..i : Len(list[j].point) > Len(mount.point)}
  IN  InsertAt(list, Cardinality(longer) + 1, mount)

Mounts == FoldLeftDomain(LAMBDA list, i : AddMount(list, [point |-> MountCalls[i], fs |-> i]),
                         <<>>, MountCalls)

\* mount_find: the first mount whose point is the path or a directory above it.
MountFind(path) ==
  Mounts[CHOOSE i \in DOMAIN Mounts :
           /\ IsPrefix(Mounts[i].point, path)
           /\ \A j \in 1..(i - 1) : ~IsPrefix(Mounts[j].point, path)]

\* find_mount_and_trim_path, and what the file system has there: a directory,
\* which may be searched or not, a file, a link, or nothing.
Node(path) ==
  LET mount == MountFind(path)
      trimmed == SubSeq(path, Len(mount.point) + 1, Len(path))
      tree == Trees[mount.fs]
  IN  IF trimmed \in DOMAIN tree THEN tree[trimmed] ELSE [kind |-> "absent"]

-----------------------------------------------------------------------------
\* The part after a component is looked at: rest is what p points to once the
\* slashes are eaten, slash whether there were any.
SlashIsChecked(node) ==
  IF node.kind = "absent" THEN "ok"
  ELSE IF node.kind # "dir" THEN "ENOTDIR"
  ELSE IF ~node.search THEN "EACCES" ELSE "ok"

\* __path_normalize.  The result is a path or an error.  A link starts over from
\* the root with its target in the place of the component: relative ones after
\* what was resolved so far.  The slash at the end of the path is lost with it.
RECURSIVE NormalizeLoop(_, _, _, _, _)
NormalizeLoop(out, comps, slash, follow, levels) ==
  IF comps = <<>> THEN [err |-> "ok", path |-> out]
  ELSE LET name == Head(comps)
           rest == Tail(comps)
           o    == Append(out, name)
           node == Node(o)
       IN CASE name = "." -> NormalizeLoop(out, rest, slash, follow, levels)
            [] name = ".." -> NormalizeLoop(IF out = <<>> THEN out ELSE Front(out),
                                            rest, slash, follow, levels)
            [] OTHER ->
                 IF Len(o) > MaxPath THEN [err |-> "ENAMETOOLONG"]
                 ELSE IF ~(follow \/ rest # <<>>)
                   THEN NormalizeLoop(o, rest, slash, follow, levels)
                 ELSE IF node.kind = "link"
                   THEN IF levels >= MaxLevels THEN [err |-> "ELOOP"]
                        ELSE NormalizeLoop(<<>>,
                               (IF node.target.abs THEN <<>> ELSE out) \o node.target.comps \o rest,
                               IF rest = <<>> THEN node.target.slash ELSE slash,
                               follow, levels + 1)
                 ELSE IF (rest # <<>> \/ slash) /\ SlashIsChecked(node) # "ok"
                   THEN [err |-> SlashIsChecked(node)]
                 ELSE NormalizeLoop(o, rest, slash, follow, levels)

\* path_normalize: an absolute path starts at the root of the process, a relative
\* one at its working directory or at the directory that is given.
PathNormalize(root, at, raw, follow) ==
  IF raw.comps = <<>> /\ ~raw.abs THEN [err |-> "ENOENT"]
  ELSE NormalizeLoop(IF raw.abs THEN root ELSE at, raw.comps, raw.slash, follow, 0)

-----------------------------------------------------------------------------
\* Reference: what is mounted on a path is the newest of the mounts deepest on it.
TopMount(path) ==
  CHOOSE i \in DOMAIN MountCalls :
    /\ IsPrefix(MountCalls[i], path)
    /\ \A j \in DOMAIN MountCalls : IsPrefix(MountCalls[j], path) =>
         \/ Len(MountCalls[j]) < Len(MountCalls[i])
         \/ MountCalls[j] = MountCalls[i] /\ j <= i
WalkNode(path) ==
  LET i == TopMount(path)
      trimmed == SubSeq(path, Len(MountCalls[i]) + 1, Len(path))
  IN  IF trimmed \in DOMAIN Trees[i] THEN Trees[i][trimmed] ELSE [kind |-> "absent"]

\* The reference.  The walk is in a directory; a name must be there to go on, a
\* link is walked in the place of its name, and what is followed by a slash must
\* be a directory.
RECURSIVE WalkLoop(_, _, _, _, _)
WalkLoop(dir, comps, slash, follow, links) ==
  IF comps = <<>> THEN [err |-> "ok", path |-> dir]
  ELSE LET name == Head(comps)
           rest == Tail(comps)
           here == Append(dir, name)
           node == WalkNode(here)
           last == rest = <<>> /\ ~slash
       IN CASE name = "." -> WalkLoop(dir, rest, slash, follow, links)
            [] name = ".." -> WalkLoop(IF dir = <<>> THEN dir ELSE Front(dir), rest, slash, follow, links)
            [] OTHER ->
                 CASE node.kind = "link" /\ (~last \/ follow) ->
                        IF links = 0 THEN [err |-> "ELOOP"]
                        ELSE WalkLoop(IF node.target.abs THEN <<>> ELSE dir,
                                      node.target.comps \o rest, slash \/ (rest = <<>> /\ node.target.slash),
                                      follow, links - 1)
                   [] rest = <<>> /\ node.kind = "absent" -> [err |-> "ok", path |-> here]
                   [] node.kind = "absent" -> [err |-> "ENOENT"]
                   [] ~last /\ node.kind # "dir" -> [err |-> "ENOTDIR"]
                   [] ~last /\ ~node.search -> [err |-> "EACCES"]
                   [] OTHER -> WalkLoop(here, rest, slash, follow, links)

\* What a system call makes of a path: the name of a file, a name that can be
\* created, or an error.
Outcome(result) ==
  IF result.err = "ok" /\ Len(result.path) > 1
       /\ \E i \in 1..(Len(result.path) - 1) : Node(SubSeq(result.path, 1, i)).kind # "dir"
  THEN [err |-> "ENOENT"] ELSE result

\* Where the text and the walk are known to differ: dots are allowed after a name
\* that does not exist, and the slash after a last link, or after a last component whose
\* link is not followed, is not looked at.
DotsAfterMissing(raw, walk) == walk.err = "ENOENT" /\ Range(raw.comps) \cap {".", ".."} # {}
LinkBeforeSlash(at, raw, follow) ==
  raw.slash /\ LET last == PathNormalize(<<>>, at, [raw EXCEPT !.slash = FALSE], FALSE)
               IN  ~follow \/ (last.err = "ok" /\ Node(last.path).kind = "link")

\* PathExact: path_normalize finds the file the walk finds, through the same
\* links and mounts, and fails with the walk's error where the walk fails.
PathExact(at, raw, follow) ==
  LET walk == WalkLoop(IF raw.abs THEN <<>> ELSE at, raw.comps, raw.slash, follow, MaxLevels)
  IN  raw.comps # <<>> =>
        \/ DotsAfterMissing(raw, walk)
        \/ LinkBeforeSlash(at, raw, follow)
        \/ Outcome(PathNormalize(<<>>, at, raw, follow)) = walk
=============================================================================
