----------------------------- MODULE Diskspace ------------------------------
(***************************************************************************)
(* The disk space checks of lib/libkuzpkg/diskspace.c, before a download   *)
(* and before a commit.  v is a world: mounts (the mount points: [dir,     *)
(* bsize, blocks, avail, ro, loads], loads if statvfs() works), dbpath,    *)
(* size (of the regular files in the packages to install; a name that      *)
(* begins with "." is metadata), stat (of the regular files on disk), add  *)
(* and remove (the packages: [name, files, isold, oldfiles]), cache (the   *)
(* cache directory) and fetch (the sizes of the files to download).        *)
(* A path is a string as in Strings; the root is "/".                      *)
(***************************************************************************)
EXTENDS Strings, Functions

\* The two numbers in "roughly min(5% capacity, 20MiB)".
CONSTANTS Share, Megabytes
ASSUME CushionAssumption == Share > 0 /\ Megabytes > 0

Path(f) == <<"/">> \o f

\* A mount point is the place of a path if it is a prefix that ends at a component.
Within(dir, path) ==
  StartsWith(path, dir) /\ (dir[Len(dir)] = "/" \/ Len(path) = Len(dir) \/ path[Len(dir) + 1] = "/")

\* mount_point_list() sorts a mount point before its parent; match_mount_point() takes the
\* first that fits.
SortedFirst(M) == CHOOSE m \in M : \A n \in M : strcmp(n.dir, m.dir) <= 0
match_mount_point(v, path) == SortedFirst({m \in v.mounts : Within(m.dir, path)})

Blocks(size, m) == (size + m.bsize - 1) \div m.bsize

On(v, m, path) == match_mount_point(v, path) = m
TotalOf(S, f(_)) == FoldFunction(+, 0, [x \in S |-> f(x)])

\* calculate_removed_size(): the files of a package that are on the disk now.
removed(v, m, files) == {f \in files \cap DOMAIN v.stat : On(v, m, Path(f))}
calculate_removed_size(v, m, files) == TotalOf(removed(v, m, files), LAMBDA f : Blocks(v.stat[f], m))

\* calculate_installed_size(): metadata is to go where the database is; dbpath is absolute
\* and the root is put before it all the same.
Place(v, f) == IF f[1] = "." THEN Path(v.dbpath) ELSE Path(f)
installed(v, m, p) == {f \in p.files \cap DOMAIN v.size : On(v, m, Place(v, f))}
calculate_installed_size(v, m, p) == TotalOf(installed(v, m, p), LAMBDA f : Blocks(v.size[f], m))

\* blocks_needed after the removals and the first k packages, and its maximum, which is
\* taken after each package and is 0 at first.
blocks_needed(v, m, k) ==
  TotalOf(1..k, LAMBDA j : calculate_installed_size(v, m, v.add[j])
                             - (IF v.add[j].isold THEN calculate_removed_size(v, m, v.add[j].oldfiles) ELSE 0))
    - TotalOf(v.remove, LAMBDA p : calculate_removed_size(v, m, p.files))
\* Mutant: only what is needed in the end counts.
max_blocks_last(v, m) == blocks_needed(v, m, Len(v.add))
max_blocks_needed(v, m) ==
  CHOOSE n \in {0} \cup {blocks_needed(v, m, k) : k \in 1..Len(v.add)} : \A k \in 1..Len(v.add) : blocks_needed(v, m, k) <= n

\* check_mountpoint(): is there room, with a cushion?
Cushion(m) ==
  LET share == m.blocks \div Share + 1
      mega == Megabytes \div m.bsize + 1
  IN  IF share < mega THEN share ELSE mega
check_mountpoint(m, needed) == needed + Cushion(m) <= m.avail

\* _klpm_check_diskspace().  Mounts whose information cannot be had are not looked at.
UsedInstall(v, m) == \E k \in DOMAIN v.add : installed(v, m, v.add[k]) # {}
UsedRemove(v, m) ==
  (\E p \in v.remove : removed(v, m, p.files) # {})
    \/ (\E k \in DOMAIN v.add : v.add[k].isold /\ removed(v, m, v.add[k].oldfiles) # {})

check_diskspace(v) ==
  \A m \in {n \in v.mounts : n.loads} :
    /\ UsedInstall(v, m) \/ UsedRemove(v, m) => ~m.ro
    /\ UsedInstall(v, m) => check_mountpoint(m, max_blocks_needed(v, m))

\* _klpm_check_downloadspace(): a file takes at least a block more than it has whole ones.
check_downloadspace(v) ==
  LET m == match_mount_point(v, Path(v.cache))
  IN  m.loads /\ check_mountpoint(m, TotalOf(DOMAIN v.fetch, LAMBDA k : (v.fetch[k] + m.bsize + 1) \div m.bsize))
=============================================================================
