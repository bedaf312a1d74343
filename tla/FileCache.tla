----------------------------- MODULE FileCache -----------------------------
(***************************************************************************)
(* kdb_read_cached (adapters/kdb/read_cached.rs) over FileCache            *)
(* (adapters/cache/file_cache.rs): processes that replay the same slices   *)
(* share one cache directory.  A file name and the inode behind it are     *)
(* kept apart, because a writer holds the inode while another process      *)
(* truncates, renames or removes the name.  tokio::fs::write is two steps, *)
(* open-and-truncate and write; in between the file is Torn.  The rows of  *)
(* a slice are <<database, query>>: the answer of the database the process *)
(* is connected to.  The clamp of the rows to the run's window is the one  *)
(* of TimeSlices.                                                          *)
(***************************************************************************)
EXTENDS Integers, Sequences, FiniteSets, SequencesExt, FiniteSetsExt

CONSTANTS
  CacheProcesses,   \* the processes that share the folder
  CacheTeams,       \* the sets of processes that may run together
  Connection,       \* the database each process is connected to
  Slices,           \* the query of each slice, in order
  FileSize,         \* the size in bytes of the answer to a query
  CacheLimit,       \* CacheConfig::max_size_bytes
  U64Max,           \* the limit that switches eviction off
  MaxFaults         \* bound: crashes and calls of CacheConfig::clear in a behaviour

\* A window without a slice asks for nothing.
ASSUME FileCacheAssumption ==
  /\ IsFiniteSet(CacheProcesses)
  /\ CacheTeams \subseteq SUBSET CacheProcesses
  /\ Slices \in Seq(STRING) /\ Slices # <<>>
  /\ CacheLimit \in Nat /\ U64Max \in Nat /\ CacheLimit <= U64Max
  /\ MaxFaults \in Nat

VARIABLES
  names,      \* directory: <<key, extension>> -> inode, 0 when absent
  data,       \* inode -> the rows it holds, or Torn
  byAge,      \* the inodes, oldest modification time first
  reader,     \* process -> its position in kdb_read_cached
  running,    \* the processes of this behaviour
  crashes,    \* crashes so far
  clearing,   \* files a call of clear() has listed and not yet removed
  clears      \* calls of clear() so far

cacheVars == <<names, data, byAge, reader, running, crashes, clearing, clears>>

Torn == <<>>

Inodes == 1 .. 2 * Len(Slices) + 2 * Cardinality(CacheProcesses)

\* CacheKey::from_parts(&[&query]): the digest of the query and of nothing else.
KeyOf(p, q) == q

Keys == {KeyOf(p, q) : p \in CacheProcesses, q \in Range(Slices)}

CachePath(k) == <<k, "cache">>
TmpPath(k) == <<k, "tmp">>

FreshReader ==
  [pc |-> "get", slice |-> 1, got |-> Torn, inode |-> 0, victims |-> <<>>,
   need |-> 0, out |-> <<>>, failed |-> FALSE]

CacheInit ==
  /\ names = [n \in Keys \X {"cache", "tmp"} |-> 0]
  /\ data = [i \in Inodes |-> Torn]
  /\ byAge = <<>>
  /\ reader = [p \in CacheProcesses |-> FreshReader]
  /\ running \in CacheTeams
  /\ crashes = 0
  /\ clearing = {}
  /\ clears = 0

At(p, pc) == p \in running /\ reader[p].pc = pc
Query(p) == Slices[reader[p].slice]
MyKey(p) == KeyOf(p, Query(p))

SizeOf(i) == IF data[i] = Torn THEN 0 ELSE FileSize[data[i][2]]

FreeInode ==
  CHOOSE i \in Inodes : /\ \A n \in DOMAIN names : names[n] # i
                        /\ \A p \in CacheProcesses : reader[p].inode # i

Touched(i) == Append(SelectSeq(byAge, LAMBDA j : j # i), i)

\* open(O_CREAT | O_TRUNC): the inode the name has, or a new one, emptied.
Truncate(p, n, pc) ==
  LET i == IF names[n] = 0 THEN FreeInode ELSE names[n]
  IN  /\ names' = [names EXCEPT ![n] = i]
      /\ data' = [data EXCEPT ![i] = Torn]
      /\ byAge' = Touched(i)
      /\ reader' = [reader EXCEPT ![p].pc = pc, ![p].inode = i]

Unlink(n) == names' = [names EXCEPT ![n] = 0]

\* The rows go to the graph and the next slice begins; after the last one the
\* stream is done.
EmitRows(p, rows) ==
  [reader[p] EXCEPT !.out = Append(@, rows), !.slice = @ + 1, !.inode = 0,
                    !.got = Torn, !.victims = <<>>, !.need = 0,
                    !.pc = IF reader[p].slice < Len(Slices) THEN "get" ELSE "done"]

-----------------------------------------------------------------------------
(* FileCache::get *)

\* A wrong form of Parses: an empty file is an empty result.
ParsesAnything(rows) == TRUE

\* What the file read parses to: a torn file has no header line or an
\* incomplete payload, and is an error.
Parses(rows) == rows # Torn

CacheGet(p) ==
  LET i == names[CachePath(MyKey(p))]
  IN  /\ At(p, "get")
      /\ reader' =
           IF i # 0 /\ Parses(data[i])
           THEN [reader EXCEPT ![p].pc = "touch", ![p].got = data[i]]
           ELSE [reader EXCEPT ![p].pc = "query"]
      /\ UNCHANGED <<names, data, byAge, running, crashes, clearing, clears>>

\* tokio::fs::write(&path, &bytes) to refresh the modification time.
CacheTouchOpen(p) ==
  /\ At(p, "touch")
  /\ Truncate(p, CachePath(MyKey(p)), "touching")
  /\ UNCHANGED <<running, crashes, clearing, clears>>

CacheTouchWrite(p) ==
  /\ At(p, "touching")
  /\ data' = [data EXCEPT ![reader[p].inode] = reader[p].got]
  /\ byAge' = Touched(reader[p].inode)
  /\ reader' = [reader EXCEPT ![p] = EmitRows(p, reader[p].got)]
  /\ UNCHANGED <<names, running, crashes, clearing, clears>>

-----------------------------------------------------------------------------
(* The query of a slice that is not cached, and FileCache::put *)

CacheQuery(p) ==
  /\ At(p, "query")
  /\ reader' = [reader EXCEPT ![p].pc = "put",
                              ![p].got = <<Connection[p], Query(p)>>]
  /\ UNCHANGED <<names, data, byAge, running, crashes, clearing, clears>>

\* The connection, the query or the parse of a row fails: the error is
\* yielded and the stream ends; nothing is cached.
CacheQueryFails(p) ==
  /\ At(p, "query")
  /\ reader' = [reader EXCEPT ![p].pc = "done", ![p].failed = TRUE]
  /\ UNCHANGED <<names, data, byAge, running, crashes, clearing, clears>>

CachePutOpen(p) ==
  /\ At(p, "put")
  /\ Truncate(p, TmpPath(MyKey(p)), "writing")
  /\ UNCHANGED <<running, crashes, clearing, clears>>

CachePutWrite(p) ==
  /\ At(p, "writing")
  /\ data' = [data EXCEPT ![reader[p].inode] = reader[p].got]
  /\ byAge' = Touched(reader[p].inode)
  /\ reader' = [reader EXCEPT ![p].inode = 0,
                              ![p].pc = IF CacheLimit < U64Max THEN "scan" ELSE "rename"]
  /\ UNCHANGED <<names, running, crashes, clearing, clears>>

\* A wrong form of Needed: the new file is not counted.
NeededWithoutNew(existing, new) ==
  IF existing > CacheLimit THEN existing - CacheLimit ELSE 0

\* What evict_lru must free before `new` more bytes fit.
Needed(existing, new) ==
  IF existing + new > CacheLimit THEN existing + new - CacheLimit ELSE 0

\* evict_lru, the scan: every .cache file but the one about to be replaced,
\* oldest modification time first.
CacheScan(p) ==
  LET others == {k \in Keys : k # MyKey(p) /\ names[CachePath(k)] # 0}
      old    == SelectSeq(byAge, LAMBDA i : \E k \in others : names[CachePath(k)] = i)
      key(i) == CHOOSE k \in others : names[CachePath(k)] = i
      listed == [j \in DOMAIN old |-> <<key(old[j]), SizeOf(old[j])>>]
      total  == FoldSeq(LAMBDA f, n : f[2] + n, 0, listed)
      need   == Needed(total, FileSize[Query(p)])
  IN  /\ At(p, "scan")
      /\ reader' = [reader EXCEPT ![p].victims = listed, ![p].need = need,
                                  ![p].pc = IF need = 0 THEN "rename" ELSE "evict"]
      /\ UNCHANGED <<names, data, byAge, running, crashes, clearing, clears>>

\* evict_lru, the loop: remove_file on the next victim; a file that is gone is
\* logged and counts for nothing.
CacheEvict(p) ==
  LET v    == Head(reader[p].victims)
      gone == names[CachePath(v[1])] = 0
  IN  /\ At(p, "evict")
      /\ reader[p].need > 0 /\ reader[p].victims # <<>>
      /\ Unlink(CachePath(v[1]))
      /\ reader' = [reader EXCEPT ![p].victims = Tail(@),
                                  ![p].need = IF gone THEN @ ELSE @ - v[2]]
      /\ UNCHANGED <<data, byAge, running, crashes, clearing, clears>>

CacheEvicted(p) ==
  /\ At(p, "evict")
  /\ reader[p].need <= 0 \/ reader[p].victims = <<>>
  /\ reader' = [reader EXCEPT ![p].pc = "rename", ![p].victims = <<>>, ![p].need = 0]
  /\ UNCHANGED <<names, data, byAge, running, crashes, clearing, clears>>

\* rename(tmp, path).  Without a .tmp file it fails, which is logged; the rows
\* are emitted either way.
CacheRename(p) ==
  LET t == TmpPath(MyKey(p)) IN
  /\ At(p, "rename")
  /\ names' = IF names[t] = 0 THEN names
              ELSE [names EXCEPT ![t] = 0, ![CachePath(MyKey(p))] = names[t]]
  /\ reader' = [reader EXCEPT ![p] = EmitRows(p, reader[p].got)]
  /\ UNCHANGED <<data, byAge, running, crashes, clearing, clears>>

-----------------------------------------------------------------------------
\* A process dies at any point and is started again.
CacheCrash(p) ==
  /\ p \in running /\ crashes + clears < MaxFaults
  /\ reader[p].pc # "done"
  /\ crashes' = crashes + 1
  /\ reader' = [reader EXCEPT ![p] = FreshReader]
  /\ UNCHANGED <<names, data, byAge, running, clearing, clears>>

\* CacheConfig::clear: list the folder, then remove the .cache files.
CacheClear ==
  /\ crashes + clears < MaxFaults
  /\ clears' = clears + 1
  /\ clearing' = {k \in Keys : names[CachePath(k)] # 0}
  /\ UNCHANGED <<names, data, byAge, reader, running, crashes>>

CacheClearRemove ==
  \E k \in clearing :
    /\ Unlink(CachePath(k))
    /\ clearing' = clearing \ {k}
    /\ UNCHANGED <<data, byAge, reader, running, crashes, clears>>

CacheStep(p) ==
  \/ CacheGet(p) \/ CacheTouchOpen(p) \/ CacheTouchWrite(p)
  \/ CacheQuery(p) \/ CacheQueryFails(p)
  \/ CachePutOpen(p) \/ CachePutWrite(p)
  \/ CacheScan(p) \/ CacheEvict(p) \/ CacheEvicted(p) \/ CacheRename(p)

CacheNext ==
  \/ \E p \in CacheProcesses : CacheStep(p) \/ CacheCrash(p)
  \/ CacheClear \/ CacheClearRemove

-----------------------------------------------------------------------------
\* The answers the databases of a team of processes give to a query.
Answers(team, q) == {<<Connection[r], q>> : r \in team}

\* kdb_read_cached is kdb_read with a cache in front: whatever the other
\* processes, a crash in the middle of a write and a clear() leave on disk, the
\* rows a process emits are whole answers to its slices, one slice after the
\* other, and a stream that ends without an error has had them all.  The answer
\* is that of a database which a process of the folder reads: the process's own
\* when all of them read the same, and otherwise possibly another's, since the
\* key of a file does not name the database (OwnAnswers).
CacheTransparent ==
  \A p \in running :
    /\ \A s \in DOMAIN reader[p].out : reader[p].out[s] \in Answers(running, Slices[s])
    /\ (reader[p].pc = "done" /\ ~ reader[p].failed) => Len(reader[p].out) = Len(Slices)

\* What the documentation of CacheKey promises ("Built from `[host, port_str,
\* query]`", cache/mod.rs) and the key of read_cached.rs does not keep: the
\* rows a process emits come from the database it is connected to.
OwnAnswers ==
  \A p \in running : \A s \in DOMAIN reader[p].out :
    reader[p].out[s] = <<Connection[p], Slices[s]>>

\* CacheConfig::max_size_bytes "controls the total on-disk size": while one
\* process uses the folder, also across its crashes, the .cache files fit the
\* limit, or there is only the one that does not fit by itself.
CacheBounded ==
  LET files == {k \in Keys : names[CachePath(k)] # 0}
      bytes == MapThenSumSet(LAMBDA k : SizeOf(names[CachePath(k)]), files)
  IN  Cardinality(running) = 1 =>
        \/ CacheLimit = U64Max
        \/ bytes <= CacheLimit
        \/ Cardinality(files) = 1
=============================================================================
