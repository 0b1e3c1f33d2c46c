------------------------------ MODULE Storage ------------------------------
(***************************************************************************)
(* Persistent objects of the trusted execution environment: the storage    *)
(* API (otz_tee_internal_storage_api.c) over the stream table BUF_IO       *)
(* (sw_filelib.c) over the FAT image in memory (fat32.c).  No call yields, *)
(* so every API call is one step; what interleaves is the calls of the     *)
(* clients, each with a handle of its own.  A handle serves one call after *)
(* it is opened, as in test_storage_api.c, because the calls close the     *)
(* stream under it; a call that fails leaves its stream and file open for  *)
(* ever.  One directory; names are model values.                           *)
(***************************************************************************)
EXTENDS Integers, FiniteSets, FiniteSetsExt, SequencesExt

CONSTANTS
    Handles,      \* TEE_ObjectHandle variables of the clients
    Paths,        \* file names
    NoPath,       \* a free or deleted directory entry
    Data,         \* what a client may write
    Lens,         \* lengths of a write or a truncation
    Offsets,      \* offsets of TEE_SeekObjectData, forwards and backwards
    Junk,         \* cluster numbers an uninitialised prev_cluster may hold
    ClusSize,     \* cluster_size, in bytes
    ByteMod,      \* 256: what a u8 holds of a size
    WBuf,         \* 255: sizes of w_buff and buff on the stack
    LastCluster,  \* bound: the FAT has the entries 0 .. LastCluster
    DirSlots,     \* bound: directory entries 1 .. DirSlots
    Streams,      \* entries of BUF_IO behind stdin, stdout and stderr
    MaxInfos,     \* bound: files open at once (by BeforeLapse)
    MaxFiles      \* bound: files ever created

ASSUME StorageAssumption ==
    /\ Lens \subseteq Nat \ {0} /\ Offsets \subseteq Nat
    /\ {ClusSize, ByteMod, WBuf, LastCluster, DirSlots, Streams, MaxInfos, MaxFiles}
           \subseteq Nat \ {0}
    /\ NoPath \notin Paths /\ Junk \subseteq 0..LastCluster

VARIABLES
    fs,        \* the image and fat32.c's globals:
               \*   dir  directory entries (name, start, size, id)
               \*   fat, mem  the FAT and the bytes of the clusters
               \*   nxt  nxt_free_cluster;  off  dir_file_offset
               \*   infos  the list file_head;  made  files created so far
               \*   lapse  the first known flaw met, "none" so far
    busy,      \* streams of BUF_IO whose _flags are in use
    nospc,     \* errno = ENOSPC, which nothing resets
    obj,       \* obj[h]: the stream, file and mode behind a handle
    contents   \* history: contents[i], the bytes of the i-th file created

vars == <<fs, busy, nospc, obj, contents>>

End == LastCluster + 1                       \* END_OF_CLUSTER
None == [str |-> 0]
Modes == {"r", "r+", "w"}
\* What fopen passes to f_open for a mode
Flags(m) == CASE m = "r"  -> {"READ"}
              [] m = "r+" -> {"READ", "WRITE"}
              [] m = "w"  -> {"WRITE", "CREATE"}
\* The bytes of a write: byte i of the data v
Bytes(v, n) == [i \in 1..n |-> <<v, i>>]
Unwritten == <<NoPath, 0>>
Zero == <<NoPath, 1>>
Zeros(n) == [i \in 1..n |-> Zero]

\* The flaw is met when met is true
Lapsed(f, met, flaw) == [f EXCEPT !.lapse = IF met /\ @ = "none" THEN flaw ELSE @]

-----------------------------------------------------------------------------
\* fat32.c, as operators on the record fs.

Valid(c) == c # 0 /\ c # End

\* Mutant: the search starts at the first cluster each time
allocate_clusterLowest(f) == Min({c \in 1..LastCluster : f.fat[c] = 0})

\* allocate_cluster: the first free FAT entry behind the last one given out
allocate_cluster(f) == Min({c \in f.nxt + 1 .. LastCluster : f.fat[c] = 0})

\* get_dir_entry: the slot that has the name
get_dir_entry(f, p) == {s \in 1..DirSlots : f.dir[s].name = p}

\* Mutant: the comparison of the paths is reversed
chk_file_lockOthers(f, p) ==
    \E i \in DOMAIN f.infos : f.infos[i].path # p /\ "WRITE" \in f.infos[i].mode

\* chk_file_lock: some open file of the path may be written
chk_file_lock(f, p) ==
    \E i \in DOMAIN f.infos : f.infos[i].path = p /\ "WRITE" \in f.infos[i].mode

\* An info that is on the list
Index(f, fd) == CHOOSE i \in DOMAIN f.infos : f.infos[i].fd = fd
FirstOf(f, p) == Min({i \in DOMAIN f.infos : f.infos[i].path = p})

\* retrieve_file_info: the new info holds a copy of the directory entry
retrieve_file_info(f, p, mode, s) ==
    LET fds == {f.infos[i].fd : i \in DOMAIN f.infos}
    IN  [f EXCEPT !.off = s,
                  !.infos = Append(@, [fd    |-> Min((1 .. MaxInfos + 1) \ fds),
                                       path  |-> p, mode |-> mode, slot |-> s,
                                       start |-> f.dir[s].start,
                                       cur   |-> f.dir[s].start, pos |-> 0,
                                       size  |-> f.dir[s].size,
                                       id    |-> f.dir[s].id])]

\* create_file in the first free entry, for the file i of the history
create_file(f, p, i) ==
    LET s == Min(get_dir_entry(f, NoPath))
    IN  [f EXCEPT !.dir[s] = [name |-> p, start |-> 0, size |-> 0, id |-> i],
                  !.made = IF i > @ THEN i ELSE @]

file_open(f, p, flags) ==
    LET found == get_dir_entry(f, p)
        mode  == IF "WRITE" \in flags /\ chk_file_lock(f, p) THEN {"READ"} ELSE flags
    IN  CASE found # {} -> retrieve_file_info(f, p, mode, Min(found))
          [] found = {} /\ flags \cap {"WRITE", "CREATE"} # {} ->
                LET g == create_file(f, p, f.made + 1)
                IN  retrieve_file_info(g, p, flags, Min(get_dir_entry(g, p)))
          [] OTHER -> f

file_close(f, fd) ==
    [f EXCEPT !.infos = SelectSeq(@, LAMBDA x : x.fd # fd)]

\* An assignment through dir_file_offset, whichever entry that is now
ThroughOffset(f, x, e) ==
    Lapsed([f EXCEPT !.dir[f.off] = e], f.dir[f.off].id # x.id, "other entry")

\* What a size becomes when n is stored through dir_file_offset, a u8 pointer:
\* only its low byte is replaced
Stored(size, n) == (size - (size % ByteMod)) + (n % ByteMod)

\* The branch of file_write's loop that appends a cluster.  w: the file system,
\* the info, the clusters appended by this call and prev_cluster, which has
\* what the stack held (junk) until the call has copied something
Extend(w) ==
    LET new   == allocate_cluster(w.f)
        g     == [w.f EXCEPT !.nxt = new]
        x     == [w.x EXCEPT !.cur = new, !.pos = 0]
        first == w.count = 0 /\ w.x.cur = 0 /\ w.x.start = 0
    IN  IF first
        THEN [w EXCEPT !.f = ThroughOffset(g, x, [g.dir[g.off] EXCEPT !.start = new]),
                       !.x = [x EXCEPT !.start = new], !.count = 1, !.new = new]
        ELSE [w EXCEPT !.f = Lapsed([g EXCEPT !.fat[w.prev] = new], ~w.copied, "boundary"),
                       !.x = x, !.count = @ + 1, !.new = new]

\* The other branch, one byte of it; more: the call has bytes left after this one
Copy(w, b, more) ==
    LET x    == w.x
        full == x.pos + 1 = ClusSize
        next == IF full THEN w.f.fat[x.cur] ELSE x.cur
    IN  [w EXCEPT !.f.mem[x.cur][x.pos] = b,
                  !.x.cur = next,
                  !.x.pos = IF full /\ Valid(next) /\ more THEN 0 ELSE @ + 1,
                  !.prev = x.cur, !.copied = TRUE]

\* file_write; on a file that may only be read it does nothing
file_write(f, fd, bs, junk) ==
    LET k     == Index(f, fd)
        Put(w, i) == LET v == IF Valid(w.x.cur) /\ w.x.pos # ClusSize THEN w ELSE Extend(w)
                     IN  Copy(v, bs[i], i < Len(bs))
        w0    == [f |-> f, x |-> f.infos[k], count |-> 0, prev |-> junk,
                  new |-> 0, copied |-> FALSE]
        w     == FoldLeft(Put, w0, [i \in 1..Len(bs) |-> i])
        grown == w.x.size < Len(bs)
        g     == IF grown
                 THEN ThroughOffset(w.f, w.x, [w.f.dir[w.f.off] EXCEPT
                                                 !.size = Stored(@, Len(bs))])
                 ELSE w.f
    IN  IF f.infos[k].mode = {"READ"} THEN f
        ELSE [g EXCEPT !.infos[k] = IF grown THEN [w.x EXCEPT !.size = Len(bs)] ELSE w.x,
                       !.fat = IF w.count > 0 THEN [@ EXCEPT ![w.new] = End] ELSE @]

\* The clusters of a chain, in order and End behind them
Chain(f, start) ==
    LET Nth[k \in 0..LastCluster] ==
            IF k = 0 THEN start
            ELSE IF Valid(Nth[k - 1]) THEN f.fat[Nth[k - 1]] ELSE End
    IN  Nth

\* file_read from the start: as many bytes as the size says and the chain has
file_read(f, start, size) ==
    LET chain == Chain(f, start)
        have  == {i \in 0 .. size - 1 : Valid(chain[i \div ClusSize])}
    IN  [i \in 1..Cardinality(have) |->
            f.mem[chain[(i - 1) \div ClusSize]][(i - 1) % ClusSize]]

\* get_seek_off, from byte pos of the cluster cur.  Past the end of the chain it
\* appends clusters and links them to each other, the first of them to nothing
get_seek_off(f, cur, pos, off) ==
    LET chain == Chain(f, cur)
        lack  == {i \in pos .. pos + off - 1 :
                     i % ClusSize = 0 /\ ~Valid(chain[i \div ClusSize])}
        n     == Cardinality(lack)
    IN  [f EXCEPT !.nxt = @ + n,
                  !.fat = [c \in DOMAIN @ |->
                             IF c \in f.nxt + 1 .. f.nxt + n
                             THEN IF c = f.nxt + n THEN End ELSE c + 1
                             ELSE @[c]]]

\* SEEK_END: the walk to the end of the chain.  It goes on through a FAT entry
\* that is 0, the start of an empty file too, and ends at entry 0.  pos is the
\* place in the last cluster when the chain has as many as the size needs
ChainEnd(f, x) ==
    LET chain == Chain(f, x.start)
        n     == Cardinality({k \in DOMAIN chain : Valid(chain[k])})
        last  == chain[n - 1]
        zero  == n = 0 \/ f.fat[last] = 0
    IN  IF zero THEN [cur |-> 0, pos |-> 0, bad |-> f.fat[0] # End]
        ELSE LET pos == x.size - ClusSize * (n - 1)
             IN  [cur |-> last, pos |-> pos, bad |-> pos < 0]

\* file_seek of a file that was just opened: its position is 0, so that SEEK_CUR
\* is SEEK_SET.  A negative result is no error and changes nothing
file_seek(f, fd, off, whence) ==
    LET x == f.infos[Index(f, fd)]
        t == ChainEnd(f, x)
    IN  CASE whence = "END" /\ off >= 0 ->
                IF t.bad THEN Lapsed(f, TRUE, "seek end")
                ELSE get_seek_off(f, t.cur, t.pos % ClusSize, off)
          [] whence = "END" /\ off < 0 -> get_seek_off(f, x.start, 0, x.size + off)
          [] OTHER -> get_seek_off(f, x.start, 0, off)

\* file_truncate's growth by e bytes: zeros at the end of the file, e of them,
\* then e - 1 and so on; none to a file that may only be read
Grow(f, k, e, t, junk) ==
    FoldLeft(LAMBDA g, i : file_write(g, f.infos[k].fd, Zeros(e + 1 - i), junk),
             [f EXCEPT !.infos[k].cur = t.cur, !.infos[k].pos = t.pos],
             [i \in 1..e |-> i])

\* The end of file_truncate.  What it keeps of the chain is the first cluster,
\* and behind that a new one when len needs more (without end when two are not
\* enough).  Growing can have changed the size in the entry, or written nothing
Rechain(f, k, len) ==
    LET x   == f.infos[k]
        new == allocate_cluster(f)
        g   == [f EXCEPT !.infos[k].size = len,
                         !.infos[k].pos = IF len > ClusSize THEN len - ClusSize ELSE len,
                         !.nxt = IF len > ClusSize THEN new ELSE @,
                         !.fat = CASE len = 0 -> [@ EXCEPT ![x.start] = 0]
                                   [] len \in 1..ClusSize -> [@ EXCEPT ![x.start] = End]
                                   [] OTHER -> [@ EXCEPT ![x.start] = new, ![new] = End]]
    IN  Lapsed(Lapsed(g, len > ClusSize, "truncated chain"),
               f.dir[x.slot].size # len \/ (x.size < len /\ x.mode = {"READ"}), "grown")

\* file_truncate, of the first open file of the path; it refuses when the file's
\* size is not the entry's
file_truncate(f, p, len, junk) ==
    LET k  == FirstOf(f, p)
        x  == f.infos[k]
        t  == ChainEnd(f, x)
        f0 == [f EXCEPT !.dir[x.slot].size = len]
    IN  CASE f.dir[x.slot].size # x.size -> f
          [] f.dir[x.slot].size = x.size /\ len =< x.size -> Rechain(f0, k, len)
          [] OTHER -> IF t.bad THEN Lapsed(f0, TRUE, "seek end")
                      ELSE Rechain(Grow(f0, k, len - x.size, t, junk), k, len)

\* file_remove: the entry of the first open file of the path, which is closed
file_unlink(f, p) ==
    LET x == f.infos[FirstOf(f, p)]
    IN  file_close([f EXCEPT !.dir[x.slot].name = NoPath], x.fd)

\* file_rename: the new name gets a copy of the entry.  When the new name
\* exists, the file opened to find that out stays open
file_rename(f, old, new) ==
    LET o == Min(get_dir_entry(f, old))
        g == create_file(f, new, f.dir[o].id)
        n == Min(get_dir_entry(g, new))
    IN  IF get_dir_entry(f, new) # {} THEN file_open(f, new, {"READ"})
        ELSE [g EXCEPT !.dir[n] = [g.dir[o] EXCEPT !.name = new],
                       !.dir[o].name = NoPath, !.off = n]

-----------------------------------------------------------------------------
\* sw_filelib.c

\* sw_flushbuffer of one byte.  The flags of a stream opened "w" contain SW_UNBUF
\* (the value of SW_CREATE_NEW), so the byte goes to the file at once
sw_flushbuffer(f, fd, b, junk) == file_write(f, fd, <<b>>, junk)

\* fwrite on such a stream: byte by byte, and then the whole buffer once more
fwrite(f, fd, bs, junk) ==
    file_write(FoldLeft(LAMBDA g, b : sw_flushbuffer(g, fd, b, junk), f, bs),
               fd, bs, junk)

\* fclose frees the stream; of the last stream it does not close the file
fclose(f, h) == IF obj[h].str = Streams THEN f ELSE file_close(f, obj[h].fd)

FreeStream == Min(1..Streams \ busy)

-----------------------------------------------------------------------------
\* otz_tee_internal_storage_api.c

\* Bounds: a file that has to be created has an entry (the directory does not
\* grow) and is one of the history's MaxFiles
Fits(p, flags) ==
    get_dir_entry(fs, p) = {} /\ flags # {"READ"} =>
        get_dir_entry(fs, NoPath) # {} /\ fs.made < MaxFiles

\* Bound: clusters for n bytes from the one of number c; allocate_cluster knows
\* no end of the FAT
Room(c, n) == fs.nxt + (n - 1) \div ClusSize + (IF c = 0 THEN 1 ELSE 0) =< LastCluster

\* A new file has no bytes yet
History(f) == IF f.made > Len(contents) THEN Append(contents, <<>>) ELSE contents

\* TEE_OpenPersistentObject.  fopen marks the stream before it opens the file,
\* and does not give it back when there is no such file
OpenObject(h, p, m) ==
    /\ obj[h] = None /\ busy # 1..Streams /\ Fits(p, Flags(m))
    /\ LET g == file_open(fs, p, Flags(m))
       IN  /\ fs' = g
           /\ busy' = busy \cup {FreeStream}
           /\ contents' = History(g)
           /\ \/ /\ g # fs
                 /\ obj' = [obj EXCEPT ![h] = [str |-> FreeStream, path |-> p, mode |-> m,
                                               fd |-> Last(g.infos).fd]]
                 /\ UNCHANGED nospc
              \/ g = fs /\ nospc' = FALSE /\ UNCHANGED obj   \* errno = ENOENT

\* ... when all streams are in use
OpenRefused(h) ==
    /\ obj[h] = None /\ busy = 1..Streams
    /\ nospc' = TRUE
    /\ UNCHANGED <<fs, busy, obj, contents>>

\* A call that returns an error does not close the stream
Fails(h) == obj' = [obj EXCEPT ![h] = None] /\ UNCHANGED <<fs, busy, nospc, contents>>

Closes(f, h) ==
    /\ fs' = fclose(f, h)
    /\ busy' = busy \ {obj[h].str}
    /\ obj' = [obj EXCEPT ![h] = None]
    /\ UNCHANGED nospc

\* The bytes of a file after bs is written at its start
Overwritten(old, bs) == bs \o SubSeq(old, Len(bs) + 1, Len(old))

\* What writing bs leaves of the file; the second copy of bs is seen when the
\* file was longer, and the entry's size is wrong when it needed a second byte
Written(f, fd, bs, junk) ==
    LET x == f.infos[Index(f, fd)]
        Flaws(g) == Lapsed(Lapsed(g, x.size > Len(bs), "written twice"),
                           x.size < Len(bs) /\ g.dir[g.off].size # Len(bs), "size byte")
    IN  Flaws(fwrite(f, fd, bs, junk))

\* The n bytes moved are copied once more to an array on the stack, with a zero
\* behind them.  Where there are too many, what is overwritten depends on the
\* frame: another array that is not used any more, or something that matters
Copied(f, n) == IF n < WBuf THEN {f} ELSE {f, Lapsed(f, TRUE, "stack")}

\* TEE_WriteObjectData.  A stale ENOSPC makes a write that succeeded an error
WriteObject(h, v, n) ==
    /\ obj[h] # None
    /\ LET x == fs.infos[Index(fs, obj[h].fd)] IN
       \/ (obj[h].mode # "w" \/ x.mode = {"READ"}) /\ Fails(h)
       \/ /\ obj[h].mode = "w" /\ x.mode # {"READ"} /\ Room(x.start, 2 * n)
          /\ \E junk \in Junk :
                LET g == Written(fs, x.fd, Bytes(v, n), junk)
                IN  \/ ~nospc /\ \E r \in Copied(g, n) : Closes(r, h)
                    \/ /\ nospc /\ fs' = g /\ obj' = [obj EXCEPT ![h] = None]
                       /\ UNCHANGED <<busy, nospc>>
          /\ contents' = [contents EXCEPT ![x.id] = Overwritten(@, Bytes(v, n))]

\* TEE_CreatePersistentObject: opens and writes in one call
CreateObject(h, p, v, n) ==
    /\ obj[h] = None /\ busy # 1..Streams /\ Fits(p, Flags("w")) /\ Room(0, 2 * n)
    /\ \E junk \in Junk :
          LET f == file_open(fs, p, Flags("w"))
              x == Last(f.infos)
              g == Written(f, x.fd, Bytes(v, n), junk)
          IN  \/ /\ x.mode = {"READ"}
                 /\ fs' = f /\ busy' = busy \cup {FreeStream}
                 /\ UNCHANGED <<nospc, obj, contents>>
              \/ /\ x.mode # {"READ"}
                 /\ contents' = [History(f) EXCEPT ![x.id] = Overwritten(@, Bytes(v, n))]
                 /\ busy' = IF nospc THEN busy \cup {FreeStream} ELSE busy
                 /\ IF nospc THEN fs' = g
                    ELSE \E r \in Copied(g, n) :
                            fs' = IF FreeStream = Streams THEN r ELSE file_close(r, x.fd)
                 /\ UNCHANGED <<nospc, obj>>

\* TEE_ReadObjectData, of as many bytes as there are: what a shorter read can do
\* is among what this one can
ReadObject(h) ==
    /\ obj[h] # None
    /\ LET x == fs.infos[Index(fs, obj[h].fd)] IN
       \/ obj[h].mode = "w" /\ Fails(h)
       \/ /\ obj[h].mode # "w"
          /\ \E r \in Copied(fs, Len(file_read(fs, x.start, x.size))) : Closes(r, h)
          /\ UNCHANGED contents

\* TEE_SeekObjectData
SeekObject(h, off, whence) ==
    /\ obj[h] # None /\ Room(0, off)
    /\ \/ whence = "SET" /\ off < 0 /\ Fails(h)
       \/ /\ whence # "SET" \/ off >= 0
          /\ Closes(file_seek(fs, obj[h].fd, off, whence), h)
          /\ UNCHANGED contents

\* The calls that find an open file by its path: another handle has the path
\* open, or the first open file of that path is not that of its entry
Shared(h) == \E g \in Handles \ {h} : obj[g] # None /\ obj[g].path = obj[h].path
Stale(h) == {fs.infos[FirstOf(fs, obj[h].path)].id}
                # {fs.dir[s].id : s \in get_dir_entry(fs, obj[h].path)}
Noted(f, h) == Lapsed(f, Shared(h) \/ Stale(h), "found by path")

\* What is to become of the bytes of a file
Resized(old, len) == [i \in 1..len |-> IF i =< Len(old) THEN old[i] ELSE Zero]

\* TEE_TruncateObjectData: leaves the stream open
TruncateObject(h, len) ==
    /\ obj[h] # None
    /\ LET x == fs.infos[FirstOf(fs, obj[h].path)]
           e == IF len > x.size /\ x.mode # {"READ"} THEN len - x.size ELSE 0
       IN  /\ Room(0, (e * (e + 1)) \div 2 + (IF len > ClusSize THEN ClusSize ELSE 0))
           /\ \E junk \in Junk :
                 LET g == file_truncate(fs, x.path, len, junk)
                 IN  /\ fs' = Noted(g, h)
                     /\ contents' =
                           IF g = fs THEN contents
                           ELSE [contents EXCEPT ![fs.dir[x.slot].id] = Resized(@, len)]
    /\ obj' = [obj EXCEPT ![h] = None]
    /\ UNCHANGED <<busy, nospc>>

\* TEE_CloseAndDeletePersistentObject: closes the file but not the stream
DeleteObject(h) ==
    /\ obj[h] # None
    /\ fs' = Noted(file_unlink(fs, obj[h].path), h)
    /\ obj' = [obj EXCEPT ![h] = None]
    /\ UNCHANGED <<busy, nospc, contents>>

\* TEE_RenamePersistentObject.  file_rename needs the old name to exist: it
\* follows the list of open files to its end and beyond when it does not
RenameObject(h, new) ==
    /\ obj[h] # None /\ get_dir_entry(fs, NoPath) # {}
    /\ get_dir_entry(fs, obj[h].path) # {}
    /\ LET g == file_rename(fs, obj[h].path, new)
       IN  \/ /\ get_dir_entry(fs, new) # {}
              /\ fs' = g /\ obj' = [obj EXCEPT ![h] = None]
              /\ UNCHANGED <<busy, nospc, contents>>
           \/ get_dir_entry(fs, new) = {} /\ Closes(Noted(g, h), h) /\ UNCHANGED contents

Init ==
    /\ fs = [dir  |-> [s \in 1..DirSlots |-> [name |-> NoPath, start |-> 0, size |-> 0, id |-> 0]],
             fat  |-> [c \in 0..LastCluster |-> IF c = 0 THEN End ELSE 0],
             mem  |-> [c \in 1..LastCluster |-> [i \in 0 .. ClusSize - 1 |-> Unwritten]],
             nxt  |-> 0, off |-> 1, infos |-> <<>>, made |-> 0, lapse |-> "none"]
    /\ busy = {} /\ nospc = FALSE /\ contents = <<>>
    /\ obj = [h \in Handles |-> None]

Next == \E h \in Handles :
    \/ OpenRefused(h) \/ ReadObject(h) \/ DeleteObject(h)
    \/ \E p \in Paths, m \in Modes : OpenObject(h, p, m)
    \/ \E v \in Data, n \in Lens : WriteObject(h, v, n)
    \/ \E p \in Paths, v \in Data, n \in Lens : CreateObject(h, p, v, n)
    \/ \E off \in Offsets \cup {-o : o \in Offsets}, whence \in {"SET", "CUR", "END"} :
          SeekObject(h, off, whence)
    \/ \E len \in Lens \cup {0, ClusSize + 1} : TruncateObject(h, len)
    \/ \E p \in Paths : RenameObject(h, p)

Spec == Init /\ [][Next]_vars

-----------------------------------------------------------------------------
\* A name in the directory stands for the bytes that were written to the file
\* of that name: whatever the other handles did in between, following the entry
\* and the FAT (file_read) gives the history's bytes.  Until one of the flaws
\* that lapse names is met: a size beyond a byte (size byte), a full copy onto the
\* stack (stack), a write over a longer file (written twice), from a full cluster
\* (boundary) or through another entry (other entry), a growing truncation
\* (grown) or one that cuts the chain (truncated chain), a seek from an end that is
\* not the file's (seek end), a name two files answer to (found by path).
FilesAsWritten ==
    fs.lapse = "none" =>
        \A s \in 1..DirSlots : fs.dir[s].name # NoPath =>
            file_read(fs, fs.dir[s].start, fs.dir[s].size) = contents[fs.dir[s].id]

\* A reader that opened a file before others wrote, renamed or replaced it
\* still reads that file: the info is a copy of the entry made at the open, and
\* what it leads to is as much of the file as there was then, with its present
\* bytes.
ReadersSeeTheirFile ==
    fs.lapse = "none" =>
        \A h \in Handles : obj[h] # None =>
            LET x == fs.infos[Index(fs, obj[h].fd)]
                r == file_read(fs, x.start, x.size)
            IN  Len(r) = x.size /\ IsPrefix(r, contents[x.id])

\* Nothing is explored beyond a known flaw, or with MaxInfos files open
BeforeLapse == fs.lapse = "none" /\ Len(fs.infos) < MaxInfos
=============================================================================
