------------------------------- MODULE Bucket -------------------------------
(***************************************************************************)
(* base/bucket: one bucket of a Manager, its objects, and the clients that *)
(* put, delete, list and drop them at the same time, on the file system    *)
(* (bucket/file), in memory (bucket/mem), on S3 (bucket/s3) and on OCI     *)
(* (bucket/oci).                                                           *)
(*                                                                         *)
(* A key is a name; a folder's key ends in "/" in the code and is in       *)
(* Folders here.  Every time the bucket is created it is another disk: a   *)
(* handle of a file or mem Store is bound to the disk it was opened on,    *)
(* while an S3 or OCI Store is bound to the name.                          *)
(***************************************************************************)
EXTENDS Naturals, Sequences, SequencesExt, FiniteSets

CONSTANTS
    Kinds,      \* the stores: a subset of {"file", "mem", "s3", "oci"}
    Clients,
    Keys,       \* the keys, in lexical order
    Folders,    \* those that are folder markers
    InFolder,     \* the folder of a key, "" for the root of the bucket
    Twin,       \* the file key of a folder and the folder of a file key
    Roots,   \* the prefixes of DeletePrefix: folders, or "" for all
    MaxBuckets, \* how often the bucket is created
    MaxBucketCalls    \* how many operations the clients call

ASSUME BucketAssumption ==
    /\ Kinds \subseteq {"file", "mem", "s3", "oci"}
    /\ Folders \subseteq ToSet(Keys)
    /\ InFolder \in [ToSet(Keys) -> Folders \cup {""}]
    /\ MaxBuckets \in Nat /\ MaxBucketCalls \in Nat

VARIABLES
    kind,      \* the store in use
    bkt,       \* the disk of the bucket's name, 0 when there is no bucket
    disk,      \* the objects, folders and temporary files of every disk
    handles,   \* the Stores opened, and whether they were closed
    cached,    \* the Store the Manager keeps for the name, 0 for none
    lock,      \* the client inside the Manager's mutex, "" for none
    client,    \* what every client does
    calls,     \* how many operations were called
    kept       \* the objects acknowledged and not deleted since

bucketVars == <<kind, bkt, disk, handles, cached, lock, client, calls, kept>>

EmptyDisk == [files |-> {}, partial |-> {}, dirs |-> {}, tmps |-> {}]
AtRest == [pc |-> "idle", op |-> "", key |-> "", h |-> 0, force |-> FALSE,
         todo |-> {}, listed |-> {}, target |-> {}]

BucketInit ==
    /\ kind \in Kinds
    /\ bkt = IF kind = "oci" THEN 1 ELSE 0       \* OCI's is there: it has no Manager
    /\ disk = IF kind = "oci" THEN << EmptyDisk >> ELSE <<>>
    /\ handles = <<>>
    /\ cached = 0
    /\ lock = ""
    /\ client = [p \in Clients |-> AtRest]
    /\ calls = 0
    /\ kept = {}

-----------------------------------------------------------------------------
(* What the stores share.                                                   *)

Remote == kind \in {"s3", "oci"}

\* The folders a key lies in.
Above(k) == {f \in Folders : f = InFolder[k] \/ (InFolder[k] # "" /\ f = InFolder[InFolder[k]])}

\* A key starts with a prefix.
Under(prefix, k) == prefix = "" \/ k = prefix \/ prefix \in Above(k)

\* The objects and folders in a folder of a disk, and whether it is empty,
\* temporary files included.
Entries(d, folder) == {k \in d.files \cup d.dirs : InFolder[k] = folder}
Bare(d, folder) == Entries(d, folder) = {} /\ \A t \in d.tmps : t[2] # folder

\* The disk a Store works on: the name's for a remote one.
DiskOf(h) == IF Remote THEN bkt ELSE handles[h].disk

\* A closed root, or one whose directory was removed, creates nothing.
Usable(h) == ~handles[h].closed /\ handles[h].disk = bkt

\* The operation a client is in may take key k away.
Deletes(c, k) ==
    \/ c.op = "delete" /\ k \in {c.key, Twin[c.key]}
    \/ c.op = "prefix" /\ Under(c.key, k)
    \/ c.op = "drop" /\ c.force

FirstKey(S) == Keys[SelectInSeq(Keys, LAMBDA k : k \in S)]
LastKey(S) == Keys[SelectLastInSeq(Keys, LAMBDA k : k \in S)]

Begins(p, c) ==
    /\ client[p].pc = "idle"
    /\ calls < MaxBucketCalls
    /\ calls' = calls + 1
    /\ client' = [client EXCEPT ![p] = c]
    /\ kept' = {k \in kept : ~Deletes(c, k)}
    /\ UNCHANGED <<kind, bkt, disk, handles, cached, lock>>

\* The operation returns; the client keeps its Store.
Answered(c) == [AtRest EXCEPT !.h = c.h]
Returns(p) == client' = [client EXCEPT ![p] = Answered(client[p])]
Step(p, pc) == client' = [client EXCEPT ![p].pc = pc]

\* Put returns nil: nobody who deletes the key is under way.
Acknowledges(p, k) ==
    kept' = IF \E q \in Clients : Deletes(client[q], k) THEN kept ELSE kept \cup {k}

\* A Put touches the key and its folders: who empties a prefix no longer
\* owes their absence.
Touched(p, c, K) == [q \in Clients |-> IF q = p THEN c ELSE [client[q] EXCEPT !.target = @ \ K]]

-----------------------------------------------------------------------------
(* Manager: CreateBucket and Open.                                          *)

\* CreateBucket refuses a name that is taken.
NewBucket(p) ==
    /\ client[p].pc = "idle"
    /\ bkt = 0
    /\ Len(disk) < MaxBuckets
    /\ bkt' = Len(disk) + 1
    /\ disk' = Append(disk, EmptyDisk)
    /\ UNCHANGED <<kind, handles, cached, lock, client, calls, kept>>

\* file: Mkdir, outside the Manager's mutex.
FileCreate(p) == kind = "file" /\ NewBucket(p)

\* mem: a new entry, under the mutex.
MemCreate(p) == kind = "mem" /\ lock = "" /\ NewBucket(p)

\* s3 asks with HeadBucket first, because us-east-1 answers a repeated
\* creation with success.
S3Create(p) == kind = "s3" /\ NewBucket(p)

\* The Store kept for the name, and a new one when the bucket exists.
KeptStore(h) == h = cached /\ UNCHANGED <<handles, cached>>
NewStore(h) ==
    /\ bkt # 0
    /\ h = Len(handles) + 1
    /\ handles' = Append(handles, [disk |-> bkt, closed |-> FALSE])
    /\ cached' = h

FileStore(h) == IF cached # 0 THEN KeptStore(h) ELSE NewStore(h)

\* mem keeps the Store in the bucket's entry: it goes with the disk.
MemStore(h) == IF cached # 0 /\ handles[cached].disk = bkt THEN KeptStore(h) ELSE NewStore(h)

\* s3 asks the region of a bucket it has no Store of; of two that do, the
\* first one's Store is kept.
S3Open(h) == IF cached # 0 THEN KeptStore(h) ELSE NewStore(h)

Store(h) ==
    CASE kind = "file" -> FileStore(h)
      [] kind = "mem" -> MemStore(h)
      [] OTHER -> S3Open(h)
Open(p) ==
    /\ client[p].pc = "idle"
    /\ lock = ""
    /\ \E h \in 1..Len(handles) + 1 :
          /\ client[p].h # h
          /\ Store(h)
          /\ client' = [client EXCEPT ![p].h = h]
    /\ UNCHANGED <<kind, bkt, disk, lock, calls, kept>>

-----------------------------------------------------------------------------
(* Put.                                                                     *)

Put(p, k) ==
    /\ client[p].h # 0
    /\ Begins(p, [client[p] EXCEPT !.op = "put", !.key = k,
                     !.pc = IF kind = "file" THEN "dirs" ELSE "store"])

\* file.Put: the folders of the key (MkdirAll); a folder marker is done then
\* (CreateFolder).  A file in the way of a folder is an error.
PutDirs(p) ==
    LET c == client[p]
        need == Above(c.key) \cup ({c.key} \cap Folders)
        d == disk[DiskOf(c.h)]
        made == [disk EXCEPT ![DiskOf(c.h)].dirs = @ \cup need]
    IN /\ c.pc = "dirs"
       /\ UNCHANGED <<kind, bkt, handles, cached, lock, calls>>
       /\ \/ /\ ~Usable(c.h) \/ \E f \in need : Twin[f] \in d.files
             /\ Returns(p)
             /\ UNCHANGED <<disk, kept>>
          \/ /\ Usable(c.h) /\ \A f \in need : Twin[f] \notin d.files
             /\ disk' = made
             /\ IF c.key \in Folders
                THEN /\ client' = Touched(p, Answered(c), need)
                     /\ Acknowledges(p, c.key)
                ELSE /\ client' = Touched(p, [c EXCEPT !.pc = "tmp"], need)
                     /\ UNCHANGED kept

\* A Put that writes the object in place, without a temporary file.
PutTmpInPlace(p) ==
    LET c == client[p]
        i == DiskOf(c.h)
    IN /\ c.pc = "tmp"
       /\ Usable(c.h) /\ (InFolder[c.key] # "" => InFolder[c.key] \in disk[i].dirs)
       /\ Twin[c.key] \notin disk[i].dirs
       /\ disk' = [disk EXCEPT ![i].files = @ \cup {c.key}, ![i].partial = @ \cup {c.key}]
       /\ Step(p, "copy")
       /\ UNCHANGED <<kind, bkt, handles, cached, lock, calls, kept>>

\* ... then a temporary file beside the object, whose folder another client
\* may have removed.
PutTmp(p) ==
    LET c == client[p]
        i == DiskOf(c.h)
        there == Usable(c.h) /\ (InFolder[c.key] # "" => InFolder[c.key] \in disk[i].dirs)
    IN /\ c.pc = "tmp"
       /\ IF there
          THEN /\ disk' = [disk EXCEPT ![i].tmps = @ \cup {<<p, InFolder[c.key]>>}]
               /\ client' = Touched(p, [c EXCEPT !.pc = "copy"], Above(c.key))
          ELSE Returns(p) /\ UNCHANGED disk
       /\ UNCHANGED <<kind, bkt, handles, cached, lock, calls, kept>>

\* ... the body copied into it, which may fail,
PutCopy(p) ==
    /\ client[p].pc = "copy"
    /\ Step(p, "rename") \/ Step(p, "cleanup")
    /\ UNCHANGED <<kind, bkt, disk, handles, cached, lock, calls, kept>>

\* ... and the rename over the object, which a folder of that name refuses.
PutRename(p) ==
    LET c == client[p]
        i == DiskOf(c.h)
    IN /\ c.pc = "rename"
       /\ IF handles[c.h].closed \/ Twin[c.key] \in disk[i].dirs
          THEN Step(p, "cleanup") /\ UNCHANGED <<disk, kept>>
          ELSE /\ disk' = [disk EXCEPT ![i].files = @ \cup {c.key}, ![i].partial = @ \ {c.key},
                                       ![i].tmps = @ \ {<<p, InFolder[c.key]>>}]
               /\ client' = Touched(p, Answered(c), {c.key})
               /\ Acknowledges(p, c.key)
       /\ UNCHANGED <<kind, bkt, handles, cached, lock, calls>>

\* A failed Put removes its temporary file.
PutCleanup(p) ==
    LET c == client[p]
    IN /\ c.pc = "cleanup"
       /\ disk' = IF handles[c.h].closed THEN disk
                  ELSE [disk EXCEPT ![DiskOf(c.h)].tmps = @ \ {<<p, InFolder[c.key]>>}]
       /\ Returns(p)
       /\ UNCHANGED <<kind, bkt, handles, cached, lock, calls, kept>>

\* mem.Put reads the body, which may fail, and sets the object under the
\* Store's mutex.
MemPut(p) ==
    LET c == client[p]
    IN /\ c.pc = "store" /\ kind = "mem"
       /\ \/ /\ disk' = [disk EXCEPT ![DiskOf(c.h)].files = @ \cup {c.key}]
             /\ client' = Touched(p, Answered(c), {c.key})
             /\ Acknowledges(p, c.key)
          \/ Returns(p) /\ UNCHANGED <<disk, kept>>
       /\ UNCHANGED <<kind, bkt, handles, cached, lock, calls>>

\* The service, external: it stores the object whole or answers with an
\* error, and an answer may be lost; without a bucket there is no object.
RemotePut(p) ==
    LET c == client[p]
        stored == [disk EXCEPT ![bkt].files = @ \cup {c.key}]
    IN /\ c.pc = "store"
       /\ \/ bkt # 0 /\ disk' = stored /\ client' = Touched(p, Answered(c), {c.key}) /\ Acknowledges(p, c.key)
          \/ bkt # 0 /\ disk' = stored /\ client' = Touched(p, Answered(c), {c.key}) /\ UNCHANGED kept
          \/ Returns(p) /\ UNCHANGED <<disk, kept>>
       /\ UNCHANGED <<kind, bkt, handles, cached, lock, calls>>

\* One Upload, in parts when the body is large or of unknown size.
S3Put(p) == kind = "s3" /\ RemotePut(p)

\* PutObject, or UploadStream for an unknown size.
OciPut(p) == kind = "oci" /\ RemotePut(p)

-----------------------------------------------------------------------------
(* Delete, alone or as a step of DeletePrefix.                              *)

Delete(p, k) ==
    /\ client[p].h # 0
    /\ Begins(p, [client[p] EXCEPT !.op = "delete", !.key = k, !.pc = "del", !.todo = {k}])

\* A deletion that takes the keys in lexical order.
NthFirst(c) == FirstKey(c.todo)

\* The key at hand, and what follows its deletion or its error.
Nth(c) == LastKey(c.todo)
Deleted(c) ==
    IF c.op = "delete" THEN Answered(c)
    ELSE [c EXCEPT !.todo = @ \ {Nth(c)}, !.pc = IF c.todo = {Nth(c)} THEN "emptied" ELSE "del"]

\* file.Delete of a file key removes the file, or the empty folder of that
\* name; a folder that is not empty is an error, nothing there is not.
FileDelete(p) ==
    LET c == client[p]
        i == DiskOf(c.h)
        d == disk[i]
    IN /\ c.pc = "del" /\ kind = "file"
       /\ Nth(c) \notin Folders
       /\ IF handles[c.h].closed \/ (Twin[Nth(c)] \in d.dirs /\ ~Bare(d, Twin[Nth(c)]))
          THEN Returns(p) /\ UNCHANGED disk
          ELSE /\ disk' = [disk EXCEPT ![i].files = @ \ {Nth(c)}, ![i].dirs = @ \ {Twin[Nth(c)]}]
               /\ client' = [client EXCEPT ![p] = Deleted(c)]
       /\ UNCHANGED <<kind, bkt, handles, cached, lock, calls, kept>>

\* ... and of a folder marker looks at the folder first: one that is missing
\* or not empty is left alone.
FolderRead(p) ==
    LET c == client[p]
        d == disk[DiskOf(c.h)]
    IN /\ c.pc = "del" /\ kind = "file"
       /\ Nth(c) \in Folders
       /\ client' = [client EXCEPT ![p] =
             IF handles[c.h].closed \/ Nth(c) \notin d.dirs \/ ~Bare(d, Nth(c))
             THEN Deleted(c) ELSE [c EXCEPT !.pc = "rmfolder"]]
       /\ UNCHANGED <<kind, bkt, disk, handles, cached, lock, calls, kept>>

\* ... and removes it, which fails when something was put there meanwhile.
FolderRemove(p) ==
    LET c == client[p]
        i == DiskOf(c.h)
        d == disk[i]
    IN /\ c.pc = "rmfolder"
       /\ IF handles[c.h].closed \/ ~Bare(d, Nth(c)) \/ Twin[Nth(c)] \in d.files
          THEN Returns(p) /\ UNCHANGED disk
          ELSE /\ disk' = [disk EXCEPT ![i].dirs = @ \ {Nth(c)}]
               /\ client' = [client EXCEPT ![p] = Deleted(c)]
       /\ UNCHANGED <<kind, bkt, handles, cached, lock, calls, kept>>

\* mem.DeleteMany, and mem.Delete for one key: all under the mutex.
MemDelete(p) ==
    LET c == client[p]
    IN /\ c.pc = "del" /\ kind = "mem"
       /\ disk' = [disk EXCEPT ![DiskOf(c.h)].files = @ \ c.todo]
       /\ client' = [client EXCEPT ![p] = IF c.op = "delete" THEN Answered(c)
                                          ELSE [c EXCEPT !.todo = {}, !.pc = "emptied"]]
       /\ UNCHANGED <<kind, bkt, handles, cached, lock, calls, kept>>

\* s3.DeleteMany (and Delete): one request; the keys its answer reports, or
\* the request's failure, are errors, and a failed request may have deleted.
S3Delete(p) ==
    LET c == client[p]
    IN /\ c.pc = "del" /\ kind = "s3"
       /\ \E gone \in SUBSET c.todo :
             /\ disk' = IF bkt = 0 THEN disk ELSE [disk EXCEPT ![bkt].files = @ \ gone]
             /\ IF bkt # 0 /\ gone = c.todo
                THEN client' = [client EXCEPT ![p] = IF c.op = "delete" THEN Answered(c)
                                                     ELSE [c EXCEPT !.todo = {}, !.pc = "emptied"]]
                ELSE Returns(p)
       /\ UNCHANGED <<kind, bkt, handles, cached, lock, calls, kept>>

\* oci.Delete: one key; 404 is success, for a missing bucket too.
OciDelete(p) ==
    LET c == client[p]
    IN /\ c.pc = "del" /\ kind = "oci"
       /\ \/ /\ disk' = IF bkt = 0 THEN disk ELSE [disk EXCEPT ![bkt].files = @ \ {Nth(c)}]
             /\ client' = [client EXCEPT ![p] = Deleted(c)]
          \/ Returns(p) /\ UNCHANGED disk
       /\ UNCHANGED <<kind, bkt, handles, cached, lock, calls, kept>>

-----------------------------------------------------------------------------
(* DeletePrefix: list, then delete from the last key to the first.          *)

\* What the caller may expect to be gone: what is there now, folders of the
\* file system included, unless a temporary file was left in them.
Present(d, prefix) ==
    {k \in d.files \cup d.dirs : Under(prefix, k) /\ (k \in d.dirs => \A t \in d.tmps : t[2] # k)}
Listing(c, prefix) ==
    [c EXCEPT !.pc = IF kind = "file" THEN "root" ELSE "list",
              !.target = IF DiskOf(c.h) = 0 THEN {} ELSE Present(disk[DiskOf(c.h)], prefix)]

DeletePrefix(p, prefix) ==
    /\ client[p].h # 0
    /\ Begins(p, Listing([client[p] EXCEPT !.op = "prefix", !.key = prefix], prefix))

\* The keys to delete: those listed and the folders they imply.
Implied(c) ==
    [c EXCEPT !.todo = c.listed \cup UNION {{f \in Above(k) : Under(c.key, f)} : k \in c.listed},
              !.pc = IF c.listed = {} THEN "emptied" ELSE "del"]

\* file.All: WalkDir reads the root, which a closed Store cannot,
WalkRoot(p) ==
    LET c == client[p]
    IN /\ c.pc = "root"
       /\ IF handles[c.h].closed THEN Returns(p)
          ELSE client' = [client EXCEPT ![p].todo = Entries(disk[DiskOf(c.h)], ""),
                                        ![p].pc = "walk"]
       /\ UNCHANGED <<kind, bkt, disk, handles, cached, lock, calls, kept>>

\* ... then every entry in lexical order, temporary files skipped: an empty
\* folder lists as its marker, an entry that went away meanwhile is an error.
WalkEntry(p) ==
    LET c == client[p]
        d == disk[DiskOf(c.h)]
        e == FirstKey(c.todo)
        below == Entries(d, e)
    IN /\ c.pc = "walk" /\ c.todo # {}
       /\ client' = [client EXCEPT ![p] =
             IF handles[c.h].closed \/ e \notin d.files \cup d.dirs THEN Answered(c)
             ELSE IF e \in d.dirs
             THEN [c EXCEPT !.todo = (@ \ {e}) \cup below,
                            !.listed = IF Under(c.key, e) /\ Bare(d, e) THEN @ \cup {e} ELSE @]
             ELSE [c EXCEPT !.todo = @ \ {e}, !.listed = IF Under(c.key, e) THEN @ \cup {e} ELSE @]]
       /\ UNCHANGED <<kind, bkt, disk, handles, cached, lock, calls, kept>>
WalkEnds(p) ==
    /\ client[p].pc = "walk" /\ client[p].todo = {}
    /\ client' = [client EXCEPT ![p] = Implied(@)]
    /\ UNCHANGED <<kind, bkt, disk, handles, cached, lock, calls, kept>>

\* mem.All copies the keys under the read lock.
MemList(p) ==
    LET c == client[p]
    IN /\ c.pc = "list" /\ kind = "mem"
       /\ client' = [client EXCEPT ![p] =
             Implied([c EXCEPT !.listed = {k \in disk[DiskOf(c.h)].files : Under(c.key, k)}])]
       /\ UNCHANGED <<kind, bkt, disk, handles, cached, lock, calls, kept>>

\* A page of the service's listing, external, as the bucket is when the page
\* is asked for; it may fail.  Here a page holds one key, or none.
RemotePage(p) ==
    LET c == client[p]
        rest == IF bkt = 0 THEN {}
                ELSE {k \in disk[bkt].files : Under(c.key, k) /\ (c.listed = {} \/
                         SelectInSeq(Keys, LAMBDA x : x = k) > SelectLastInSeq(Keys, LAMBDA x : x \in c.listed))}
    IN /\ c.pc = "list"
       /\ \/ Returns(p)
          \/ /\ bkt # 0
             /\ client' = [client EXCEPT ![p] = IF rest = {} THEN Implied(c)
                                                ELSE [c EXCEPT !.listed = @ \cup {FirstKey(rest)}]]
       /\ UNCHANGED <<kind, bkt, disk, handles, cached, lock, calls, kept>>

\* s3.All: the paginator, while it has more pages.
S3Page(p) == kind = "s3" /\ RemotePage(p)

\* oci.All: NextStartWith of a page starts the next.
OciPage(p) == kind = "oci" /\ RemotePage(p)

\* DeletePrefix returns without error.
PrefixDeleted(p) ==
    /\ client[p].pc = "emptied"
    /\ IF client[p].op = "prefix" THEN Returns(p)
       ELSE client' = [client EXCEPT ![p] = [@ EXCEPT !.pc = "check", !.target = {}, !.listed = {}]]
    /\ UNCHANGED <<kind, bkt, disk, handles, cached, lock, calls, kept>>

-----------------------------------------------------------------------------
(* Manager: DeleteBucket.                                                   *)

\* The Store of the name, and with Force its objects deleted first.  OCI has
\* no Manager.
DeleteBucket(p, force) ==
    /\ client[p].pc = "idle" /\ kind # "oci"
    /\ calls < MaxBucketCalls
    /\ lock = ""
    /\ \E h \in 1..Len(handles) + 1 :
          LET c == [client[p] EXCEPT !.op = "drop", !.h = h, !.force = force]
          IN /\ Store(h)
             /\ client' = [client EXCEPT ![p] =
                   IF ~force THEN [c EXCEPT !.pc = "check"]
                   ELSE [c EXCEPT !.pc = IF kind = "file" THEN "root" ELSE "list",
                                  !.target = IF bkt = 0 \/ (~Remote /\ h <= Len(handles) /\ handles[h].disk # bkt)
                                             THEN {} ELSE Present(disk[bkt], "")]]
             /\ kept' = {k \in kept : ~Deletes(c, k)}
    /\ calls' = calls + 1
    /\ UNCHANGED <<kind, bkt, disk, lock>>

\* file: under the Manager's mutex, ReadDir of the bucket's directory; an
\* empty one is evicted and its Store closed,
FileCheck(p) ==
    LET c == client[p]
    IN /\ c.pc = "check" /\ kind = "file"
       /\ lock = ""
       /\ IF bkt = 0 \/ ~Bare(disk[bkt], "")
          THEN Returns(p) /\ UNCHANGED <<handles, cached, lock>>
          ELSE /\ cached' = 0
               /\ handles' = [handles EXCEPT ![c.h].closed = TRUE]
               /\ lock' = p
               /\ Step(p, "rmdir")
       /\ UNCHANGED <<kind, bkt, disk, calls, kept>>

\* ... and the directory removed, unless it is empty no longer.
FileRemove(p) ==
    /\ client[p].pc = "rmdir"
    /\ bkt' = IF bkt # 0 /\ Bare(disk[bkt], "") THEN 0 ELSE bkt
    /\ lock' = ""
    /\ Returns(p)
    /\ UNCHANGED <<kind, disk, handles, cached, calls, kept>>

\* mem: the Store it looked up must be empty, the entry of the name goes.
MemDrop(p) ==
    LET c == client[p]
    IN /\ c.pc = "check" /\ kind = "mem"
       /\ bkt' = IF disk[handles[c.h].disk].files = {} THEN 0 ELSE bkt
       /\ Returns(p)
       /\ UNCHANGED <<kind, disk, handles, cached, lock, calls, kept>>

\* s3: the service refuses a bucket that is not empty; the Store is evicted
\* when the bucket is gone.  An answer may be lost.
S3Drop(p) ==
    /\ client[p].pc = "check" /\ kind = "s3"
    /\ \/ /\ bkt # 0 => disk[bkt].files = {}
          /\ bkt' = 0
          /\ cached' \in {0, cached}
       \/ UNCHANGED <<bkt, cached>>
    /\ Returns(p)
    /\ UNCHANGED <<kind, disk, handles, lock, calls, kept>>

-----------------------------------------------------------------------------
\* The process dies: Stores and calls are gone, files and objects are not.
Crash ==
    /\ kind # "mem"
    /\ \E p \in Clients : client[p].pc \notin {"idle", "emptied"}
    /\ client' = [p \in Clients |-> AtRest]
    /\ handles' = <<>>
    /\ cached' = 0
    /\ lock' = ""
    /\ UNCHANGED <<kind, bkt, disk, calls, kept>>

BucketNext ==
    \/ \E p \in Clients :
        \/ FileCreate(p) \/ MemCreate(p) \/ S3Create(p) \/ Open(p)
        \/ \E k \in ToSet(Keys) : Put(p, k) \/ Delete(p, k)
        \/ PutDirs(p) \/ PutTmp(p) \/ PutCopy(p) \/ PutRename(p) \/ PutCleanup(p)
        \/ MemPut(p) \/ S3Put(p) \/ OciPut(p)
        \/ FileDelete(p) \/ FolderRead(p) \/ FolderRemove(p)
        \/ MemDelete(p) \/ S3Delete(p) \/ OciDelete(p)
        \/ \E x \in Roots : DeletePrefix(p, x)
        \/ WalkRoot(p) \/ WalkEntry(p) \/ WalkEnds(p) \/ MemList(p) \/ S3Page(p) \/ OciPage(p)
        \/ PrefixDeleted(p)
        \/ \E force \in BOOLEAN : DeleteBucket(p, force)
        \/ FileCheck(p) \/ FileRemove(p) \/ MemDrop(p) \/ S3Drop(p)
    \/ Crash

-----------------------------------------------------------------------------
\* "DeleteBucket returns ErrBucketNotEmpty without Force" and "readers never
\* see a partial object": an object or folder whose Put returned nil, and
\* that nobody deletes by its key, its prefix or with Force, is there and
\* whole whatever else the clients do, drop and create the bucket again
\* included, and after a crash.  (The in-memory Store does not promise it to
\* clients that race: its DeleteBucket may take another bucket's objects.)
ObjectsKept ==
    kind # "mem" => \A k \in kept : /\ bkt # 0
                                    /\ k \in disk[bkt].files \cup disk[bkt].dirs
                                    /\ k \notin disk[bkt].partial

\* "DeletePrefix deletes every object under prefix ... stores that model
\* folders natively end up without the subtree too": when it returns without
\* error, whatever was under the prefix when it began, and was not put again
\* since, is gone.
PrefixGone ==
    \A p \in Clients :
        client[p].pc = "emptied" /\ DiskOf(client[p].h) # 0 =>
            client[p].target \cap (disk[DiskOf(client[p].h)].files \cup disk[DiskOf(client[p].h)].dirs) = {}
=============================================================================
