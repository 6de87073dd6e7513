------------------------------- MODULE RpmbFs -------------------------------
(***************************************************************************)
(* The RPMB file system, core/tee/tee_rpmb_fs.c, over a replay protected   *)
(* device that is reached through normal world.                            *)
(*                                                                         *)
(* The unit of everything is the block of 256 bytes: one authenticated     *)
(* write request carries one block (rel_wr_blkcnt is 1 unless              *)
(* RPMB_DRIVER_MULTIPLE_WRITE_FIXED is defined) and one FAT entry is one   *)
(* block.  Block 0 holds the partition data, the FAT starts at block       *)
(* FatStart, files are allocated from the top.  A file is a sequence of    *)
(* blocks, the first of which stands for the head and the attributes of    *)
(* the object; keys and MACs are left out.                                 *)
(*                                                                         *)
(* rpmb_mutex is held during every operation, so one operation runs at a   *)
(* time: "op" is its state and "todo" the block writes that the code will  *)
(* issue one after the other before it decides again.  Normal world may    *)
(* lose a request or an answer, hold a request back and deliver it later   *)
(* or in place of another one, and power may be cut between any two steps. *)
(* An answer that arrives is the device's answer to the request that was   *)
(* delivered.                                                              *)
(***************************************************************************)
EXTENDS Integers, Sequences, FiniteSets, FiniteSetsExt

CONSTANTS
    Names,      \* object identifiers
    Values,     \* what a data block may hold
    Zero,       \* a block of zeros, a member of Values
    NoName,     \* the file name of a cleared FAT entry
    Blocks,     \* fs_par->max_rpmb_address in blocks
    MaxLen,     \* bound: blocks of a file
    TmpBlocks,  \* TMP_BLOCK_SIZE in blocks
    MaxRetries, \* RPMB_MAX_RETRIES
    MaxCnt,     \* bound: writes of the device
    MaxFaults,  \* bound: lost, late or unsent requests
    MaxCuts,    \* bound: power cuts
    Cases       \* what the environment may also do, see CaseNames

(* rename_use: a handle is used after its object was renamed; full_create: *)
(* a file is created when the FAT cannot grow; leftover: a power cut left  *)
(* a temporary file that is longer than the one to be created; expand_fail,*)
(* format_fail: the request that grows the FAT, or the last one of a       *)
(* format, cannot be made.                                                 *)
CaseNames == {"rename_use", "full_create", "leftover", "expand_fail", "format_fail"}

ASSUME ConstantsAssumption ==
    /\ Zero \in Values /\ NoName \notin Names
    /\ {Blocks, MaxLen, TmpBlocks, MaxRetries, MaxCnt, MaxFaults, MaxCuts} \subseteq Nat
    /\ MaxRetries > 0 /\ TmpBlocks > 0
    /\ Cases \subseteq CaseNames

VARIABLES
    cnt,        \* write counter of the device
    blk,        \* blocks of the device
    held,       \* requests that normal world holds back
    ram,        \* rpmb_ctx, rpmb_dead and fs_par
    fh,         \* the open handle
    op,         \* the operation that holds rpmb_mutex
    todo,       \* block writes left before op continues
    retry,      \* retry_count of write_req()
    allowed,    \* history: the contents each object may have now
    faults, cuts

vars == <<cnt, blk, held, ram, fh, op, todo, retry, allowed, faults, cuts>>

FatStart == 2   \* RPMB_FS_FAT_START_ADDRESS

----------------------------------------------------------------------------
(* Blocks.  A file name is an object identifier and the mark of the        *)
(* temporary name ("/TA_uuid/.object_id").                                 *)

FileNames == Names \X BOOLEAN
Temporary(n) == <<n, TRUE>>
Final(n) == <<n, FALSE>>

Blank == [kind |-> "blank"]
Partition == [kind |-> "partition"]
DataBlock(v) == [kind |-> "data", value |-> v]
Entry(name, start, size) ==
    [kind |-> "entry", active |-> TRUE, last |-> FALSE,
     name |-> name, start |-> start, size |-> size]
Cleared == [Entry(NoName, 0, 0) EXCEPT !.active = FALSE]
LastEntry == [Cleared EXCEPT !.last = TRUE]

(* The zeros of a blank block read as a cleared entry, and so does here    *)
(* the ciphertext of a data block.                                         *)
EntryAt(a) == IF blk[a].kind = "entry" THEN blk[a] ELSE Cleared

----------------------------------------------------------------------------
(* read_fat().  The scan ends at the first entry marked as the last one.   *)

Terminated == \E a \in FatStart .. Blocks - 1 : EntryAt(a).last
LastAddr == Min({a \in FatStart .. Blocks - 1 : EntryAt(a).last})
Fat == IF Terminated THEN FatStart .. LastAddr ELSE FatStart .. Blocks - 1
Matching(name) == {a \in Fat : EntryAt(a).active /\ EntryAt(a).name = name}
Area(e) == IF e.active THEN e.start .. e.start + e.size - 1 ELSE {}
DataAddrs == UNION {Area(EntryAt(a)) : a \in Fat}

(* Without a pool: the first match, or what the handle holds when it has   *)
(* an address already.                                                     *)
Found(h) == IF Matching(h.name) # {}
            THEN LET a == Min(Matching(h.name)) IN [h EXCEPT !.addr = a, !.ent = EntryAt(a)]
            ELSE h
ReadFatOk(h) == Terminated /\ Found(h).addr # 0

(* With a pool a handle without an address gets the first unused entry,    *)
(* and when that is the last one the FAT is to grow by an entry.           *)
Chosen(h) ==
    LET free == {a \in Fat : ~EntryAt(a).active}
    IN IF Found(h).addr # 0 \/ free = {} THEN Found(h)
       ELSE [h EXCEPT !.addr = Min(free), !.ent = EntryAt(Min(free))]
Expand(h) == Chosen(h).addr = LastAddr
FatEnd_NoRoom(h) == LastAddr
FatEnd(h) == LastAddr + (IF Expand(h) THEN 1 ELSE 0)
PoolOk(h) ==
    /\ Terminated
    /\ FatEnd(h) < Blocks
    /\ DataAddrs \cap (0 .. FatEnd(h)) = {}
    /\ DataAddrs \subseteq 0 .. Blocks - 1
    /\ \A a, b \in Fat : a # b => Area(EntryAt(a)) \cap Area(EntryAt(b)) = {}
Used(h) == DataAddrs \cup (0 .. FatEnd(h))
GrowFat(h) == IF Expand(h) THEN <<[addr |-> LastAddr + 1, val |-> LastEntry, use |-> "last"]>>
              ELSE <<>>

(* tee_mm_alloc() with TEE_MM_POOL_HI_ALLOC: the highest gap that fits.    *)
Gaps_PastEnd(used, n) == {s \in 0 .. Blocks - n + 1 : (s .. s + n - 1) \cap used = {}}
Gaps(used, n) == {s \in 0 .. Blocks - n : (s .. s + n - 1) \cap used = {}}

----------------------------------------------------------------------------
(* Contents.                                                               *)

NoFile == <<[kind |-> "no file"]>>
DataOf(e) == [i \in 1 .. e.size |-> blk[e.start + i - 1]]
Content(n) ==
    IF blk[0] # Partition \/ Matching(Final(n)) = {} THEN NoFile
    ELSE DataOf(EntryAt(Min(Matching(Final(n)))))

MaxOf(i, j) == IF i > j THEN i ELSE j
BlocksOf(old, i) == IF i <= Len(old) THEN old[i] ELSE DataBlock(Zero)

(* What a write of "new" at position pos (from 0) is to leave.             *)
Spliced(old, pos, new) ==
    [i \in 1 .. MaxOf(Len(old), pos + Len(new)) |->
        IF i > pos /\ i <= pos + Len(new) THEN new[i - pos] ELSE BlocksOf(old, i)]

(* update_write_helper(): a temporary buffer of TmpBlocks blocks is filled *)
(* with old data only when it starts before pos.                           *)
UpdateWriteHelper(old, pos, new) ==
    [i \in 1 .. MaxOf(Len(old), pos + Len(new)) |->
        LET offset == ((i - 1) \div TmpBlocks) * TmpBlocks
        IN IF i > pos /\ i <= pos + Len(new) THEN new[i - pos]
           ELSE IF offset < pos THEN BlocksOf(old, i) ELSE DataBlock(Zero)]

DataWrites(start, data) ==
    [i \in 1 .. Len(data) |-> [addr |-> start + i - 1, val |-> data[i], use |-> "data"]]
EntryWrite(h) == [addr |-> h.addr, val |-> h.ent, use |-> "entry"]

----------------------------------------------------------------------------
(* A handle: the object it was opened for (struct tee_pobj), its filename,  *)
(* the address of its FAT entry, 0 when it has none, and its copy of it.   *)
NewHandle(n, name) == [obj |-> n, name |-> name, addr |-> 0, ent |-> Cleared]
NoHandle == NewHandle(NoName, Final(NoName))

(* An operation: what it is and how far it got, the object, flag and data  *)
(* of a create and the position it has reached, the entry before the       *)
(* operation and, for the history, the contents it is to give to objects,  *)
(* the contents allowed before, and those an object may have in between.   *)
Idle == [kind |-> "idle", stage |-> "", obj |-> NoName, overwrite |-> FALSE, data |-> <<>>,
         pos |-> 0, ent |-> Cleared, new |-> <<>>, before |-> <<>>, mid |-> {}]
Off == [wr_cnt |-> 0, synced |-> FALSE, dead |-> FALSE, par |-> FALSE]

Init ==
    /\ cnt = 0
    /\ blk = [a \in 0 .. Blocks - 1 |-> Blank]
    /\ held = {}
    /\ ram = Off
    /\ fh = NoHandle
    /\ op = Idle
    /\ todo = <<>>
    /\ retry = 0
    /\ allowed = [n \in Names |-> {NoFile}]
    /\ faults = 0
    /\ cuts = 0

Device == <<cnt, blk, held, ram, retry, faults, cuts>>

----------------------------------------------------------------------------
(* Ends of an operation.  allowed is a history variable: while an          *)
(* operation runs an object may have its old or its new content, after it  *)
(* only the one that the result tells.                                     *)

Begin(o, new) ==
    /\ op' = [o EXCEPT !.new = new, !.before = allowed]
    /\ allowed' = [n \in Names |-> allowed[n] \cup (IF n \in DOMAIN new THEN {new[n]} ELSE {})]
Succeed ==
    /\ op' = Idle
    /\ allowed' = [n \in Names |-> IF n \in DOMAIN op.new THEN {op.new[n]} ELSE allowed[n]]
Fail ==
    /\ op' = Idle
    /\ allowed' = [n \in Names |->
                     IF n \in DOMAIN op.new THEN op.before[n] \cup op.mid ELSE allowed[n]]

(* A request could not be made or a read failed: nothing was sent.         *)
(* rpmb_fs_setup() stores fs_par although its last write failed, and       *)
(* rpmb_fs_create() goes on to remove the file.                            *)
OpFails ==
    \/ /\ op.kind = "setup"
       /\ ram' = [ram EXCEPT !.par = Head(todo).use = "partition"]
       /\ op' = Idle
       /\ UNCHANGED <<fh, allowed>>
    \/ /\ op.kind = "create" /\ op.stage # "undoing"
       /\ op' = [op EXCEPT !.stage = "undo"]
       /\ UNCHANGED <<ram, fh, allowed>>
    \/ /\ op.kind = "create" /\ op.stage = "undoing"
       /\ Fail
       /\ fh' = NoHandle
       /\ UNCHANGED ram
    \/ /\ op.kind \in {"write", "truncate", "rename", "remove"}
       /\ Fail
       /\ fh' = IF op.kind = "remove" THEN NoHandle
                ELSE IF op.kind = "rename" \/ Head(todo).use = "entry" THEN fh
                ELSE [fh EXCEPT !.ent = op.ent]
       /\ UNCHANGED ram

----------------------------------------------------------------------------
(* write_req(): one authenticated write, sent until it is answered.        *)

Req == [cnt |-> IF retry = 0 /\ ~ram.synced THEN cnt ELSE ram.wr_cnt,
        addr |-> Head(todo).addr, val |-> Head(todo).val]

(* The device takes a request that carries its counter.                    *)
Commit(r) ==
    /\ r.cnt = cnt
    /\ cnt < MaxCnt
    /\ cnt' = cnt + 1
    /\ blk' = [blk EXCEPT ![r.addr] = r.val]
    /\ held' = {h \in held : h.cnt > cnt}
Untaken == UNCHANGED <<cnt, blk>>

Answered ==
    /\ ram' = [ram EXCEPT !.wr_cnt = Req.cnt + 1, !.synced = retry = 0]
    /\ todo' = Tail(todo)
    /\ retry' = 0
    /\ UNCHANGED <<fh, op, allowed>>

(* The result is known to nobody when the retries are used up: every later *)
(* operation is refused and the TA panics.                                 *)
TryAgain ==
    IF retry + 1 < MaxRetries
    THEN /\ retry' = retry + 1
         /\ ram' = [ram EXCEPT !.wr_cnt = Req.cnt, !.synced = FALSE]
         /\ UNCHANGED <<fh, op, todo, allowed>>
    ELSE /\ retry' = 0
         /\ ram' = [ram EXCEPT !.dead = TRUE]
         /\ fh' = NoHandle
         /\ op' = Idle
         /\ todo' = <<>>
         /\ UNCHANGED allowed

Fault == faults < MaxFaults /\ faults' = faults + 1
Sending == todo # <<>>

SendOk ==
    /\ Sending
    /\ Commit(Req)
    /\ Answered
    /\ UNCHANGED <<faults, cuts>>

SendRefused ==
    /\ Sending
    /\ Req.cnt # cnt
    /\ TryAgain
    /\ UNCHANGED <<held, faults, cuts>> /\ Untaken

SendLost ==
    /\ Sending
    /\ Fault
    /\ held' = held \cup {r \in {Req} : r.cnt = cnt}
    /\ TryAgain
    /\ UNCHANGED cuts /\ Untaken

AnswerLost ==
    /\ Sending
    /\ Fault
    /\ Commit(Req)
    /\ TryAgain
    /\ UNCHANGED cuts

(* Another request reaches the device first and its answer comes back: it  *)
(* is taken for the answer when the block and the counter agree.           *)
SendSwapped ==
    /\ Sending
    /\ Fault
    /\ \E h \in held \ {Req} :
        /\ Commit(h)
        /\ IF h.addr = Req.addr /\ h.cnt = Req.cnt THEN Answered ELSE TryAgain
    /\ UNCHANGED cuts

Unsent ==
    /\ Sending
    /\ retry = 0
    /\ Fault
    /\ Head(todo).use = "last" => "expand_fail" \in Cases
    /\ Head(todo).use = "partition" => "format_fail" \in Cases
    /\ OpFails
    /\ todo' = <<>>
    /\ UNCHANGED <<cnt, blk, held, retry, cuts>>

Late ==
    /\ \E h \in held : Commit(h)
    /\ UNCHANGED <<ram, fh, op, todo, retry, allowed, faults, cuts>>

PowerCut ==
    /\ cuts < MaxCuts
    /\ cuts' = cuts + 1
    /\ ram' = Off
    /\ fh' = NoHandle
    /\ op' = Idle
    /\ todo' = <<>>
    /\ retry' = 0
    /\ UNCHANGED <<cnt, blk, held, allowed, faults>>

----------------------------------------------------------------------------
(* rpmb_fs_setup(), run by the first operation after a boot.               *)

Setup_NoDummy ==
    /\ op = Idle
    /\ ~ram.dead /\ ~ram.par
    /\ ram' = [ram EXCEPT !.wr_cnt = cnt, !.synced = TRUE]
    /\ op' = [Idle EXCEPT !.kind = "setup", !.stage = "dummy"]
    /\ UNCHANGED <<cnt, blk, held, fh, todo, retry, allowed, faults, cuts>>

Setup ==
    /\ op = Idle
    /\ ~ram.dead /\ ~ram.par
    /\ ram' = [ram EXCEPT !.wr_cnt = cnt, !.synced = TRUE]
    /\ op' = [Idle EXCEPT !.kind = "setup", !.stage = "dummy"]
    /\ todo' = <<[addr |-> 0, val |-> blk[0], use |-> "dummy"]>>
    /\ UNCHANGED <<cnt, blk, held, fh, retry, allowed, faults, cuts>>

SetupEnds ==
    /\ op' = Idle
    /\ ram' = [ram EXCEPT !.par = TRUE]
    /\ allowed' = [n \in Names |-> {Content(n)}]
    /\ UNCHANGED todo

SetupDummyDone ==
    /\ op.kind = "setup" /\ op.stage = "dummy" /\ todo = <<>>
    /\ \/ blk[0] = Partition /\ SetupEnds
       \/ /\ blk[0] # Partition
          /\ todo' = <<[addr |-> FatStart, val |-> LastEntry, use |-> "entry"],
                       [addr |-> 0, val |-> Partition, use |-> "partition"]>>
          /\ op' = [op EXCEPT !.stage = "format"]
          /\ UNCHANGED <<ram, allowed>>
    /\ UNCHANGED <<cnt, blk, held, fh, retry, faults, cuts>>

SetupFormatDone ==
    /\ op.kind = "setup" /\ op.stage = "format" /\ todo = <<>>
    /\ SetupEnds
    /\ UNCHANGED <<cnt, blk, held, fh, retry, faults, cuts>>

----------------------------------------------------------------------------
Ready == op = Idle /\ ram.par /\ ~ram.dead
Opened == fh # NoHandle

Open(n) ==
    /\ Ready /\ ~Opened
    /\ ReadFatOk(NewHandle(n, Final(n)))
    /\ fh' = Found(NewHandle(n, Final(n)))
    /\ UNCHANGED <<Device, op, todo, allowed>>

Close ==
    /\ Ready /\ Opened
    /\ fh' = NoHandle
    /\ UNCHANGED <<Device, op, todo, allowed>>

(* rpmb_fs_write_primitive() up to its block writes: h with the entry that *)
(* is to be stored, and the writes, none when it fails.                    *)
InPlace(e, pos, new) == pos + Len(new) <= e.size /\ Len(new) = 1
NewSize(e, pos, new) == MaxOf(e.size, pos + Len(new))
WriteFits(h, pos, new) ==
    /\ PoolOk(h)
    /\ LET e == Chosen(h).ent
       IN InPlace(e, pos, new) \/ Gaps(Used(h), NewSize(e, pos, new)) # {}
WriteHandle(h, pos, new) ==
    LET c == Chosen(h)
    IN IF InPlace(c.ent, pos, new) THEN c
       ELSE [c EXCEPT !.ent.size = NewSize(c.ent, pos, new),
                      !.ent.start = Max(Gaps(Used(h), NewSize(c.ent, pos, new)))]
WriteTodo(h, pos, new) ==
    LET c == Chosen(h)
        w == WriteHandle(h, pos, new)
    IN GrowFat(h) \o
       IF InPlace(c.ent, pos, new) THEN DataWrites(c.ent.start + pos, new)
       ELSE Append(DataWrites(w.ent.start, UpdateWriteHelper(DataOf(c.ent), pos, new)),
                   EntryWrite(w))

Write(pos, new) ==
    /\ Ready /\ Opened
    /\ \/ /\ WriteFits(fh, pos, new)
          /\ fh' = WriteHandle(fh, pos, new)
          /\ todo' = WriteTodo(fh, pos, new)
          /\ Begin([Idle EXCEPT !.kind = "write", !.ent = Chosen(fh).ent],
                   [n \in {fh.obj} |-> Spliced(DataOf(Chosen(fh).ent), pos, new)])
       \/ /\ ~WriteFits(fh, pos, new)
          /\ fh' = Chosen(fh)
          /\ UNCHANGED <<op, todo, allowed>>
    /\ UNCHANGED Device

(* rpmb_fs_truncate(): only an extension moves the file.                   *)
Truncate(len) ==
    /\ Ready /\ Opened
    /\ ReadFatOk(fh)
    /\ LET c == Found(fh)
           old == DataOf(c.ent)
           new == [i \in 1 .. len |-> BlocksOf(old, i)]
           fits == PoolOk(c) /\ Gaps(Used(c), len) # {}
       IN \/ /\ len <= c.ent.size
             /\ fh' = [c EXCEPT !.ent.size = len]
             /\ todo' = <<EntryWrite(fh')>>
             /\ Begin([Idle EXCEPT !.kind = "truncate", !.ent = c.ent], [n \in {fh.obj} |-> new])
          \/ /\ len > c.ent.size /\ fits
             /\ fh' = [c EXCEPT !.ent.size = len, !.ent.start = Max(Gaps(Used(c), len))]
             /\ todo' = GrowFat(c) \o Append(DataWrites(fh'.ent.start, new), EntryWrite(fh'))
             /\ Begin([Idle EXCEPT !.kind = "truncate", !.ent = c.ent], [n \in {fh.obj} |-> new])
          \/ /\ len > c.ent.size /\ ~fits
             /\ fh' = c
             /\ UNCHANGED <<op, todo, allowed>>
    /\ UNCHANGED Device

(* rpmb_fs_rename(): no overwriting.  The handle that the caller holds     *)
(* keeps the file name it was opened with.                                 *)
Rename(n) ==
    LET old == Found(NewHandle(fh.obj, Final(fh.obj)))
    IN /\ Ready /\ Opened
       /\ n # fh.obj
       /\ old.addr # 0
       /\ Matching(Final(n)) = {}
       /\ todo' = <<EntryWrite([old EXCEPT !.ent.name = Final(n)])>>
       /\ Begin([Idle EXCEPT !.kind = "rename", !.obj = n],
                [m \in {n, fh.obj} |-> IF m = n THEN DataOf(old.ent) ELSE NoFile])
       /\ UNCHANGED <<Device, fh>>

(* rpmb_fs_remove(), after which the caller closes the handle.             *)
Remove ==
    LET h == Found(NewHandle(fh.obj, Final(fh.obj)))
    IN /\ Ready /\ Opened
       /\ h.addr # 0
       /\ todo' = <<EntryWrite([h EXCEPT !.ent = Cleared])>>
       /\ Begin([Idle EXCEPT !.kind = "remove"], [n \in {fh.obj} |-> NoFile])
       /\ UNCHANGED <<Device, fh>>

OpDone ==
    /\ op.kind \in {"write", "truncate", "rename", "remove"} /\ todo = <<>>
    /\ Succeed
    /\ fh' = IF op.kind = "remove" \/ (op.kind = "rename" /\ "rename_use" \notin Cases)
             THEN NoHandle
             ELSE IF op.kind = "rename" THEN [fh EXCEPT !.obj = op.obj] ELSE fh
    /\ UNCHANGED <<Device, todo>>

----------------------------------------------------------------------------
(* rpmb_fs_create(): a file under the temporary name gets its blocks one   *)
(* rpmb_fs_write_primitive() after the other and is renamed when complete. *)

(* A leftover of the temporary name is taken as it is.                     *)
OpenInternal(n) ==
    LET c == Chosen(NewHandle(n, Temporary(n)))
    IN IF c.ent.active THEN c ELSE [c EXCEPT !.ent = Entry(Temporary(n), 0, 0)]

Create(n, overwrite, data) ==
    LET h == NewHandle(n, Temporary(n))
        o == [Idle EXCEPT !.kind = "create", !.obj = n, !.overwrite = overwrite, !.data = data]
    IN /\ Ready /\ ~Opened
       /\ "full_create" \in Cases \/ PoolOk(h)
       /\ "leftover" \in Cases \/ Found(h).ent.size <= Len(data)
       /\ IF PoolOk(h)
          THEN /\ fh' = OpenInternal(n)
               /\ todo' = GrowFat(h) \o
                          (IF Chosen(h).ent.active THEN <<>> ELSE <<EntryWrite(fh')>>)
               /\ Begin([o EXCEPT !.stage = "write"], [m \in {n} |-> data])
          ELSE /\ fh' = Chosen(h)
               /\ Begin([o EXCEPT !.stage = "undo"], [m \in {n} |-> data])
               /\ UNCHANGED todo
       /\ UNCHANGED Device

CreateAt(stage) == op.kind = "create" /\ op.stage = stage /\ todo = <<>>

CreateWrite ==
    /\ CreateAt("write")
    /\ op.pos < Len(op.data)
    /\ LET new == <<op.data[op.pos + 1]>>
       IN \/ /\ WriteFits(fh, op.pos, new)
             /\ fh' = WriteHandle(fh, op.pos, new)
             /\ todo' = WriteTodo(fh, op.pos, new)
             /\ op' = [op EXCEPT !.pos = @ + 1]
          \/ /\ ~WriteFits(fh, op.pos, new)
             /\ fh' = Chosen(fh)
             /\ op' = [op EXCEPT !.stage = "undo"]
             /\ UNCHANGED todo
    /\ UNCHANGED <<Device, allowed>>

(* rpmb_fs_rename_internal(po, NULL, overwrite): an existing file is       *)
(* cleared before the new one takes its name.                              *)
CreateRename ==
    LET n == op.obj
        old == Found(NewHandle(n, Temporary(n)))
        new == Found(NewHandle(n, Final(n)))
    IN /\ CreateAt("write")
       /\ op.pos = Len(op.data)
       /\ \/ /\ new.addr # 0 /\ ~op.overwrite
             /\ op' = [op EXCEPT !.stage = "undo"]
             /\ UNCHANGED <<todo, allowed>>
          \/ /\ new.addr # 0 /\ op.overwrite
             /\ todo' = <<EntryWrite([new EXCEPT !.ent = Cleared]),
                          EntryWrite([old EXCEPT !.ent.name = Final(n)])>>
             /\ op' = [op EXCEPT !.stage = "rename", !.mid = {NoFile}]
             /\ allowed' = [allowed EXCEPT ![n] = @ \cup {NoFile}]
          \/ /\ new.addr = 0
             /\ todo' = <<EntryWrite([old EXCEPT !.ent.name = Final(n)])>>
             /\ op' = [op EXCEPT !.stage = "rename"]
             /\ UNCHANGED allowed
       /\ UNCHANGED <<Device, fh>>

CreateDone ==
    /\ CreateAt("rename")
    /\ Succeed
    /\ fh' = [fh EXCEPT !.name = Final(op.obj)]
    /\ UNCHANGED <<Device, todo>>

(* rpmb_fs_remove_internal() on the error path.                            *)
CreateUndo ==
    /\ CreateAt("undo")
    /\ ReadFatOk(fh)
    /\ fh' = [Found(fh) EXCEPT !.ent = Cleared]
    /\ todo' = <<EntryWrite(fh')>>
    /\ op' = [op EXCEPT !.stage = "undoing"]
    /\ UNCHANGED <<Device, allowed>>

CreateFails ==
    /\ CreateAt("undoing") \/ (CreateAt("undo") /\ ~ReadFatOk(fh))
    /\ Fail
    /\ fh' = NoHandle
    /\ UNCHANGED <<Device, todo>>

----------------------------------------------------------------------------
(* The data of a call: one value in every block of it, so that a mixture   *)
(* of the blocks of two calls is never the data of a call.                 *)
DataSeqs(lens) == {[j \in 1 .. i |-> DataBlock(v)] : i \in lens, v \in Values \ {Zero}}

Next ==
    \/ SendOk \/ SendRefused \/ SendLost \/ AnswerLost \/ SendSwapped \/ Unsent
    \/ Late \/ PowerCut
    \/ Setup \/ SetupDummyDone \/ SetupFormatDone
    \/ \E n \in Names : Open(n) \/ Rename(n)
    \/ Close \/ Remove \/ OpDone
    \/ \E pos \in 1 .. MaxLen - 1 : \E new \in DataSeqs(1 .. MaxLen - pos) : Write(pos, new)
    \/ \E len \in 1 .. MaxLen : Truncate(len)
    \/ \E n \in Names, overwrite \in BOOLEAN, data \in DataSeqs(1 .. 2) :
            Create(n, overwrite, data)
    \/ CreateWrite \/ CreateRename \/ CreateDone \/ CreateUndo \/ CreateFails

Spec == Init /\ [][Next]_vars

----------------------------------------------------------------------------
BlockValues ==
    {Blank, Partition} \cup {DataBlock(v) : v \in Values} \cup
    [kind : {"entry"}, active : BOOLEAN, last : BOOLEAN,
     name : FileNames \cup {NoName, Final(NoName)}, start : 0 .. Blocks, size : 0 .. MaxLen]

(* The state has its type; in particular a request is only made for a      *)
(* block of the device and an address is never computed past its end.      *)
TypeOK ==
    /\ cnt \in 0 .. MaxCnt
    /\ \A a \in DOMAIN blk : blk[a] \in BlockValues
    /\ DOMAIN blk = 0 .. Blocks - 1
    /\ \A h \in held : h.cnt \in 0 .. MaxCnt /\ h.addr \in 0 .. Blocks - 1
    /\ ram \in [wr_cnt : 0 .. MaxCnt, synced : BOOLEAN, dead : BOOLEAN, par : BOOLEAN]
    /\ fh.addr \in 0 .. Blocks - 1 /\ fh.ent \in BlockValues
    /\ \A i \in 1 .. Len(todo) :
            todo[i].addr \in 0 .. Blocks - 1 /\ todo[i].val \in BlockValues
    /\ retry \in 0 .. MaxRetries - 1
    /\ DOMAIN allowed = Names
    /\ op = Idle => todo = <<>> /\ retry = 0
    /\ ram.dead => op = Idle

(* Every object has the content that the operations promise: the old or    *)
(* the new one while an operation runs or was cut short, the one that the  *)
(* result tells after it, and after the setup that follows a boot the one  *)
(* that was found then, whatever normal world delivers late.  The only     *)
(* exception is an object that is being overwritten by rpmb_fs_create(),   *)
(* which may be gone.                                                      *)
Durable == \A n \in Names : Content(n) \in allowed[n]

(* The FAT always has a last entry, no name occurs twice among its active  *)
(* entries, and the areas of the files overlap neither each other nor the  *)
(* FAT: what read_fat() relies on when it rebuilds the pool.               *)
FatSound ==
    blk[0] = Partition =>
        /\ Terminated
        /\ \A name \in FileNames : Cardinality(Matching(name)) <= 1
        /\ DataAddrs \subseteq LastAddr + 1 .. Blocks - 1
        /\ \A a, b \in Fat : a # b => Area(EntryAt(a)) \cap Area(EntryAt(b)) = {}

(* "Build up memory pool and return matching entry for write operation"    *)
(* (read_fat()): while a write or a truncation is under way that read_fat()*)
(* let proceed, the FAT entry it will store is the active entry of the     *)
(* handle's file name.                                                     *)
MatchingEntry ==
    \A i \in 1 .. Len(todo) :
        op.kind \in {"write", "truncate"} /\ todo[i].use = "entry"
            => EntryAt(todo[i].addr).active /\ EntryAt(todo[i].addr).name = fh.name
=============================================================================
