---------------------------- MODULE DatabaseHeader ----------------------------
(***************************************************************************)
(* The database file header (src/src/persistence_layer/file_io/           *)
(* db_header.rs): DatabaseHeader::from_file opening a file, writing the    *)
(* default header into an empty one through flush_header, or reading the   *)
(* four little-endian u64 fields of an existing one.  Every file call may  *)
(* fail with an I/O error, which `?` returns at once; the file keeps what  *)
(* was written.  A process crash between two calls leaves the file as an   *)
(* error at that call does, so it needs no action of its own.  Once the    *)
(* allowed opens have run the model stops, as the program does.            *)
(***************************************************************************)
EXTENDS Naturals, Sequences, FiniteSets

CONSTANTS
  MaxOpens   \* number of times the database is opened

ASSUME MaxOpens \in Nat \ {0}

VARIABLES
  len,       \* db.len(): the file length in bytes
  disk,      \* the first 32 bytes of the file (zero where never written)
  pc,        \* where the running from_file is, "closed" when none runs
  opens,     \* from_file calls started so far
  returned   \* the headers from_file has returned with Ok

vars == << len, disk, pc, opens, returned >>

\* pub const VERSION and PAGE_SIZE (1 << 9).
VERSION == 1
PAGE_SIZE == 512

Fields == 0..3
Byte == 0..255
Header == [version : Nat, log_offset : Nat, directory_offset : Nat,
           free_page_link : Nat]
Pc == {"closed", "set_len", "write", "sync", "read"} \X (Fields \cup {4})

\* DatabaseHeader::default.
Default == [version |-> VERSION, log_offset |-> PAGE_SIZE,
            directory_offset |-> PAGE_SIZE * 2, free_page_link |-> 0]

\* Fault: flush_header writes log_offset at 16 and directory_offset at 8.
FieldValueSwapped(h, i) ==
  CASE i = 0 -> h.version
    [] i = 1 -> h.directory_offset
    [] i = 2 -> h.log_offset
    [] i = 3 -> h.free_page_link

\* The header field stored at byte offset 8 * i.
FieldValue(h, i) ==
  CASE i = 0 -> h.version
    [] i = 1 -> h.log_offset
    [] i = 2 -> h.directory_offset
    [] i = 3 -> h.free_page_link

\* u64::to_le_bytes: eight bytes, least significant first.
RECURSIVE LeBytes(_, _)
LeBytes(x, n) ==
  IF n = 0 THEN << >> ELSE << x % 256 >> \o LeBytes(x \div 256, n - 1)
ToLeBytes(x) == LeBytes(x, 8)

\* u64::from_le_bytes.
RECURSIVE FromLeBytes(_)
FromLeBytes(b) ==
  IF b = << >> THEN 0 ELSE Head(b) + 256 * FromLeBytes(Tail(b))

\* db.read(&mut buffer, 8 * i): the eight bytes at that offset.
ReadField(i) == [k \in 1..8 |-> disk[8 * i + k - 1]]

\* db.write(&buffer, off): the file with buffer b written at offset off.
WriteAt(b, off) ==
  [k \in 0..31 |-> IF k \in off..off + 7 THEN b[k - off + 1] ELSE disk[k]]

-----------------------------------------------------------------------------

Init ==
  /\ len = 0
  /\ disk = [k \in 0..31 |-> 0]
  /\ pc = <<"closed", 0>>
  /\ opens = 0
  /\ returned = {}

\* An I/O error returned by `?`: from_file ends with Err(IO).
Fail == pc' = <<"closed", 0>>

\* from_file: an empty file gets the default header, any other is read.
FromFile ==
  /\ pc[1] = "closed"
  /\ opens < MaxOpens
  /\ opens' = opens + 1
  /\ pc' = IF len = 0 THEN <<"set_len", 0>> ELSE <<"read", 0>>
  /\ UNCHANGED << len, disk, returned >>

\* Fault: the file is extended to two pages, leaving no room for the
\* directory page at PAGE_SIZE * 2.
SetLenTwoPages ==
  /\ pc[1] = "set_len"
  /\ len < PAGE_SIZE * 3
  /\ \/ /\ len' = PAGE_SIZE * 2
        /\ pc' = <<"write", 0>>
     \/ Fail /\ UNCHANGED len
  /\ UNCHANGED << disk, opens, returned >>

\* flush_header: extend a file shorter than three pages (from_file calls it
\* only on an empty file, so the length check always holds).
SetLen ==
  /\ pc[1] = "set_len"
  /\ len < PAGE_SIZE * 3
  /\ \/ /\ len' = PAGE_SIZE * 3
        /\ pc' = <<"write", 0>>
     \/ Fail /\ UNCHANGED len
  /\ UNCHANGED << disk, opens, returned >>

\* flush_header: write field i of the default header at offset 8 * i.
WriteField ==
  /\ pc[1] = "write"
  /\ pc[2] \in Fields
  /\ \/ /\ disk' = WriteAt(ToLeBytes(FieldValue(Default, pc[2])), 8 * pc[2])
        /\ pc' = IF pc[2] = 3 THEN <<"sync", 0>> ELSE <<"write", pc[2] + 1>>
     \/ Fail /\ UNCHANGED disk
  /\ UNCHANGED << len, opens, returned >>

\* flush_header: sync_all, then from_file returns Ok(default).
Sync ==
  /\ pc[1] = "sync"
  /\ \/ returned' = returned \cup {Default}
     \/ UNCHANGED returned
  /\ pc' = <<"closed", 0>>
  /\ UNCHANGED << len, disk, opens >>

\* from_file on a non-empty file: four reads, each may fail; the decoded
\* fields are returned without any check.
ReadHeader ==
  /\ pc[1] = "read"
  /\ \/ returned' = returned \cup
          {[version |-> FromLeBytes(ReadField(0)),
            log_offset |-> FromLeBytes(ReadField(1)),
            directory_offset |-> FromLeBytes(ReadField(2)),
            free_page_link |-> FromLeBytes(ReadField(3))]}
     \/ UNCHANGED returned
  /\ pc' = <<"closed", 0>>
  /\ UNCHANGED << len, disk, opens >>

Next == FromFile \/ SetLen \/ WriteField \/ Sync \/ ReadHeader

Spec == Init /\ [][Next]_vars

-----------------------------------------------------------------------------
(* Properties                                                              *)

TypeOK ==
  /\ len \in {0, PAGE_SIZE * 3}
  /\ disk \in [0..31 -> Byte]
  /\ pc \in Pc
  /\ opens \in 0..MaxOpens
  /\ returned \subseteq Header

\* Every from_file that returns Ok, across I/O errors and crashes in earlier
\* opens, returns the same header: the header flush_header encodes is the
\* one the reads of later opens decode, and nothing rewrites it.
StableHeader == Cardinality(returned) <= 1

\* Spec 6: the header is the default layout written on first open; an Ok
\* from_file never returns a header that flush_header did not fully write.
OnlyWrittenHeader == returned \subseteq {Default}

=============================================================================
