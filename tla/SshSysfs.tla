------------------------------ MODULE SshSysfs ------------------------------
(***************************************************************************)
(* The SSH debug passthrough attribute "rqst" of                          *)
(* src/module/surfacegen5_acpi_ssh_sysfs.c.  A write sends one raw EC      *)
(* request built from the written bytes; a read returns the last response *)
(* as  len | bytes  zero-padded to the attribute size.  Each call is one  *)
(* step: spec.md says the endpoint supports a single transaction in       *)
(* flight and no concurrency.                                              *)
(*                                                                         *)
(* Memory is byte-indexed from 0 like the C arrays.  The kernfs layer      *)
(* that calls rqst_read/rqst_write (not in this repository) clamps count  *)
(* to the attribute size and hands the write buffer over as kmalloc(count *)
(* + 1) with a NUL at [count]; bytes past that are whatever the allocator *)
(* left there, drawn from Garbage.                                         *)
(***************************************************************************)
EXTENDS Integers, Sequences

CONSTANTS
    MAX_RESPONSE,   \* SURFACEGEN5_MAX_RQST_RESPONSE
    MAX_PAYLOAD,    \* SURFACEGEN5_MAX_RQST_PAYLOAD
    ByteVals,       \* signed char values a user writes
    RespVals,       \* byte values the EC answers with
    Garbage         \* values of uninitialised kmalloc bytes in this build

ASSUME MAX_PAYLOAD >= 1 /\ MAX_RESPONSE >= MAX_PAYLOAD + 4

\* Size of the bin attribute: BIN_ATTR_RW(rqst, MAX_RESPONSE + 1).
AttrSize == MAX_RESPONSE + 1

VARIABLES
    attr,       \* the attribute exists in sysfs
    bufSysfs,   \* sg5_ssh_debug_rqst_buf_sysfs[0 .. MAX_RESPONSE]
    bufPld,     \* sg5_ssh_debug_rqst_buf_pld[0 .. MAX_PAYLOAD - 1]
    sent,       \* the last request handed to surfacegen5_ec_rqst
    answer,     \* the last response the EC gave successfully
    rd,         \* the last read: [offs, count, einval, data]
    oob         \* buffers some call wrote outside their bounds

vars == <<attr, bufSysfs, bufPld, sent, answer, rd, oob>>

NoRqst == [tc |-> 0, cdl |-> 0, pld |-> <<>>]

\* Byte i of the write buffer kernfs passes in for user bytes b.
WriteByte(b, g, i) == IF i < Len(b) THEN b[i + 1]
                      ELSE IF i = Len(b) THEN 0 ELSE g

\* count as the kernfs bin-attribute layer passes it on: cut to the size.
Clamp(offs, count) == IF offs + count > AttrSize THEN AttrSize - offs
                      ELSE count

\* bufSysfs[offs .. offs + count - 1] as a sequence.
Window(offs, count) == [i \in 1..count |-> bufSysfs[offs + i - 1]]

TypeOK ==
    /\ attr \in BOOLEAN
    /\ bufSysfs \in [0..MAX_RESPONSE -> (0..MAX_RESPONSE) \cup RespVals]
    /\ bufPld \in [0..MAX_PAYLOAD - 1 -> ByteVals \cup {0}]
    /\ oob \subseteq {"pld", "sysfs"}

Init ==
    /\ attr = FALSE
    /\ bufSysfs = [i \in 0..MAX_RESPONSE |-> 0]
    /\ bufPld = [i \in 0..MAX_PAYLOAD - 1 |-> 0]
    /\ sent = NoRqst
    /\ answer = <<>>
    /\ rd = [offs |-> 0, count |-> 0, einval |-> FALSE, data |-> <<>>]
    /\ oob = {}

surfacegen5_ssh_sysfs_register ==
    /\ ~attr
    /\ attr' = TRUE
    /\ UNCHANGED <<bufSysfs, bufPld, sent, answer, rd, oob>>

surfacegen5_ssh_sysfs_unregister ==
    /\ attr
    /\ attr' = FALSE
    /\ UNCHANGED <<bufSysfs, bufPld, sent, answer, rd, oob>>

rqst_read(offs, count) ==
    LET c == Clamp(offs, count) IN
    /\ attr
    /\ offs < AttrSize
    /\ \/ /\ offs < 0 \/ c + offs > MAX_RESPONSE
          /\ rd' = [offs |-> offs, count |-> c, einval |-> TRUE, data |-> <<>>]
       \/ /\ offs >= 0 /\ c + offs <= MAX_RESPONSE
          /\ rd' = [offs |-> offs, count |-> c, einval |-> FALSE,
                    data |-> Window(offs, c)]
    /\ UNCHANGED <<attr, bufSysfs, bufPld, sent, answer, oob>>

\* The two checks at the top of rqst_write: offset and size, then the
\* declared payload_length byte against count.
Accepts(offs, b, g) ==
    /\ offs = 0 /\ Len(b) <= MAX_PAYLOAD + 5
    /\ WriteByte(b, g, 4) + 5 = Len(b)

\* Last index the memset after a response of len bytes writes in bufSysfs:
\* it starts at len + 1 and clears MAX_RESPONSE + 1 - len bytes.
MemsetEnd(len) == (len + 1) + (MAX_RESPONSE + 1 - len) - 1

\* Mutant: padding starts at len, over the last response byte.
Padded_at_len(r) == [i \in 0..MAX_RESPONSE |->
                       IF i = 0 THEN Len(r) ELSE IF i < Len(r) THEN r[i] ELSE 0]

\* Mutant: the length byte counts itself.
Padded_lenplus(r) == [i \in 0..MAX_RESPONSE |->
                        IF i = 0 THEN Len(r) + 1
                        ELSE IF i <= Len(r) THEN r[i] ELSE 0]

\* Contents of bufSysfs after storing response r: [0] = len, the bytes
\* from [1], zeros up to the end.
Padded(r) == [i \in 0..MAX_RESPONSE |->
                IF i = 0 THEN Len(r) ELSE IF i <= Len(r) THEN r[i] ELSE 0]

\* rqst_write: b are the bytes written, g the allocator's byte beyond the
\* NUL, ok whether surfacegen5_ec_rqst succeeds and r its response bytes.
rqst_write(offs, b, g, ok, r) ==
    LET count == Len(b)
        n == count - 5
        rqst == [tc |-> b[1], cdl |-> WriteByte(b, g, 4),
                 pld |-> [i \in 1..n |-> b[5 + i]]]
        accept == Accepts(offs, b, g)
    IN
    /\ attr
    /\ offs < AttrSize
    /\ count = Clamp(offs, count)
    /\ \/ /\ ~accept
          /\ UNCHANGED <<bufSysfs, bufPld, sent, answer, oob>>
       \/ /\ accept    \* count - 5 < 0 as size_t: the memcpy runs off bufPld
          /\ n < 0
          /\ oob' = oob \cup {"pld"}
          /\ UNCHANGED <<bufSysfs, bufPld, sent, answer>>
       \/ /\ accept
          /\ n >= 0
          /\ bufPld' = [i \in 0..MAX_PAYLOAD - 1 |->
                          IF i < n THEN b[6 + i] ELSE bufPld[i]]
          /\ sent' = rqst
          /\ \/ /\ ~ok
                /\ UNCHANGED <<bufSysfs, answer, oob>>
             \/ /\ ok
                /\ bufSysfs' = Padded(r)
                /\ answer' = r
                /\ oob' = IF MemsetEnd(Len(r)) > MAX_RESPONSE
                            THEN oob \cup {"sysfs"} ELSE oob
    /\ UNCHANGED <<attr, rd>>

(***************************************************************************)
(* The next-state relation: the driver adds and removes the attribute,    *)
(* users read and write it.  Reads may start anywhere and ask for up to   *)
(* the whole attribute; writes are any byte string up to the attribute    *)
(* size; the EC answers any response that fits result.cap, or fails.      *)
(***************************************************************************)
Responses == UNION {[1..k -> RespVals] : k \in 0..MAX_RESPONSE}
Writes == UNION {[1..k -> ByteVals] : k \in 1..AttrSize}

Next ==
    \/ surfacegen5_ssh_sysfs_register
    \/ surfacegen5_ssh_sysfs_unregister
    \/ \E offs \in 0..1, count \in 1..AttrSize : rqst_read(offs, count)
    \/ \E offs \in 0..1, b \in Writes, ok \in BOOLEAN :
         \* g is only read for writes shorter than 4 bytes, r only on success
         \E g \in IF Len(b) < 4 THEN Garbage ELSE {0},
           r \in IF ok THEN Responses ELSE {<<>>} :
             rqst_write(offs, b, g, ok, r)

Spec == Init /\ [][Next]_vars

-----------------------------------------------------------------------------
(* Properties                                                              *)

\* What spec.md says the attribute reads as after response r:
\* response_length(1) | response_bytes, zero-padded to the buffer size.
SpecImage(r) == <<Len(r)>> \o r \o [i \in 1..AttrSize - 1 - Len(r) |-> 0]

\* Every read rqst_read accepts returns that part of the image of the last
\* response the EC gave successfully; rejected and failed writes leave it
\* (the response copy and padding of rqst_write, the copy of rqst_read).
ReadsSeeLastResponse ==
    [][rd' # rd /\ ~rd'.einval =>
         rd'.data = SubSeq(SpecImage(answer), rd'.offs + 1,
                          rd'.offs + rd'.count)]_vars
====
