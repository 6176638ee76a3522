----------------------------- MODULE FlatMemory -----------------------------
(***************************************************************************)
(* One processor's view of its bank (src/memory/flat_memory.rs): entries   *)
(* of 16 bytes, each of which keeps the type it was first used with.  The  *)
(* two implementations of flatmem_builder differ in the two types, in how  *)
(* bytes decode to them and in what an absent entry reads as, which are    *)
(* the parameters here.  An optional value is a set of at most one value.  *)
(***************************************************************************)
EXTENDS Naturals

CONSTANTS EntriesPerLine,   \* PIM_ENTRIES_PER_CACHELINE
          Decode(_, _),     \* the value of a type that given bytes encode
          Default(_)        \* what an absent entry reads as, if anything

\* tag: "Absent", "Untyped" or one of the processor's two types.
Entry(tag, val) == [tag |-> tag, val |-> val]
AbsentEntry == Entry("Absent", <<>>)

\* read_first and read_second
ReadAs(e, type) ==
  CASE e.tag = type      -> {e.val}
    [] e.tag = "Untyped" -> {Decode(type, e.val)}
    [] e.tag = "Absent"  -> Default(type)
    [] OTHER             -> {}

\* A read decides the type of bytes the host has put there.
Claimed(e, type) == IF e.tag = "Untyped" THEN Entry(type, Decode(type, e.val)) ELSE e

\* Mutant: a store overwrites whatever is there.
WrittenUnchecked(e, type, val) == Entry(type, val)

\* write_first and write_second: an entry of the other type is left alone.
Written(e, type, val) ==
  IF e.tag \in {"Absent", "Untyped", type} THEN Entry(type, val) ELSE e

\* mem_entry::mirror_host_bytes, or the entry a host write creates
Mirrored(e, bytes) ==
  IF e.tag \in {"Absent", "Untyped"} THEN Entry("Untyped", bytes)
  ELSE Entry(e.tag, Decode(e.tag, bytes))

\* mirror_host_write: line[k] is the k-th entry's share of the cache line.
MirrorLine(mem, first, line) ==
  [a \in DOMAIN mem |->
     IF a \in first .. (first + EntriesPerLine - 1)
     THEN Mirrored(mem[a], line[a - first + 1]) ELSE mem[a]]

=============================================================================
