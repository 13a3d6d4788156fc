------------------------------ MODULE AddrCodec -------------------------------
(***************************************************************************)
(* A program that writes internal addresses into a cell with               *)
(* IntAddr::store_into (which is StdAddr's or VarAddr's), reads them back  *)
(* with IntAddr::load_from or StdAddr::load_from, uses standard addresses  *)
(* as dictionary keys (the key is what StdAddr::store_into writes; reading *)
(* the dictionary decodes it with DictKey::from_raw_data), and builds      *)
(* anycast info with Anycast::from_slice.                                  *)
(***************************************************************************)
EXTENDS Address

CONSTANTS
  Addrs,        \* the addresses the program stores
  KeyAddrs,     \* the standard addresses, without anycast, used as keys
  Pads,         \* what follows the 267 key bits in the key data
  Prefixes,     \* bit strings handed to Anycast::from_slice
  MaxStores,    \* bound on the addresses stored into the cell
  MaxKeys       \* bound on the keys inserted

\* The addresses the program stores are values of the Rust types at their
\* widths: an anycast's prefix is the depth bits store_raw writes of
\* rewrite_prefix, an account id is 256 bits, a VarAddr's workchain 32 bits
\* and its address buffer holds at least address_len bits.
AnycastOK(x) == x.depth \in Nat /\ x.prefix \in Seq({0, 1}) /\ Len(x.prefix) = x.depth

OptAnycastOK(o) == o = <<>> \/ (o = <<o[1]>> /\ AnycastOK(o[1]))

WellFormedAddr(a) ==
  /\ OptAnycastOK(a.anycast)
  /\ \/ /\ a.kind = "std" /\ a.workchain \in Int
        /\ a.address \in Seq({0, 1}) /\ Len(a.address) = 256
     \/ /\ a.kind = "var" /\ a.len \in Nat
        /\ a.workchain \in Seq({0, 1}) /\ Len(a.workchain) = 32
        /\ a.address \in Seq({0, 1}) /\ a.len <= Len(a.address)

\* address_len is a valid Uint9 (Uint9::is_valid).  Uint9::new does not
\* check, so a VarAddr can be built with a larger one.
Uint9Valid(a) == a.kind = "var" => a.len <= 511

ASSUME AddrCodecAssumption ==
  /\ MaxStores \in Nat /\ MaxKeys \in Nat
  /\ \A p \in Pads : Len(p) = 5
  /\ \A a \in Addrs : WellFormedAddr(a)

VARIABLES
  builder,    \* the bits stored so far
  stored,     \* each address stored, with the bits its store appended
  phase,      \* "build", then "read" once the cell is finished
  slice,      \* the reader
  loaded,     \* each load_from: the loader used and [err, v]
  status,     \* the result of the last call
  keys,       \* the dictionary's keys: the address and its key data
  iterated,   \* what from_raw_data returned for each key read
  fromSlice   \* the input and the result of the last Anycast::from_slice

vars == <<builder, stored, phase, slice, loaded, status, keys, iterated, fromSlice>>

Init ==
  /\ builder = <<>>
  /\ stored = <<>>
  /\ phase = "build"
  /\ slice = [bits |-> <<>>, pos |-> 0, err |-> "ok", val |-> 0]
  /\ loaded = <<>>
  /\ status = "ok"
  /\ keys = <<>>
  /\ iterated = <<>>
  /\ fromSlice = [in |-> <<>>, out |-> [err |-> "none"]]

CellVars == <<builder, stored, phase, slice, loaded, status>>

\* IntAddr::store_into.
Store(a) ==
  LET r == StoreIntAddr([bits |-> builder, err |-> "ok"], a)
  IN  /\ phase = "build"
      /\ Len(stored) < MaxStores
      /\ builder' = r.bits
      /\ status' = r.err
      /\ stored' = IF r.err = "ok"
                   THEN Append(stored, [a |-> a, len |-> Len(r.bits) - Len(builder)])
                   ELSE stored
      /\ UNCHANGED <<phase, slice, loaded, keys, iterated, fromSlice>>

Finish ==
  /\ phase = "build"
  /\ phase' = "read"
  /\ slice' = [bits |-> builder, pos |-> 0, err |-> "ok", val |-> 0]
  /\ UNCHANGED <<builder, stored, loaded, status, keys, iterated, fromSlice>>

\* IntAddr::load_from or StdAddr::load_from of the next address; a reader
\* stops at its first error.
Load(loader) ==
  LET s == IF loader = "IntAddr" THEN LoadIntAddr(slice) ELSE LoadStdAddr(slice)
  IN  /\ phase = "read"
      /\ Len(loaded) < Len(stored)
      /\ slice.err = "ok"
      /\ slice' = s
      /\ loaded' = Append(loaded, [loader |-> loader, err |-> s.err, v |-> s.val])
      /\ status' = s.err
      /\ UNCHANGED <<builder, stored, phase, keys, iterated, fromSlice>>

\* Dict::set with a StdAddr key: the key is serialized by
\* StdAddr::store_into into an empty builder.
DictSet(a, pad) ==
  LET r == StoreStdAddr([bits |-> <<>>, err |-> "ok"], a)
  IN  /\ Len(keys) < MaxKeys
      /\ r.err = "ok"
      /\ keys' = Append(keys, [a |-> a, raw |-> r.bits \o pad])
      /\ UNCHANGED <<CellVars, iterated, fromSlice>>

\* Iterating the dictionary decodes the next key with from_raw_data.
DictNext ==
  /\ Len(iterated) < Len(keys)
  /\ iterated' = Append(iterated, StdFromRawData(keys[Len(iterated) + 1].raw))
  /\ UNCHANGED <<CellVars, keys, fromSlice>>

\* Anycast::from_slice over a slice holding exactly the given bits.
FromSlice(bits) ==
  /\ \E out \in AnycastFromSlice(bits) : fromSlice' = [in |-> bits, out |-> out]
  /\ UNCHANGED <<CellVars, keys, iterated>>

Next ==
  \/ \E a \in Addrs : Store(a)
  \/ Finish
  \/ \E loader \in {"IntAddr", "StdAddr"} : Load(loader)
  \/ \E a \in KeyAddrs, pad \in Pads : DictSet(a, pad)
  \/ DictNext
  \/ \E bits \in Prefixes : FromSlice(bits)

Spec == Init /\ [][Next]_vars

-----------------------------------------------------------------------------
(* Properties.                                                             *)

Bit == {0, 1}

IsAnycast(o) ==
  o = <<>> \/ (Len(o) = 1 /\ o[1].depth \in 1..254 /\ o[1].prefix \in Seq(Bit))

IsAddr(a) ==
  /\ IsAnycast(a.anycast)
  /\ \/ a.kind = "std" /\ a.workchain \in -128..127 /\ a.address \in Seq(Bit)
                       /\ Len(a.address) = 256
     \/ a.kind = "var" /\ a.len \in 0..511 /\ a.workchain \in Seq(Bit)
                       /\ Len(a.workchain) = 32 /\ Len(a.address) >= a.len

\* The variables hold addresses and bits; every address a load returns is
\* one (an i8 workchain in -128..127, a Uint9 length).
TypeOK ==
  /\ builder \in Seq(Bit) /\ Len(builder) <= Cap
  /\ \A i \in 1..Len(stored) : IsAddr(stored[i].a)
  /\ phase \in {"build", "read"}
  /\ slice.pos \in 0..Len(slice.bits)
  /\ Len(loaded) <= Len(stored)
  /\ \A i \in 1..Len(loaded) : loaded[i].err = "ok" => IsAddr(loaded[i].v)
  /\ Len(iterated) <= Len(keys)

\* What each load_from of the cell returns: IntAddr::load_from gives back
\* the address stored there, standard or variable, with its anycast; and
\* StdAddr::load_from gives back a standard address and refuses a variable
\* one with InvalidTag.  The two tag bits, the optional anycast, the
\* Uint9 length and the has_remaining check line up between the stores and
\* the loads, so no field is read from another's bits.
AddrRoundTrip ==
  \A i \in 1..Len(loaded) :
    loaded[i] = IF loaded[i].loader = "StdAddr" /\ stored[i].a.kind = "var"
                THEN [loader |-> "StdAddr", err |-> "InvalidTag", v |-> loaded[i].v]
                ELSE [loader |-> loaded[i].loader, err |-> "ok", v |-> stored[i].a]

\* Every store_into appends exactly bit_len() bits: the size that the
\* capacity check and callers count is the size that is written.
AddrStoreExactSize ==
  \A i \in 1..Len(stored) :
    stored[i].len = IF stored[i].a.kind = "std" THEN StdBitLen(stored[i].a)
                    ELSE VarBitLen(stored[i].a)

\* The size bit_len() counts for an address of its kind.
AddrBitLen(a) == IF a.kind = "std" THEN StdBitLen(a) ELSE VarBitLen(a)

\* The addresses of a list of stored entries, in order.
AddrsOf(s) == [i \in 1..Len(s) |-> s[i].a]

\* The builder of the program seen as the cell writer of CellWriter: the
\* bits written, the addresses stored, open until the cell is finished,
\* and the result of the last builder call (build's Ok once finished).
Writer == INSTANCE CellWriter WITH
  Items <- Addrs,
  Size <- [a \in Addrs |-> AddrBitLen(a)],
  used <- Len(builder),
  items <- AddrsOf(stored),
  open <- phase = "build",
  result <- IF phase = "build" THEN status ELSE "ok"

\* IntAddr::store_into keeps the builder contract: a store that fits in
\* the cell succeeds and appends the whole address, one that does not
\* fails with CellOverflow and writes nothing.  The capacity check on
\* bit_len() comes before the first write, so no store can fail half way.
StoreImplementsWriter == Writer!Spec

\* from_raw_data of a key's data gives back the address that was set: the
\* workchain put together from the first two bytes and the account id
\* shifted by 3 bits across both u128 halves, whatever bits follow the key.
DictKeyRoundTrip ==
  \A i \in 1..Len(iterated) : iterated[i] = keys[i].a

\* Anycast::from_slice is "constructs anycast info from rewrite prefix": a
\* slice of 1 to 30 bits gives Ok with those bits as the rewrite prefix.
AnycastFromSliceKeepsPrefix ==
  Len(fromSlice.in) \in 1..30 =>
    fromSlice.out = [err |-> "ok", depth |-> Len(fromSlice.in), prefix |-> fromSlice.in]

=============================================================================
