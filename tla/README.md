# Formal models of everscale-types

TLA+ models, TLC runs and TLAPS proofs for `everscale-types` (the
repository's `src/src`). The models cover the cell core, the integer codecs,
the address codecs, the output action list and augmented dictionary roots. This file says what is
modelled and what is checked and proved. It also gives the plan for the rest.

## 1. The system

The library is the binary data model of a cell-based blockchain.

* **Cells.** A cell is an immutable, content-addressed node of a DAG.
  It holds up to 1023 data bits and up to 4 references to earlier cells.
  Its level mask is 3 bits and gives its level, 0 to 3.
  It keeps one (hash, depth) pair per significant level.
* **Exotic cells.** These have the exotic flag set. Their first data byte selects the type:
  PrunedBranch, LibraryReference, MerkleProof or MerkleUpdate.
  Each type has a fixed layout that finalization checks.
* **Cell context.** `CellContext::finalize_cell` (`cell/cell_context.rs`)
  turns the parts of a cell into a cell by running `CellParts::compute_hashes`.
  The parts are the descriptor, the bit length, the data, the references and the
  children mask, which the caller supplies.
  `compute_hashes` validates the exotic layout and the level mask.
  It then hashes every significant level:
  * descriptor byte d1 with its mask bits rewritten, and d2;
  * the data (level 0) or the previous hash;
  * the children's depths, then their hashes, both read at `level + level_offset`,
    where the offset is 1 for merkle cells.

  Depth is `1 + max` of the child depths, computed with `checked_add`.
* **Producers.** Cells come from the builder and from the BOC decoder, which
  calls `finalize_cell` once per cell read from bytes. Neither is under `src/`.
* **BOC container.** The encoder (`boc/ser.rs`) and the decoder (`boc/de.rs`)
  are not under `src/`. `boc/mod.rs` holds the entry points and the root lookup.
* **Schema codecs** under `src/` are layered on cells:
  * variable-length integers (`num/mod.rs`);
  * addresses (`models/message/address.rs`);
  * the output action list (`models/vm/out_actions.rs`);
  * augmented dictionary roots (`dict/aug.rs`).

Nothing in the core runs concurrently. Cells are immutable once finalized,
and the encoder and decoder are sequential. The hard behaviour is therefore
not interleaving. It is the multi-level hashing with merkle virtualization,
the numeric edges of depths and lengths, and long sequences of legal
constructions (prune, wrap in proofs, combine) that reach a state where two
cells or two levels disagree.

## 2. Modules

| Module | Models | Source |
|---|---|---|
| `CellHash` | level masks, exotic tags, the accessors `hash(l)`/`depth(l)`, and `compute_hashes` as pure operators | `cell/cell_context.rs` 83-243; LevelMask and accessors from the spec |
| `CellArena` | the cells alive in a program; the actions are `finalize_cell` on the parts each producer hands it | `cell/cell_context.rs` 12-15, 56-79; producers from the spec |
| `MCCellArena` | the TLC instance (one token) | — |
| `CellArenaProofs` | TLAPS proofs of type correctness and of depth exactness | — |
| `Num` | the integer types, their constants, bit lengths, `checked_*`, and `Store`/`Load` with `store_u128`/`load_u128`, as pure operators over a builder and a slice | `num/mod.rs` 18-869 |
| `NumCodec` | a program that makes integers with every constructor and operator, stores them into one cell and reads them back | `num/mod.rs` 18-376, 796-814 |
| `MCNumCodec` | the TLC instance: edge values of each type | — |
| `NumProofs` | TLAPS lemmas on the builder primitives of `Num`: what `store_uint`, `store_u128`, the VarUint/Tokens/VarUint248 stores and `Store` of any value append | — |
| `NumCodecProofs` | TLAPS proofs that every successful store appends exactly its `exact_size`, and that a failed store leaves the builder alone | — |
| `Address` | `IntAddr`/`StdAddr`/`VarAddr`/`Anycast` store, load, bit length, `Anycast::from_slice`, and `StdAddr`'s `DictKey::from_raw_data` over bit sequences | `models/message/address.rs` 107-572 |
| `AddrCodec` | a program that stores addresses into a cell and reads them back, uses standard addresses as dictionary keys, and calls `Anycast::from_slice` | — |
| `MCAddrCodec` | the TLC instance: addresses with and without anycast, keys at the shift boundaries | — |
| `AddrCodecProofs` | TLAPS proof that `IntAddr::store_into` appends exactly `bit_len()` bits | — |
| `CellWriter` | the abstract contract of a cell builder: whole items of a known size, CellOverflow and no partial output past `Cap`, nothing after `build` | spec (object/cell codec contract) |
| `AddrWriterProofs` | TLAPS proof that the address program implements `CellWriter` when every `VarAddr` length fits a `Uint9` | — |
| `OutActions` | `OutAction` store/load for all five variants and `OutActionsRevIter` over an arena of cells, with a program that builds a list (possibly malformed) and walks it | `models/vm/out_actions.rs` 14-269 |
| `MCOutActions` | the TLC instance: one action of each variant | — |
| `Refs` | reference primitives of builders and slices: `store_reference`, `load_reference`, `as_slice`, `try_advance` | not under `src/` (spec-modelled) |
| `AugDict` | `load_from_root` with `Tokens::skip_value`, `Load`/`Store` for `AugDict`, and a program that writes a root node in place, reads it, stores the result and reloads it | `dict/aug.rs` 16-25, 57-79, 125-180; `read_label` and the node writer from the TL-B scheme |
| `MCAugDict` | the TLC instance: 3-bit keys, Tokens of 0 to 3 bytes | — |

### CellHash

The data is abstracted as follows:

* A level mask is the set of its levels in 1..3.
* SHA-256 is an injective digest: the input tagged `"sha256"`. So equal hashes
  mean equal hashed inputs. This is the assumption every property about hashes
  rests on.
* Data bytes are a record: the first byte (the tag), the second byte (the
  stored mask of a pruned branch), and a body of abstract fields (stored
  hashes and depths, or an opaque token).
* Depths are `DepthBits`-bit unsigned integers, so `checked_add` failing at
  `MaxDepth = 2^DepthBits - 1` is the code's failure at `u16::MAX`.

The control of `compute_hashes` is kept whole:

* every `InvalidCell` return, in order (`LayoutOK`, `ComputedMask`, `ValidParts`);
* the skipped levels (`SigLevels`);
* the d1 rewrite (`HashedD1`);
* the level-0 data versus the previous hash (`ComputeHashes`);
* the child depths, then the child hashes, at `level + level_offset` (`LevelHash`);
* the `checked_add` (`DepthOverflow`) and the `max` loop (`LevelDepth`).

The two loops (levels 0..3 and at most 4 references) are unrolled, with no
RECURSIVE operator, so TLAPS can reason about them.

### CellArena

The state is `arena`, the sequence of finalized cells, where a reference is the
position of an earlier cell, and `result`, the outcome of the last call.

`Finalize(p)` is one call of `finalize_cell`. `FinalizeAccepted` appends the
new cell. `FinalizeRejected` returns `InvalidCell` or `DepthOverflow` and
changes no cell.

The inputs come from six producers. Each is an action that picks its inputs
with `\E` over existing cells:

* ordinary cells;
* pruned branches of an existing cell (`PrunedBranch::create`);
* merkle proofs and updates over existing cells;
* library cells;
* malformed exotic parts as the decoder may read them: wrong masks, wrong
  lengths, wrong reference counts, an unknown tag, empty data, a level-0
  pruned branch.

The field `origin` of a pruned branch is history. It records the cell it was
made from and the level, and only `VirtAt` uses it. A cell of the arena can only
reference earlier cells, as in the code, where a cell is built from existing
cells.

### Builders and slices (all codec modules)

`CellBuilder` and `CellSlice` are not under `src/`. They are modelled from the
codec contract (and marked so in the map):

* a builder is a record `[bits, err]`, with `refs` added by `Refs`;
* a slice is a record `[bits, pos, err, val]`, with `refs` and `rpos` added by
  `Refs`.

Every call takes such a record and returns it. `err` is `"ok"` or the error
of the first failing call. A call after an error does nothing, as `ok!(..)`
returns early. What the calls before the error wrote stays in the builder, so
a handler that writes before it checks would leave half a value behind. The
builder holds `Cap` bits, and a store past it is `CellOverflow`. A load past
the data is `CellUnderflow`.

### Num and NumCodec

A value is `[t |-> type, v |-> inner]`. For `VarUint248` the inner value is
`<<hi, lo>>`, the two words of `into_words`. The constants,
`bit_len`/`unwrap_bit_len`, `leading_zeros`, `is_valid` and the `Ord` of
`VarUint248` are operators named after the code.

`NumCodec`'s actions are:

* `New`: `new`/`from_words`, with no check;
* `TryFrom`: `TryFrom`/`FromStr`. Overflow when `is_valid` fails, and
  InvalidString when the number does not fit the inner integer;
* `MakeSplitDepth`: `SplitDepth::new`/`from_bit_len`;
* `Arith`: the `impl_ops!` operators, which wrap at the inner width, as a
  release build does. Division by zero panics, which is where a behaviour
  stops;
* `Shift`: the shift amount is masked to the width;
* `Checked`: the `checked_*` operations;
* `Store`, `Finish` and `Load`: one `store_into`, closing the cell, and
  `load_from` of the next type of the same schema.

Byte widths scale with the constant `ByteBits`, which is 8 in the code:

* a `u32` is `4 * ByteBits` bits;
* a `VarUint`'s length counts bytes of `ByteBits` bits;
* `store_u128` splits at 8 bytes.

Widths the code writes in bits stay as they are: `LEN_BITS`, `Uint9`'s 9 and
`SplitDepth`'s 5. With `ByteBits = 1` TLC can hold the 120-bit `Tokens` and
the 248-bit `VarUint248` as integers below 2^31. With `ByteBits = 2` a
value's bit count can fall inside a byte, which is the case that the rounding
of `leading_zeros / 8` is about.

### Address and AddrCodec

Addresses are kept at their real widths: 8-bit bytes, 256-bit account ids,
`Cap = 1023`. The data is held as follows:

* an account id, an anycast prefix and a `VarAddr` workchain (`i32`, which the
  code only casts to and from `u32`) are bit sequences;
* a `StdAddr` workchain is an `i8` number, stored as `workchain as u8`.

The shifts of `from_raw_data` (`>> 5`, `<< 123` across the two `u128` halves)
are `ShrBits`, `ShlBits` and `OrBits` on bit sequences. `from_raw_data` is
applied to the 128 bytes of key data that a dictionary hands it: the key bits,
then padding.

`Anycast::from_slice` reads the prefix with `get_raw` into
`Vec::with_capacity(n)`, whose length is 0. `get_raw` is outside `src/`, so
`AnycastFromSlice` returns every outcome it can have with an empty target:
`CellUnderflow`, or `Ok` with an empty prefix.

### OutActions

Cells are entries of an arena `[bits, refs, exotic]`, and a reference is an
index into it. Cell 1 is the empty list. Cell 2 is an opaque ordinary cell
(a message, code or library). Cell 3 is an exotic cell (a pruned branch).

The program's actions are:

* `Push(a)`: a new list cell, made by `store_reference(prev)` and then
  `OutAction::store_into`. Here `prev` is the current head, or the exotic
  cell, as in a c5 that references a pruned branch;
* `PushMalformed`: a cell that no `store_into` made. It is either data with no
  reference, or a reference followed by an unknown tag;
* `StartIter`: `OutActionsRevIter::new` over the head;
* `IterNext`: one call of `next()`. It runs `load_reference`, and on failure
  the `is_data_empty && is_refs_empty` test. Then `OutAction::load_from`,
  then `as_slice` of the previous cell. The caller stops at the first `None`
  or `Err`, as `collect::<Result<Vec<_>, _>>()` does.

`CurrencyCollection` is not under `src/`. It is an opaque payload of
`CurrencyBits` bits. The variable `intact` is history: it says that every
list cell was made by `Push` on the previous head.

### AugDict

`load_from_root` reads the root node of a `HashmapAug` in place, from a slice
that goes on past it. It reads the label with `read_label`. A label shorter
than the key is a fork: `try_advance(0, 2)` skips the two child references,
or the call fails with CellUnderflow, and then the extra is loaded. A label
as long as the key is a leaf: the extra is loaded, then `skip_value` skips
the value, or the call fails with CellUnderflow. The root cell is the prefix
of the slice copy taken before the label, as long as the bits and references
consumed.

`A` and `V` are `Tokens`, the only type with an `AugDictSkipValue`. The extra
is loaded with `Num`'s `LoadVarUint`, and `skip_value` is `load_small_uint(4)`
and then `try_advance(8 * bytes, 0)`. `read_label` and the writer of a node are
not under `src/`: they follow the TL-B scheme in the file's doc comment (the
three label encodings `hml_short`, `hml_long`, `hml_same`). Child references
are model values.

The program has four actions:

* `Write(kind, p)`: a node for the key prefix `p` under label encoding `kind`,
  with an extra and, for a leaf, a value; then a trailer of other fields;
* `Read`: `AugDict::load_from_root` over the node and its trailer;
* `StoreDict`: `Store for AugDict` of the result, which is the Maybe bit, the
  root reference, then the extra;
* `LoadDict`: `Load for AugDict` of that cell.

## 3. Runs

| Run | Config | Properties | Bounds |
|---|---|---|---|
| `cell_arena` | `MCCellArena.cfg` | `ReprHashIdentifiesCell`, `PrunedTreeKeepsHash`, `DepthExceedsChildren` | 4 cells, up to 2 references, 2-bit depths; 14,242 states |
| `cell_depth_width` | `MCCellArenaDepth.cfg` | `TypeOK` | 4 cells, 1-bit depths; 8,538 states |
| `num_codec` | `MCNumCodec.cfg` | `TypeOK`, `RoundTrip`, `StoreExactSize`, `StoreAllOrNothing` | `ByteBits = 1`, `Cap = 40`, 3 values made or changed, 3 stores, SplitDepths 0, 1, 30 to 33; 358,628 states |
| `num_codec_wide_bytes` | `MCNumCodecWideBytes.cfg` | `RoundTrip` | `ByteBits = 2`, values inside and at byte edges; 138,890 states |
| `num_split_depth_range` | `MCNumCodecSplitDepthInRange.cfg` | `SplitDepthInRange` | violation expected |
| `num_min_is_smallest` | `MCNumCodecMinIsSmallest.cfg` | `MinIsSmallest` | violation expected |
| `addr_codec` | `MCAddrCodec.cfg` | `TypeOK`, `AddrRoundTrip`, `AddrStoreExactSize`, `StoreImplementsWriter` | 4 addresses, 4 stores into a 1023-bit cell; 5,042 states |
| `addr_dict_keys` | `MCAddrKeys.cfg` | `DictKeyRoundTrip` | 8 keys, 2 paddings, 2 inserts; 9,612 states |
| `addr_anycast_from_slice` | `MCAddrFromSlice.cfg` | `AnycastFromSliceKeepsPrefix` | violation expected |
| `addr_wide_len` | `MCAddrWideLen.cfg` | `StoreImplementsWriter` | one `VarAddr` with `address_len = 600`, one store; violation expected |
| `out_actions` | `MCOutActions.cfg` | `RevIterReturnsPushed`, `MalformedListFails` | 7 actions, lists of up to 3 cells; 16,194 states |
| `aug_dict_root` | `MCAugDict.cfg` | `RootNodeExact`, `AugDictRoundTrip` | 3-bit keys, every prefix and label encoding, extras of 0 to 2 bytes, values of 0 and 3 bytes, 2 trailers; 1,761 states |

What the properties say:

* **ReprHashIdentifiesCell.** Two cells with equal representation hashes have
  the same tree. This is what the encoder's deduplication by hash relies on.
* **PrunedTreeKeepsHash.** Two cells that stand for the same tree at level l
  have the same hash and depth at l. Standing for the same tree means equal once
  each pruned branch is replaced by the cell it was pruned from, below its
  level, and merkle cells look one level up. This is the merkle transparency
  that the per-level hashing exists for.
* **DepthExceedsChildren.** A cell is deeper, at every level, than each child
  at the level it reads.
* **TypeOK.** Every depth fits its width, at every level of every cell.

* **RoundTrip** (`NumCodec`). Reading a cell back with the schema it was
  written with gives every value that has an encoding back, without error.
  Every type refuses a value wider than it, except `SplitDepth`: `new` and
  `from_bit_len` accept depths up to 254, and `store_small_uint(_, 5)` keeps
  the low 5 bits. So the property leaves out depths of 32 and more
  (`FitsEncoding`), which the inputs do reach (32 fails to load, 33 loads as
  1: the `num_split_depth_range` finding). The length prefix,
  the VarUint248 split at 16 bytes and the `store_u128` split at 8 bytes line
  up between `store_into` and `load_from`, so no field shifts the ones after it.
* **StoreExactSize** (`NumCodec`). A store writes exactly
  `exact_size().bits` bits, the size callers reserve.
* **StoreAllOrNothing** (`NumCodec`, an action property). A `store_into` that
  fails leaves the builder as it was.
* **TypeOK** (`NumCodec`). Every value held is within its inner integer, also
  after wrapping arithmetic.
* **AddrRoundTrip** (`AddrCodec`). `IntAddr::load_from` gives back each
  stored address. `StdAddr::load_from` refuses a variable one with InvalidTag.
* **AddrStoreExactSize** (`AddrCodec`). Each address store writes `bit_len()`
  bits.
* **TypeOK** (`AddrCodec`). Every loaded address is well formed: an `i8`
  workchain, a `Uint9` length.
* **DictKeyRoundTrip** (`AddrCodec`). `from_raw_data` of a key's data gives
  back the address that was inserted, whatever bits follow the key.
* **RevIterReturnsPushed** (`OutActions`). Walking a list that `Push` made
  yields the actions newest first, each as stored, then `None`.
* **MalformedListFails** (`OutActions`). A list holding a cell that no `Push`
  made ends in an error, never in `None`, so a malformed c5 is never read as a
  shorter list.
* **RootNodeExact** (`AugDict`). `load_from_root` returns the extra that was
  written, and a root cell that is exactly the node's bits and references.
  The root holds the two child references of a fork and nothing of the
  trailer, and the slice is left at the first field after the node.
* **AugDictRoundTrip** (`AugDict`). The `AugDict` that `load_from_root` built
  comes back with the same root and extra from its own `Store` and `Load`.

The codec bounds are enough for these reasons:

* The inputs sit at the edges that the byte count turns on: 0, 2^k - 1 and
  2^k at byte boundaries, `MAX` and `MAX + 1`, and VarUint248 values of 15, 16
  and 17 bytes (`<<0, x>>`, `<<1, 0>>`, the top of the high word).
* Three stores into one cell put a value after a variable-length one, so a
  wrong length shifts a later field.
* `Cap = 40` with `ByteBits = 1` makes a third store overflow, which is
  what `StoreAllOrNothing` needs.
* The address keys put ones at bits 1, 5, 6, 123, 128, 129, 133, 251 and 256,
  which are the bits that cross a byte or `u128` boundary under the 3-bit
  shift, with workchains -128, -1, 0 and 127.
* `MCAugDict` uses `ByteBits = 8`, so `skip_value`'s `8 * bytes` is the real
  product. Every prefix of a 3-bit key appears under every label encoding
  that can write it. That includes the empty label, a full-key leaf, and the
  `hml_same` form of all-equal bits. A trailer with a bit and a reference
  makes a root that took too much visible.
* Lists of 3 cells over 7 actions cover every variant after every other. Each
  malformed kind appears at the head and below a valid cell, and an exotic
  cell appears as the previous list cell.

The cell-core bounds are enough for these reasons:

* Four cells reach every construction the properties are about: a cell, its
  pruned branch, and merkle proofs over both. This is the smallest arena where
  a wrong merkle offset collides two hashes.
* Two references reach a parent over a deep and a shallow child.
* With 2-bit depths a chain of 4 cells reaches the maximum depth 3.
* With 1-bit depths the `checked_add` failure is reached within 4 cells, which
  is why `TypeOK` has a run of its own.

There is no deadlock: a rejected call is always possible.

Each property has a mutant, a plausible bug in the mapped code that TLC then
finds:

* merkle cells read their children at the same level (`LevelOffsetFlat`);
* the declared mask is hashed at every level (`HashedD1FullMask`);
* `depth = next_depth` instead of the max (`LevelDepthLast`);
* no depth overflow check (`DepthOverflowUnchecked`);
* the inner result is not wrapped to its width (`ArithNoWrap`, for `TypeOK`);
* `load_u128` does not reduce the byte count (`LoadU128NoSub`);
* `bit_len` without the length prefix (`BitLenNoPrefix`);
* VarUint248's store without the capacity pre-check
  (`StoreVarUint248Unchecked`);
* the byte count rounded down (`ByteLenFloor`, which only `ByteBits = 2` shows);
* the `StdAddr` workchain read as a `u8` (`LoadStdBodyUnsigned`);
* the `VarAddr` workchain read before the length (`LoadVarBodySwapped`);
* the anycast's Maybe bit not counted (`StdBitLenNoMaybe`);
* `hi << 125` for `hi << REV_SHIFT` (`StdFromRawDataShift`);
* the library mode read from the whole flag byte (`LoadChangeLibNoShift`);
* a cell without a reference read as the end of the list whatever it holds
  (`IterNextNoEmptyCheck`);
* `skip_value` advancing by the byte count rather than by its bits
  (`SkipValueBytes`);
* `Load for AugDict` reading the extra before the dictionary
  (`LoadAugDictSwapped`).

### Findings

Four runs are expected to fail. Each failure is a disagreement between the
code and its own documentation:

* `num_min_is_smallest`: `VarUint248::ONE` is `Self([0; 2])`, which is zero,
  and `MIN` is `new(1)` (`num/mod.rs:489-492`). `new(0)` compares below
  `MIN`, and `ONE` is not one.
* `num_split_depth_range`: `SplitDepth` is documented as 1..=30, but `new`
  takes any nonzero `u8` and `from_bit_len` any length below 255
  (`num/mod.rs:798-814`). TLC makes and round-trips a SplitDepth of 31. A
  depth of 32 or more is written as its low 5 bits (`num/mod.rs:834`): 32
  fails to load with `IntOverflow` and 33 loads as 1.
* `addr_anycast_from_slice`: `Anycast::from_slice` passes a
  `Vec::with_capacity(..)`, of length 0, to `get_raw`
  (`models/message/address.rs:476-477`). It cannot return the rewrite prefix
  it was given.
* `addr_wide_len`: `Uint9::new` does not check that its value fits 9 bits
  (`num/mod.rs:662`). A `VarAddr` with `address_len = 600` passes the
  `has_capacity(bit_len())` check of `VarAddr::store_into` (644 bits), writes
  the tag `0b11` and the anycast Maybe bit, and then fails with `IntOverflow`
  in `store_uint(address_len, 9)` (`models/message/address.rs:407`). The
  builder keeps those three bits. The spec says a store fails with an
  overflow only past 1023 bits, and leaves no partial output on error; the
  `CellWriter` step mapped from this store is neither a `Put` nor a stutter.

No fairness is assumed: all properties are safety properties. Nothing in the
cell core waits on anything.

## 4. Proofs

Five modules hold proofs: `CellArenaProofs`, `NumProofs`, `NumCodecProofs`,
`AddrCodecProofs` and `AddrWriterProofs`. Every lemma and theorem is checked by `tlapm` to the
last leaf.

`CellArenaProofs.tla` proves two theorems for every width, bound and token
set. Together they have 622 obligations, all checked by `tlapm`.

* `THEOREM TypeCorrect == Spec => []TypeOK`
* `THEOREM DepthExact == Spec => []DepthExceedsChildren`

Both rest on `NextParts`. This lemma says every step is one `Finalize(p)` call
on parts `p` that satisfy `PartsOK(p)`:

* the references are existing cells;
* the children mask is the union of their masks;
* the declared mask is a mask;
* for a valid pruned branch, the stored depths fit the width.

There is one lemma per producer.

### TypeCorrect

`TypeOK` is inductive as it stands. The depths of a new cell are bounded by the
depths of existing cells, which `TypeOK` already bounds.
`FinalizeOK` shows that `Finalize` keeps `TypeOK`. It rests on these lemmas:

* `ChildDepthOK`: when `compute_hashes` succeeds, every child depth read at a
  significant level is below `MaxDepth`. For merkle cells this uses the
  virtualized mask, which bounds the level read.
* `LevelDepthRange`: the unrolled max loop stays within the width.
* `HashesDepth` and `PrunedDepth`: the entry that the `hash_index` of any level
  selects is one that `compute_hashes` pushed.
* `PrunedBodyDepth`: the layout of a pruned branch's stored depths.

### DepthExact

`DepthExceedsChildren` alone is not inductive. To know that a child's depth is
a number, and where the child's mask lies, it needs `TypeOK` and
`PartsOK`. The inductive invariant is `DepthInv == TypeOK /\ DepthExceedsChildren`.
Only the new cell needs an argument; the older cells and their children do not
change. The argument for the new cell:

1. `HashesSel`: the depth the new cell reports at level l is
   `LevelDepth(p, s)`, where s is `SelLevel(mask, l)`, the greatest
   significant level at or below l.
2. `LevelDepthAbove`: the max loop makes `LevelDepth(p, s)` larger than the
   depth of every child read at s. `ChildDepthOK` says the child depths are
   numbers.
3. The child read at s answers with the entry it would give at the level the
   property names:
   * `ShiftOrdinary`: for an ordinary cell, the child's mask is within the
     parent's, so no level of the child lies between s and l.
   * `ShiftMerkle`: for a merkle cell, the parent's mask is the virtualized
     children mask, so no level of the child lies between s + 1 and the level
     above l.

   `DepthByIndex` then says equal `hash_index` means equal depth.
4. A valid cell with a reference is ordinary or merkle: the layouts of pruned
   branches and library cells admit no reference.

### Integer codecs: StoreExactSize and StoreAllOrNothing

`NumCodecProofs.tla` proves two theorems for every capacity `Cap`, byte width
and set of inputs. They have 312 obligations, on top of the 536 of the
lemmas in `NumProofs.tla`.

* `THEOREM StoreExactSizeHolds == Spec => []StoreExactSize`
* `THEOREM StoreAllOrNothingHolds == Spec => StoreAllOrNothing`

The key lemma is `StoreValueExact` in `NumProofs`. For any bit string `b`
and any typed value `x`, `Store` of `x` into `[bits |-> b, err |-> "ok"]`
does one of two things. It fails and leaves `b` as it was. Or it succeeds and
appends exactly `ExactSizeBits(x)` bits. It is proved one type family at a
time:

* `StoreVarUintExact` covers VarUint and Tokens: the length prefix, then the
  value in one `store_uint` or in the two halves of `store_u128`.
* `StoreVarUint248Exact` covers VarUint248: the 5-bit length, then up to two
  `store_u128` calls.
* `StoreUintExact` covers the small uints and `SplitDepth`.

Each of these rests on `StoreUintSpec`, the contract of `store_uint`, and
`TwoStores`, which chains two stores.

`StoreExactSize` alone is not inductive. A `Store` step needs three more
facts, so the inductive invariant `IInv` adds them:

* the builder is a bit string;
* the register holds a typed value (`ValueOK`), so that its store has a
  known size;
* every stored entry is typed.

Every other action (the constructors, `checked_*`, shifts, `try_from`,
`SplitDepth::new`) changes only the register. The step lemmas show it stays
a typed value. TLC checked `IInv` as an invariant on the `num_codec` and
`num_codec_wide_bytes` instances before it was proved. For
TLC, "every stored entry is typed" was stated entry by entry, because TLC
cannot test membership in a set that mixes integers and pairs.
`StoreAllOrNothing` follows from the same step lemmas: only `Store` changes
the builder, and when it does, it appends one entry.

### Addresses: AddrStoreExactSize

`AddrCodecProofs.tla` proves (405 obligations):

* `THEOREM AddrStoreExactSizeHolds == Spec => []AddrStoreExactSize`

`Grows(q, r, n)` says that builder `q` comes from `r` by a store of `n` bits:
either `q` carries an error, or `r` had none and `q` is exactly `n` bits
longer. There is one lemma for each primitive:

* `GrowsUint`, `GrowsBits`, `GrowsSmall` and `GrowsFail` for the builder
  primitives;
* `GrowsAnycast` and `GrowsOptAnycast` for `Anycast::store_into` and
  `Option<Anycast>`.

`GrowsTrans` chains two stores. `GrowsStd` and `GrowsVar` follow the stores
in the order of `StdAddr::store_into` and `VarAddr::store_into`: tag, Maybe
anycast, workchain (or Uint9 length and 32-bit workchain), address. They show
that the sizes add up to `StdBitLen` and `VarBitLen`.

The inductive invariant `IInv` adds two facts to `AddrStoreExactSize`:

* the builder is a bit string;
* every entry holds an address of `Addrs`.

TLC checked `IInv` on the `addr_codec` instance (5042 states) before it was
proved. It needs an assumption on the constants: every address of `Addrs` is
well formed (`WellFormedAddr`, part of `AddrCodecAssumption`). That means its
anycast prefix has `depth` bits, its account id has 256 bits, a `VarAddr`'s
workchain has 32 bits, and its buffer holds at least `address_len` bits. These
are the widths the Rust types give. TLC evaluates the assumption on every
address run.

### Addresses: StoreRefinesWriter

`CellWriter.tla` states what any cell builder promises: `Put(x)` appends the
whole item and `Size[x]` bits when they fit in `Cap`, and otherwise fails with
`CellOverflow` and changes nothing; `Build` closes the cell. `AddrCodec`
instantiates it with the refinement mapping

* `used <- Len(builder)`, `items <- AddrsOf(stored)` (the stored addresses),
* `Size <- [a \in Addrs |-> AddrBitLen(a)]` (`IntAddr::bit_len`),
* `open <- phase = "build"`, `result <- status` while building,

and `StoreImplementsWriter == Writer!Spec`. `AddrWriterProofs.tla` proves
(430 obligations):

* `THEOREM StoreRefinesWriter == ASSUME \A a \in Addrs : Uint9Valid(a) PROVE Spec => StoreImplementsWriter`

`Exact(q, r, n)` strengthens `Grows`: besides growing by exactly `n` bits on
success, the store succeeds whenever `r` had no error and `n` more bits fit in
`Cap`. The lemmas `ExactUint`, `ExactBits`, `ExactSmall`, `ExactAnycast`,
`ExactOptAnycast`, `ExactStd`, `ExactVar` and `ExactIntAddr` follow the same
stores as the `Grows` lemmas; `ExactOverflow` and `OverflowIntAddr` show that a
store past `Cap` fails at its `has_capacity` check, before writing anything.
With them `StoreIsPut` maps every store to a `Put`, `FinishIsBuild` maps
`build` to `Build`, and `OthersStutter` maps the loads and key operations to
stutters. The invariant `IInv` of `AddrCodecProofs` (through `IInvHolds`)
gives the types the step proofs need.

The hypothesis `Uint9Valid` (every `VarAddr` length is at most 511) is needed
for `ExactVar`: `store_uint(address_len, 9)` fails with `IntOverflow` for a
wider length although the cell has room. The run `addr_wide_len` shows TLC the
counterexample, so the theorem is stated with the hypothesis rather than as an
assumption on the constants.

### Assumptions and limits

The assumptions are:

* `DepthBits \in Nat \ {0}`;
* `NoByte \notin Nat`;
* `MaxCells \in Nat`;
* `MaxRefsIn \in 0..4`;
* `2^DepthBits \in Nat \ {0, 1}`.

The last is a fact of arithmetic that the provers do not derive from `^`; TLC
checks it on every run.

The codec assumptions are `NumAssumption` (`ByteBits \in Nat \ {0}`,
`Cap \in Nat`), `NumCodecAssumption` (the inputs are naturals of their types),
and `AddrCodecAssumption` (every stored address is well formed).

`RevIterReturnsPushed`, `MalformedListFails`, `RootNodeExact` and
`AugDictRoundTrip` are only model-checked. Each says what a load of a cell
decodes (a tag, a label, a `Tokens` length), so it rests on the same decoding
of `Bits` by the recursive function inside `ReadNat` as the round trips
below (for `OutActions`, the 32-bit tags built by `Hex32` are compared with
the bits read).

`RoundTrip`, `AddrRoundTrip` and `DictKeyRoundTrip` are only model-checked.
They say that a load reads back what a store wrote. Proving that needs
`Bits(v, n)` decoded by the recursive function inside `ReadNat` for every `v` and `n`, which
is induction over data. The `TypeOK` of the address program also bounds
`slice.pos` through the loads, which rest on the same decoding. Both stay
with TLC.

The hash properties are only model-checked. `ReprHashIdentifiesCell` and
`PrunedTreeKeepsHash` are stated over the recursive functions `Tree` and
`VirtAt`. Proving them needs induction over the arena, with the digest's
injectivity as the key fact; that is a candidate for a later proof.

Out of the provers' reach, and left to TLC:

* liveness;
* `ENABLED`;
* what a recursive definition computes for every input;
* modules with RECURSIVE operators.

## 5. Not modelled, and the plan

These are not modelled:

* `load_cell` and `LoadMode`: no implementation under `src/`, and the mode is
  two stateless flags.
* The stack-buffer bound of the hash input: data bytes are abstract.
* A producer whose children mask disagrees with its references: no producer
  under `src/` makes one.

Also not modelled:

* `FromStr`/`Display` of addresses and integers: text parsing and formatting.
  `FromStr` of the integers is modelled only by its outcome (value, Overflow,
  InvalidString).
* `ExtAddr::new` and the small uints' `DictKey::from_raw_data`.
* The debug-build panics of the `impl_ops!` operators. A panic ends the
  program, so it is a behaviour that stops, and the release outcome is the one
  modelled.
* The `AugDict` lookup and iteration methods (`contains_key`, `get`, `iter`,
  `keys`, `values`, `raw_*`, `AugIter`). These only delegate to `Dict` and its
  iterators, which are not under `src/`. The commented-out `set_ext` family is
  not code.
* A caller of `OutActionsRevIter` that calls `next()` after an error. The
  iterator is not fused and would read the same cell again; nothing under
  `src/` does this.

Planned, in this order:

1. **BocDecoder** (spec-modelled, since `de.rs` is outside `src/`): the header
   state machine (tag, sizes, counts, root window, reference ordering, checksum)
   and `finalize`, which calls `CellArena`'s `Finalize` from the highest index
   down. It is composed with `decode_ext`/`decode_pair_ext` from `boc/mod.rs`
   (root lookup, `RootCellNotFound`).
2. **BocEncoder** (spec-modelled): deduplication by representation hash, index
   assignment, the size bytes. Round trip: `decode(encode(c))` has the hashes of
   `c`. An abstract "bag of cells" specification refines it.

Theorems worth proving next:

* the round trip of the integer codecs, stated with arithmetic only;
* the refinement of the encoder and decoder pair.
