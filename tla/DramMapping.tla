----------------------------- MODULE DramMapping -----------------------------
(***************************************************************************)
(* Where an address lives in DRAM (DRAM_ADDRESS_MAPPING): contiguous       *)
(* fields of its bits, the channel, the bank and its group hashed with the *)
(* bits of the row.  Addresses are block numbers: the offset is left out.  *)
(***************************************************************************)
EXTENDS Integers, FiniteSets, FiniteSetsExt

CONSTANTS
  CHANNEL_BITS, BANKGROUP_BITS, BANK_BITS, COLUMN_BITS, RANK_BITS, ROW_BITS

\* make_slicer: the fields, from the lowest; column counts bursts.
CHANNEL_AT == 0
BANKGROUP_AT == CHANNEL_AT + CHANNEL_BITS
BANK_AT == BANKGROUP_AT + BANKGROUP_BITS
COLUMN_AT == BANK_AT + BANK_BITS
RANK_AT == COLUMN_AT + COLUMN_BITS
ROW_AT == RANK_AT + RANK_BITS
ADDRESS_BITS == ROW_AT + ROW_BITS

Addresses == 0..(2 ^ ADDRESS_BITS - 1)

Slice(address, lower, size) == (address \div 2 ^ lower) % 2 ^ size
BitOf(value, k) == (value \div 2 ^ k) % 2

\* The number with these bits.
FromBits(bit, size) == MapThenSumSet(LAMBDA k : bit[k] * 2 ^ k, 0..(size - 1))

get_row(address) == Slice(address, ROW_AT, ROW_BITS)
get_rank(address) == Slice(address, RANK_AT, RANK_BITS)
get_column(address) == Slice(address, COLUMN_AT, COLUMN_BITS)

\* swizzle_bits: the row is cut into segments; of each, field_bits at an offset
\* are combined with the field by exclusive or.  Segments that reach beyond the
\* row have no bits there.
swizzle_bits(address, segment_size, segment_offset, field, field_bits) ==
  LET segments == {s \in 0..ROW_BITS : s * segment_size < ROW_BITS}
      RowBit(s, k) ==
        IF segment_offset + k < segment_size
        THEN BitOf(get_row(address), s * segment_size + segment_offset + k) ELSE 0
      bit == [k \in 0..(field_bits - 1) |->
                (BitOf(field, k) + MapThenSumSet(LAMBDA s : RowBit(s, k), segments)) % 2]
  IN  FromBits(bit, field_bits)

get_channel(address) ==
  swizzle_bits(address, 1, 0, Slice(address, CHANNEL_AT, CHANNEL_BITS), CHANNEL_BITS)

get_bankgroup(address) ==
  swizzle_bits(address, BANKGROUP_BITS + BANK_BITS, 0,
               Slice(address, BANKGROUP_AT, BANKGROUP_BITS), BANKGROUP_BITS)

get_bank(address) ==
  swizzle_bits(address, BANKGROUP_BITS + BANK_BITS, BANKGROUP_BITS,
               Slice(address, BANK_AT, BANK_BITS), BANK_BITS)

bankgroup_request_index(address) ==
  get_rank(address) * 2 ^ BANKGROUP_BITS + get_bankgroup(address)
bank_request_index(address) ==
  bankgroup_request_index(address) * 2 ^ BANK_BITS + get_bank(address)

BankGroups == 0..(2 ^ (RANK_BITS + BANKGROUP_BITS) - 1)
Banks == 0..(2 ^ (RANK_BITS + BANKGROUP_BITS + BANK_BITS) - 1)

Location(address) ==
  <<get_channel(address), bank_request_index(address), get_row(address), get_column(address)>>

\* Hashing loses nothing: as many places as addresses.
PlacesDiffer == Cardinality({Location(address) : address \in Addresses}) = Cardinality(Addresses)
==============================================================================
