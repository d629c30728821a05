----------------------------- MODULE Prefetchers -----------------------------
(***************************************************************************)
(* The small prefetchers of a cache (prefetcher/): next_line; ip_stride,   *)
(* which follows the stride of an instruction for some cycles; and         *)
(* va_ampm_lite, which keeps maps of what was accessed and prefetched in   *)
(* the regions it tracks.  prefetch_line may refuse a prefetch.            *)
(*                                                                         *)
(* An address is a block number.  The tables are lru_tables of one set,    *)
(* sequences with the most recent element in front (LruTable).             *)
(***************************************************************************)
EXTENDS Recency, Integers, FiniteSets

CONSTANTS
  TRACKER_WAYS, STRIDE_DEGREE,             \* of ip_stride
  REGION_WAYS, MAX_DISTANCE, AMPM_DEGREE,  \* of va_ampm_lite
  PAGE_LINES, DemandIps, DemandLines,
  MaxLineDemands                               \* bound

VARIABLE pf

ASSUME PrefetchersAssumption ==
  /\ DemandLines \subseteq Int /\ DemandIps \subseteq Nat
  /\ {TRACKER_WAYS, STRIDE_DEGREE, REGION_WAYS, MAX_DISTANCE, AMPM_DEGREE, PAGE_LINES}
       \subseteq Nat \ {0}

PageAt(block) == block \div PAGE_LINES
OffsetAt(block) == block % PAGE_LINES
Idle == [active |-> FALSE]

PrefetchInit ==
  \E kind \in {"next_line", "ip_stride", "va_ampm_lite"}, virtual \in BOOLEAN :
    /\ kind # "ip_stride" => ~virtual
    /\ pf = [kind |-> kind, virtual_prefetch |-> virtual, demands |-> 0,
             table |-> <<>>, active_lookahead |-> Idle, regions |-> <<>>,
             \* history: the blocks an instruction demanded, the demand that started the
             \* lookahead and what that has prefetched; the prefetches into regions
             \* that are tracked since, and whether one was repeated
             seen |-> [tag \in {ip \div 4 : ip \in DemandIps} |-> <<>>],
             origin |-> 0, ahead |-> <<>>, sent |-> {}, repeated |-> FALSE]

Demanded(ip, block) ==
  [pf EXCEPT !.demands = @ + 1, !.seen[ip \div 4] = Append(@, block)]

MayDemand(kind) == pf.kind = kind /\ pf.demands < MaxLineDemands

\* The next block, whatever page it is in.
NextLine(block) ==
  MayDemand("next_line") /\ pf' = [pf EXCEPT !.demands = @ + 1, !.ahead = <<block + 1>>]

----------------------------------------------------------------------------
(* ip_stride *)

Confirmed(stride, found) == stride # 0 /\ stride = found.last_stride

Tracker(ip, block, stride) == [tag |-> ip \div 4, last_cl_addr |-> block, last_stride |-> stride]

Lookahead(address, stride, degree) ==
  [active |-> TRUE, address |-> address, stride |-> stride, degree |-> degree]

StrideOperate(ip, block) ==
  /\ MayDemand("ip_stride")
  /\ LET hit == IsIn(pf.table, ip \div 4)
         found == ElementOf(pf.table, ip \div 4)
         stride == IF hit THEN block - found.last_cl_addr ELSE 0
         p == [Demanded(ip, block) EXCEPT
                 !.table = Insert(@, Tracker(ip, block, stride), TRACKER_WAYS)]
     IN  pf' = IF hit /\ Confirmed(stride, found)
               THEN [p EXCEPT !.active_lookahead = Lookahead(block, stride, STRIDE_DEGREE),
                              !.origin = block, !.ahead = <<>>]
               ELSE p

\* A step that is refused is tried again; one that leaves the page is the last.
StrideCycle(success) ==
  LET l == pf.active_lookahead
      next == l.address + l.stride
  IN  /\ pf.kind = "ip_stride" /\ l.active
      /\ pf' = IF ~(pf.virtual_prefetch \/ PageAt(next) = PageAt(l.address))
               THEN [pf EXCEPT !.active_lookahead = Idle]
               ELSE IF ~success THEN pf
               ELSE [pf EXCEPT !.ahead = Append(@, next),
                               !.active_lookahead = IF l.degree = 1 THEN Idle
                                                    ELSE Lookahead(next, l.stride, l.degree - 1)]

----------------------------------------------------------------------------
(* va_ampm_lite *)

Region(page) == [tag |-> page, access_map |-> {}, prefetch_map |-> {}]
RegionOf(regions, page) == IF IsIn(regions, page) THEN ElementOf(regions, page) ELSE Region(page)

check_cl_access(regions, block) ==
  OffsetAt(block) \in RegionOf(regions, PageAt(block)).access_map
check_cl_prefetch(regions, block) ==
  OffsetAt(block) \in RegionOf(regions, PageAt(block)).prefetch_map

\* Mutant of MarkedPrefetch: a region that is not tracked is not marked.
MarkedPrefetch_Tracked(regions, block) ==
  LET region == RegionOf(regions, PageAt(block))
  IN  Insert(regions, [region EXCEPT !.prefetch_map =
                         IF IsIn(regions, PageAt(block)) THEN @ \cup {OffsetAt(block)} ELSE @],
             REGION_WAYS)

MarkedPrefetch(regions, block) ==
  Insert(regions, [RegionOf(regions, PageAt(block)) EXCEPT !.prefetch_map =
                     @ \cup {OffsetAt(block)}], REGION_WAYS)

PrefetchIssued(s, direction, block) ==
  LET regions == MarkedPrefetch(s.regions, block)
  IN  [s EXCEPT !.regions = regions, !.room = @ - 1, !.issued[direction] = @ + 1,
                !.repeated = @ \/ block \in s.sent,
                !.sent = {b \in @ : IsIn(regions, PageAt(b))} \cup {block}]

\* One step of the search around the block: what was accessed at this distance
\* and at twice the distance on one side is prefetched on the other.  Each lookup
\* makes its region the most recent.
Searched(s, block, direction, distance) ==
  LET ahead == block + direction * distance
      back == block - direction * distance
      further == block - direction * 2 * distance
      behind == check_cl_access(s.regions, back)
      pattern == behind /\ check_cl_access(s.regions, further)
      once == Touch(s.regions, PageAt(back))
      twice == IF behind THEN Touch(once, PageAt(further)) ELSE once
      looked == [s EXCEPT !.regions = IF pattern THEN Touch(twice, PageAt(ahead)) ELSE twice]
  IN  IF s.issued[direction] = AMPM_DEGREE THEN s
      ELSE IF /\ pattern /\ s.room > 0
              /\ ~check_cl_access(s.regions, ahead) /\ ~check_cl_prefetch(s.regions, ahead)
      THEN PrefetchIssued(looked, direction, ahead)
      ELSE looked

SearchAlong(s, block, direction) ==
  LET after[distance \in 0..MAX_DISTANCE] ==
        IF distance = 0 THEN s ELSE Searched(after[distance - 1], block, direction, distance)
  IN  after[MAX_DISTANCE]

\* First upwards, then downwards.
Search(s, block) == SearchAlong(SearchAlong(s, block, 1), block, -1)

\* The first access to a region only allocates it.  The prefetch queue has room
\* for some more.
AmpmOperate(block, room) ==
  /\ MayDemand("va_ampm_lite")
  /\ LET page == PageAt(block)
         region == RegionOf(pf.regions, page)
         marked == Insert(pf.regions, [region EXCEPT !.access_map =
                             IF IsIn(pf.regions, page) THEN @ \cup {OffsetAt(block)} ELSE @],
                          REGION_WAYS)
         s == [regions |-> marked, issued |-> [d \in {-1, 1} |-> 0], room |-> room,
               sent |-> {b \in pf.sent : IsIn(marked, PageAt(b))}, repeated |-> FALSE]
         done == IF IsIn(pf.regions, page) THEN Search(s, block) ELSE s
     IN  pf' = [pf EXCEPT !.demands = @ + 1, !.regions = done.regions, !.sent = done.sent,
                          !.repeated = @ \/ done.repeated]

PrefetchNext ==
  \/ \E block \in DemandLines :
       \/ NextLine(block)
       \/ \E ip \in DemandIps : StrideOperate(ip, block)
       \/ \E room \in 0..(2 * AMPM_DEGREE) : AmpmOperate(block, room)
  \/ \E success \in BOOLEAN : StrideCycle(success)

PrefetchSpec == PrefetchInit /\ [][PrefetchNext]_pf

----------------------------------------------------------------------------
\* What ip_stride prefetches continues the last three demands of an instruction, up
\* to its degree, and in a physical cache stays in the page of the last of them,
\* also when steps are refused and another instruction takes the lookahead over.
StrideContinues ==
  pf.kind = "ip_stride" /\ pf.ahead # <<>> =>
    LET stride == pf.ahead[1] - pf.origin
    IN  /\ Len(pf.ahead) <= STRIDE_DEGREE
        /\ \A k \in 1..Len(pf.ahead) :
             /\ pf.ahead[k] = pf.origin + k * stride
             /\ ~pf.virtual_prefetch => PageAt(pf.ahead[k]) = PageAt(pf.origin)
        /\ \E tag \in DOMAIN pf.seen : \E k \in 3..Len(pf.seen[tag]) :
             /\ pf.seen[tag][k] = pf.origin
             /\ pf.seen[tag][k - 1] = pf.origin - stride
             /\ pf.seen[tag][k - 2] = pf.origin - 2 * stride

\* While a region is tracked, va_ampm_lite prefetches no block of it twice, although
\* a prefetch can push out the region of the demand in the middle of the search.
NothingTwice ==
  /\ ~pf.repeated
  /\ \A block \in pf.sent : check_cl_prefetch(pf.regions, block)

PrefetchesAreNew == StrideContinues /\ NothingTwice
==============================================================================
