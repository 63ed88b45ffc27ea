----------------------------- MODULE MCDeviceIo -----------------------------
(* Two vrings of one device, and the small descriptor tables and requests    *)
(* that the walk and the device's decisions are compared on.                 *)
EXTENDS DeviceIo

CONSTANTS v1, v2, i1, i2, i3, t1, t2

TwoVrings == (i1 :> v1) @@ (i2 :> v1) @@ (i3 :> v2)

GeometryLimits == [sectors |-> 3, heads |-> 2, cylinders |-> 4]

Bdevs ==
  {[total_blocks |-> 3, block_size |-> 4, features |-> {"DISCARD"}],
   [total_blocks |-> 3, block_size |-> 3, features |-> {}]}

-----------------------------------------------------------------------------
(* The chains of the guest. *)

Buf(len, data) == [len |-> len, data |-> data]

Desc(in, next, mapped, buf) ==
  [indirect |-> FALSE, in |-> in, next |-> next, mapped |-> mapped,
   whole |-> TRUE, table |-> <<>>, buf |-> buf]

Indirect(next, mapped, whole, table) ==
  [indirect |-> TRUE, in |-> FALSE, next |-> next, mapped |-> mapped,
   whole |-> whole, table |-> table, buf |-> Buf(0, "none")]

Hdr(type, sector) == Buf(4, [type |-> type, sector |-> sector])
Data(n) == Buf(n, "data")
Seg(sector, num) == Buf(5, [sector |-> sector, num |-> num])
StatusBuf == Buf(1, "status")

\* One request with a header, data and status, in an indirect table.
Whole(hdr, in, data) ==
  <<Indirect(NoNext, TRUE, TRUE,
      <<Desc(FALSE, 1, TRUE, hdr), Desc(in, 2, TRUE, data),
        Desc(TRUE, NoNext, TRUE, StatusBuf)>>)>>

\* A write past the capacity until the device grows, a request without room
\* for headers, and a chain that leaves the table.
GuestChains ==
  {Whole(Hdr("OUT", 6), FALSE, Data(2)), <<Desc(FALSE, NoNext, TRUE, Data(2))>>,
   <<Desc(FALSE, 2, TRUE, Hdr("IN", 0))>>}

-----------------------------------------------------------------------------
(* All small tables: one descriptor may be indirect. *)

Directs == {Desc(in, next, mapped, Data(1)) :
              in \in BOOLEAN, next \in {NoNext, 0, 1, 2}, mapped \in BOOLEAN}

SubTables ==
  {<<a>> : a \in Directs} \cup
  {<<Desc(in, 1, TRUE, Data(2)), b>> :
      in \in BOOLEAN, b \in {d \in Directs : d.mapped}} \cup
  {<<Desc(FALSE, 1, TRUE, Data(2)), Indirect(NoNext, TRUE, TRUE, <<>>)>>,
   [i \in 1 .. 5 |-> Desc(TRUE, IF i = 5 THEN NoNext ELSE i, TRUE, Data(i))]}

Indirects == {Indirect(next, mapped, whole, table) :
                next \in {NoNext, 1}, mapped \in BOOLEAN, whole \in BOOLEAN,
                table \in SubTables}

SmallTables ==
  {<<a, b>> : a \in Directs, b \in Directs \cup Indirects} \cup
  {<<a, Desc(TRUE, NoNext, TRUE, Data(1))>> : a \in Indirects}

(* The walk over every small table, from either index, finds the buffers of *)
(* the chain or rejects it: no buffer is lost, added or out of order, no    *)
(* chain is endless, and no index past a table is followed (walk_chain).    *)
(* It is about no state in particular: the initial ones will do.            *)
ChainExact ==
  DevInit => \A table \in SmallTables, head \in 0 .. 1 : WalkCorrect(table, head)

-----------------------------------------------------------------------------
(* All small requests. *)

Devices ==
  {[virtio_blk_init_dev([total_blocks |-> n, block_size |-> 2, features |-> f])
      EXCEPT !.geometry = GeometryLimits] :
      n \in {0, 1, 6, 15}, f \in SUBSET {"RO", "DISCARD", "WRITE_ZEROES"}}

Sectors == {0, 1, 5, 6, 14, 15}

Datas ==
  {<<>>, <<Data(2)>>, <<Data(1), Data(1)>>, <<Data(3)>>, <<Data(12)>>,
   <<Data(14), Data(14)>>, <<Data(30)>>}

Segs == {<<Seg(s, n)>> : s \in Sectors, n \in {0, 1, 6, 15}} \cup
        {<<Buf(4, [sector |-> 0, num |-> 1])>>, <<Seg(0, 1), Seg(1, 1)>>}

SmallRequests ==
  LET hdrs == {Hdr(t, s) : t \in {"IN", "OUT"}, s \in Sectors}
      end == {<<StatusBuf>>, <<Data(2)>>}
  IN {[out |-> <<h>> \o a, in |-> b \o e] :
        h \in hdrs, a \in Datas, b \in Datas, e \in end} \cup
     {[out |-> <<Hdr(t, 0)>> \o a, in |-> <<StatusBuf>>] :
        t \in {"DISCARD", "WRITE_ZEROES", "FLUSH", "GET_ID"}, a \in Segs \cup {<<>>}} \cup
     {[out |-> <<>>, in |-> <<StatusBuf>>],
      [out |-> <<Hdr("IN", 0)>>, in |-> <<>>],
      [out |-> <<Buf(3, [type |-> "IN", sector |-> 0])>>, in |-> <<Data(2), StatusBuf>>]}

(* On every small device and request, what blk_handle_buffers submits to   *)
(* the backend is what the request asks for, on sectors the device has,    *)
(* also where the arithmetic of the code could wrap; and nothing proper is *)
(* refused (is_valid_block_range_req, handle_inout,                        *)
(* handle_discard_or_write_zeroes).                                        *)
(* Also about no state in particular.                                      *)
RequestExact ==
  DevInit => \A d \in Devices, iov \in SmallRequests : HandledCorrectly(d, iov)
=============================================================================
