------------------------------ MODULE VirtioBlk ------------------------------
(***************************************************************************)
(* What the virtio-blk device makes of a request (virtio_blk.c), and which *)
(* block devices can be registered (blockdev.c).                           *)
(*                                                                         *)
(* A request is [out, in], two sequences of buffers [len, data].  The data *)
(* of a header is [type, sector], of a discard segment [sector, num].  The *)
(* guest does not change a request that it has made available.             *)
(***************************************************************************)
EXTENDS Integers, SequencesExt

CONSTANTS
    SectorSize,    \* VIRTIO_BLK_SECTOR_SIZE and VHD_SECTOR_SIZE
    HdrLen,        \* sizeof(struct virtio_blk_req_hdr)
    SegLen,        \* sizeof(struct virtio_blk_discard_write_zeroes)
    IdLen,         \* VIRTIO_BLK_DISKID_LENGTH
    CapBits,       \* width of uint64_t
    MaxSegSectors, \* UINT32_MAX, the largest number of sectors of a segment
    MaxGeometry    \* limits of sectors, heads and cylinders

ASSUME BlkAssumption ==
    /\ {SectorSize, HdrLen, SegLen, IdLen, CapBits} \subseteq Nat \ {0}
    /\ MaxSegSectors \in Nat
    /\ MaxGeometry \in [sectors : Nat \ {0}, heads : Nat \ {0}, cylinders : Nat \ {0}]

WrapCap(n) == n % 2 ^ CapBits

----------------------------------------------------------------------------
(* The device. *)

\* refresh_config_geometry; a capacity of zero makes capacity - 1 wrap.
Geometry(capacity) ==
    LET least(a, b) == IF a < b THEN a ELSE b
        last == WrapCap(capacity - 1)
        s == MaxGeometry.sectors
        h == MaxGeometry.heads
    IN  [sectors |-> least(capacity, s),
         heads |-> least(1 + last \div s, h),
         cylinders |-> least(1 + last \div (s * h), MaxGeometry.cylinders)]

\* Exponents of powers of two, as many as a block size can use here.
Exponent == 0 .. CapBits

\* The checks of vhd_register_blockdev.
Registrable(bdev) ==
    /\ bdev.total_blocks # 0 /\ bdev.block_size # 0
    /\ \E e \in Exponent : bdev.block_size = 2 ^ e
    /\ bdev.block_size % SectorSize = 0
    /\ bdev.features \subseteq {"RO", "DISCARD", "WRITE_ZEROES"}

\* vhd_find_first_bit32
FirstBit(n) == CHOOSE e \in Exponent : n % 2 ^ (e + 1) = 2 ^ e

virtio_blk_init_dev(bdev) ==
    LET exp == FirstBit(bdev.block_size \div SectorSize)
        capacity == WrapCap(bdev.total_blocks * 2 ^ exp)
    IN  [kind |-> "blk", features |-> bdev.features,
         capacity |-> capacity, physical_block_exp |-> exp,
         discard_sector_alignment |-> 1, max_sectors |-> MaxSegSectors,
         geometry |-> Geometry(capacity)]

virtio_blk_set_total_blocks(dev, total_blocks) ==
    LET capacity == WrapCap(total_blocks * 2 ^ dev.physical_block_exp)
    IN  [dev EXCEPT !.capacity = capacity, !.geometry = Geometry(capacity)]

virtio_blk_is_readonly(dev) == "RO" \in dev.features

dev_supports_req(dev, type) ==
    type \in {"IN", "OUT", "GET_ID"} \cup ({"DISCARD", "WRITE_ZEROES"} \cap dev.features)

----------------------------------------------------------------------------
(* Requests. *)

iov_size(bufs) == FoldSeq(LAMBDA b, n : b.len + n, 0, bufs)

\* What becomes of a request: aborted, answered at once with a status, or
\* submitted to the backend.
Abort == [kind |-> "abort", status |-> "none", io |-> <<>>]
Answer(status) == [kind |-> "answer", status |-> status, io |-> <<>>]
Submit(io) == [kind |-> "submit", status |-> "none", io |-> io]

\* Mutant: the end of the range may wrap.
is_valid_block_range_req_Sum(sector, nsectors, capacity) ==
    WrapCap(sector + nsectors) <= capacity

is_valid_block_range_req(sector, nsectors, capacity) ==
    ~(nsectors > capacity \/ sector > capacity - nsectors)

is_valid_req(sector, len, capacity) ==
    /\ len # 0 /\ len % SectorSize = 0
    /\ is_valid_block_range_req(sector, len \div SectorSize, capacity)

handle_inout(dev, iov) ==
    LET req == iov.out[1].data
        read == req.type = "IN"
        pdata == IF read THEN Front(iov.in) ELSE Tail(iov.out)
        len == iov_size(pdata)
    IN  IF \/ ~read /\ virtio_blk_is_readonly(dev)
           \/ ~is_valid_req(req.sector, len, dev.capacity)
        THEN Answer("IOERR")
        ELSE Submit([type |-> IF read THEN "READ" ELSE "WRITE",
                     first_sector |-> req.sector,
                     total_sectors |-> len \div SectorSize, buffers |-> pdata])

\* VHD_IS_ALIGNED, for an alignment that is a power of two.
handle_discard_or_write_zeroes(dev, type, iov) ==
    LET seg == iov.out[2].data
        align == dev.discard_sector_alignment
        aligned == seg.num % align = 0 /\ seg.sector % align = 0
    IN  IF virtio_blk_is_readonly(dev) THEN Answer("IOERR")
        ELSE IF Len(iov.out) # 2 THEN Answer("IOERR")
        ELSE IF \/ iov.out[2].len # SegLen
                \/ ~is_valid_block_range_req(seg.sector, seg.num, dev.capacity)
                \/ type = "DISCARD" /\ ~aligned
                \/ seg.num > dev.max_sectors
        THEN Answer("IOERR")
        ELSE Submit([type |-> type, first_sector |-> seg.sector,
                     total_sectors |-> seg.num, buffers |-> <<>>])

handle_getid(iov) ==
    IF Len(iov.in) = 2 /\ iov.in[1].len = IdLen THEN "OK" ELSE "IOERR"

\* handle_buffers of virtio_blk.c, with abort_request for bad framing.
blk_handle_buffers(dev, iov) ==
    IF iov.in = <<>> \/ iov.in[Len(iov.in)].len # 1 THEN Abort
    ELSE IF iov.out = <<>> \/ iov.out[1].len # HdrLen THEN Abort
    ELSE LET type == iov.out[1].data.type
         IN  CASE ~dev_supports_req(dev, type)       -> Answer("UNSUPP")
               [] type \in {"IN", "OUT"}             -> handle_inout(dev, iov)
               [] type = "GET_ID"                    -> Answer(handle_getid(iov))
               [] type \in {"DISCARD", "WRITE_ZEROES"} ->
                      handle_discard_or_write_zeroes(dev, type, iov)

translate_status(result) == IF result = "SUCCESS" THEN "OK" ELSE "IOERR"

----------------------------------------------------------------------------
(* What a request means, in integers that do not wrap. *)

Framed(iov) ==
    /\ iov.in # <<>> /\ iov.in[Len(iov.in)].len = 1
    /\ iov.out # <<>> /\ iov.out[1].len = HdrLen

\* Sectors first .. first + n - 1 are all on the device.
OnDevice(first, n, dev) == first + n <= dev.capacity

\* The request asks for something that the device can do.
Proper(dev, iov) ==
    /\ Framed(iov)
    /\ LET req == iov.out[1].data
           data == IF req.type = "IN" THEN Front(iov.in) ELSE Tail(iov.out)
       IN  \/ /\ req.type \in {"IN", "OUT"}
              /\ req.type = "OUT" => "RO" \notin dev.features
              /\ \E n \in 1 .. dev.capacity :
                    iov_size(data) = n * SectorSize /\ OnDevice(req.sector, n, dev)
           \/ /\ req.type \in {"DISCARD", "WRITE_ZEROES"} \cap dev.features
              /\ "RO" \notin dev.features
              /\ Len(data) = 1 /\ data[1].len = SegLen
              /\ OnDevice(data[1].data.sector, data[1].data.num, dev)

\* For one request: it reaches the backend exactly if it is proper, and then
\* with the sectors and the buffers that it names.
HandledCorrectly(dev, iov) ==
    LET res == blk_handle_buffers(dev, iov)
    IN  /\ (res.kind = "submit") <=> Proper(dev, iov)
        /\ (res.kind = "abort") <=> ~Framed(iov)
        /\ res.kind = "submit" =>
              /\ OnDevice(res.io.first_sector, res.io.total_sectors, dev)
              /\ res.io.type \in {"READ", "WRITE"} =>
                    iov_size(res.io.buffers) = res.io.total_sectors * SectorSize
              /\ res.io.buffers =
                    CASE res.io.type = "READ"  -> Front(iov.in)
                      [] res.io.type = "WRITE" -> Tail(iov.out)
                      [] OTHER -> <<>>
=============================================================================
