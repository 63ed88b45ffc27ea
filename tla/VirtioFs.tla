------------------------------ MODULE VirtioFs ------------------------------
(***************************************************************************)
(* What the virtio-fs device makes of a request (virtio_fs.c): one that    *)
(* has room for the headers is submitted with all of its buffers.          *)
(***************************************************************************)
EXTENDS Integers, Sequences

CONSTANTS
    InHdrLen,      \* sizeof(struct virtio_fs_in_header)
    OutHdrLen      \* sizeof(struct virtio_fs_out_header)

\* handle_buffers of virtio_fs.c.  A request may have no room for an answer.
fs_handle_buffers(iov) ==
    IF \/ iov.in # <<>> /\ iov.in[1].len < OutHdrLen
       \/ iov.out = <<>> \/ iov.out[1].len < InHdrLen
    THEN [kind |-> "abort", status |-> "none", io |-> <<>>]
    ELSE [kind |-> "submit", status |-> "none",
          io |-> [type |-> "FUSE", buffers |-> iov.out \o iov.in]]
=============================================================================
