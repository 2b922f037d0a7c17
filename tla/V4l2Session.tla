---------------------------- MODULE V4l2Session -----------------------------
(***************************************************************************)
(* What jetcam-raw-test promises the V4L2 driver: the order of calls that  *)
(* docs/stage2-raw-test.md:11-20 draws and that the destructor of          *)
(* V4l2Device has to complete on every exit.  Only the state both sides    *)
(* share is kept, the descriptor, the MMAP buffers and the stream; why the *)
(* tool makes a call is RawCapture's business, which implements this.      *)
(***************************************************************************)
EXTENDS Integers

CONSTANT MaxBuffers   \* the largest number of buffers a driver grants

Buffers == 0 .. MaxBuffers - 1

VARIABLES
    fd,         \* the device is open
    granted,    \* buffers the driver allocated (VIDIOC_REQBUFS)
    mapped,     \* buffers mapped into the process
    owner,      \* who may touch a buffer: "user", or the driver, that has
                \* it "queued" for the next frame or "done" with a frame in it
    kstream,    \* the driver is streaming
    refused     \* a VIDIOC_STREAMOFF was issued and failed

session == <<fd, granted, mapped, owner, kstream, refused>>

AllUser == [b \in Buffers |-> "user"]

Init ==
    /\ fd = FALSE
    /\ granted = 0
    /\ mapped = {}
    /\ owner = AllUser
    /\ kstream = FALSE
    /\ refused = FALSE

Open ==
    /\ ~fd
    /\ fd' = TRUE
    /\ UNCHANGED <<granted, mapped, owner, kstream, refused>>

\* VIDIOC_REQBUFS: once, before anything is mapped
Grant ==
    /\ fd /\ granted = 0 /\ mapped = {} /\ ~kstream
    /\ granted' \in 0 .. MaxBuffers
    /\ UNCHANGED <<fd, mapped, owner, kstream, refused>>

\* buffers are mapped in index order, before the stream starts
Map(b) ==
    /\ fd /\ ~kstream
    /\ b < granted
    /\ mapped = 0 .. b - 1
    /\ mapped' = mapped \cup {b}
    /\ UNCHANGED <<fd, granted, owner, kstream, refused>>

\* VIDIOC_QBUF: a mapped buffer that the process owns
Give(b) ==
    /\ fd /\ b \in mapped
    /\ owner[b] = "user"
    /\ owner' = [owner EXCEPT ![b] = "queued"]
    /\ UNCHANGED <<fd, granted, mapped, kstream, refused>>

\* VIDIOC_STREAMON: only with every granted buffer mapped and queued
StreamOn ==
    /\ fd /\ ~kstream
    /\ granted >= 2
    /\ \A b \in 0 .. granted - 1 : b \in mapped /\ owner[b] = "queued"
    /\ kstream' = TRUE
    /\ UNCHANGED <<fd, granted, mapped, owner, refused>>

\* the driver completes a frame
Fill(b) ==
    /\ kstream /\ owner[b] = "queued"
    /\ owner' = [owner EXCEPT ![b] = "done"]
    /\ UNCHANGED <<fd, granted, mapped, kstream, refused>>

\* VIDIOC_DQBUF: the process never holds a second buffer
Take(b) ==
    /\ fd /\ kstream
    /\ owner[b] = "done"
    /\ \A c \in mapped : owner[c] # "user"
    /\ owner' = [owner EXCEPT ![b] = "user"]
    /\ UNCHANGED <<fd, granted, mapped, kstream, refused>>

\* VIDIOC_STREAMOFF returns every buffer to the process
StreamOff ==
    /\ fd /\ kstream
    /\ kstream' = FALSE
    /\ owner' = AllUser
    /\ UNCHANGED <<fd, granted, mapped, refused>>

StreamOffRefused ==
    /\ fd /\ kstream
    /\ refused' = TRUE
    /\ UNCHANGED <<fd, granted, mapped, owner, kstream>>

\* munmap: never under a running stream, unless the driver would not stop
Unmap(b) ==
    /\ b \in mapped
    /\ kstream => refused
    /\ mapped' = mapped \ {b}
    /\ UNCHANGED <<fd, granted, owner, kstream, refused>>

\* close comes last; it ends the stream and frees the buffers
Close ==
    /\ fd /\ mapped = {}
    /\ fd' = FALSE
    /\ kstream' = FALSE
    /\ granted' = 0
    /\ owner' = AllUser
    /\ UNCHANGED <<mapped, refused>>

Next ==
    \/ Open \/ Grant \/ StreamOn \/ StreamOff \/ StreamOffRefused \/ Close
    \/ \E b \in Buffers : Map(b) \/ Give(b) \/ Fill(b) \/ Take(b) \/ Unmap(b)

Spec == Init /\ [][Next]_session
=============================================================================
