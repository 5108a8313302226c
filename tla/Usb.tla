---------------------------------- MODULE Usb ----------------------------------
(***************************************************************************)
(* The libusb transport (core/src/transport/usb.c): opening one scanner,   *)
(* finding it again after it has re-enumerated, and the bulk transfers in  *)
(* both directions.  libusb may move only a part of a transfer and may     *)
(* report a timeout beside the bytes it has moved.  Scanners sit on a bus  *)
(* of their own each and are listed in the order of their numbers.         *)
(***************************************************************************)
EXTENDS Naturals, Sequences, FiniteSetsExt

CONSTANTS
  SCANNERS,    \* 1 .. n
  WAIT,        \* attempts that fit in wait_ms
  SIZE,        \* bytes of a bulk_out
  BYTES        \* bound on the bytes a scanner streams

ASSUME UsbAssumption == BYTES \in Nat /\ {WAIT, SIZE} \subseteq Nat \ {0} /\ SCANNERS \subseteq Nat \ {0}

VARIABLES
  ids,         \* [SCANNERS -> the USB identity each shows]
  ease,        \* [SCANNERS -> what succeeds on it]: "nothing", "open", or "all" with the claim
  handle,      \* the scanner this transport holds, 0 for none
  bus,         \* usbt.bus
  reopening,   \* a reopen: the identity wanted, attempts made; "off" otherwise
  tried,       \* history: the scanner of the last attempt, and those it had to choose from
  home,        \* history: the bus of the scanner that was opened
  out,         \* a bulk_out: done bytes of SIZE, and what the scanner has got of it
  fifo, got,   \* bytes in the scanner's FIFO; bytes given to the caller
  streamed,    \* bytes streamed so far
  lost         \* a read has returned an error

devices == <<ids, ease>>
stream == <<fifo, got, streamed, lost>>
usbVars == <<devices, handle, bus, reopening, tried, home, out, stream>>

Off == [is |-> "off", made |-> 0]
NotTried == [dev |-> 0, among |-> {}]
NoWrite == [is |-> "none", done |-> 0, has |-> <<>>]
Idle == reopening.is # "on" /\ out.is # "sending"

-----------------------------------------------------------------------------
(* pk_usb_open names one scanner by identity, bus and address.             *)
Open(d) ==
  /\ handle = 0 /\ home = 0 /\ Idle /\ ids[d] # "gone" /\ ease[d] = "all"
  /\ handle' = d /\ bus' = d /\ home' = d
  /\ UNCHANGED <<devices, reopening, tried, out, stream>>

(* The firmware just loaded shows another identity; the scanner goes away  *)
(* first and settles when it likes, the others as well.                    *)
Reenumerates ==
  /\ handle # 0 /\ handle = home /\ ids[handle] = "boot" /\ Idle
  /\ ids' = [ids EXCEPT ![handle] = "gone"] /\ ease' = [ease EXCEPT ![handle] = "nothing"]
  /\ UNCHANGED <<handle, bus, reopening, tried, home, out, stream>>

Appears(d) ==
  /\ ids[d] = "gone" /\ ids' = [ids EXCEPT ![d] = "loaded"]
  /\ UNCHANGED <<ease, handle, bus, reopening, tried, home, out, stream>>

(* Another program may hold the interface of a scanner that is not ours.   *)
Settles(d) ==
  /\ ids[d] = "loaded" /\ ease[d] # "all" /\ d # handle
  /\ ease' = [ease EXCEPT ![d] = IF @ = "nothing" THEN "open" ELSE "all"]
  /\ UNCHANGED <<ids, handle, bus, reopening, tried, home, out, stream>>

(* ub_reopen: release, then one attempt after the other.  No transfer runs *)
(* (transport.h:20), and what was in flight is gone with the old handle.   *)
Reopen ==
  /\ handle # 0 /\ ids[handle] # "boot" /\ Idle
  /\ handle' = 0 /\ reopening' = [is |-> "on", made |-> 0] /\ tried' = NotTried
  /\ fifo' = <<>> /\ got' = <<>> /\ streamed' = 0 /\ lost' = FALSE
  /\ UNCHANGED <<devices, bus, home, out>>

Matching == {d \in SCANNERS : ids[d] = "loaded"}
Pick == IF bus \in Matching THEN bus ELSE Min(Matching)

(* After the last attempt that fits in the time, any error is the answer.  *)
GivesUp == reopening.made + 1 >= WAIT
Misses ==
  reopening' = [is |-> IF GivesUp THEN "failed" ELSE "on", made |-> reopening.made + 1]

AttemptFindsNone ==
  /\ reopening.is = "on" /\ Matching = {}
  /\ Misses /\ tried' = NotTried
  /\ UNCHANGED <<devices, handle, bus, home, out, stream>>

(* usbt.bus follows a scanner that opens, also when its setup then fails.  *)
TryOpen ==
  /\ reopening.is = "on" /\ Matching # {}
  /\ tried' = [dev |-> Pick, among |-> Matching]
  /\ bus' = IF ease[Pick] = "nothing" THEN bus ELSE Pick
  /\ IF ease[Pick] = "all" THEN handle' = Pick /\ reopening' = Off
     ELSE Misses /\ UNCHANGED handle
  /\ UNCHANGED <<devices, home, out, stream>>

-----------------------------------------------------------------------------
(* ub_bulk_out: what is left is sent until all of it is.                   *)
Unsent_FromTheStart(done) == 1
Unsent(done) == done + 1

BulkOut ==
  /\ handle # 0 /\ ids[handle] # "gone" /\ Idle /\ out.is # "sent"
  /\ out' = [is |-> "sending", done |-> 0, has |-> <<>>]
  /\ UNCHANGED <<devices, handle, bus, reopening, tried, home, stream>>

Moves ==
  /\ out.is = "sending"
  /\ \E x \in 1..(SIZE - out.done) :
       LET all == out.done + x
       IN  out' = [is |-> IF all = SIZE THEN "sent" ELSE "sending", done |-> all,
                   has |-> out.has \o [i \in 1..x |-> Unsent(out.done) + i - 1]]
  /\ UNCHANGED <<devices, handle, bus, reopening, tried, home, stream>>

(* An error, a timeout with a part sent, or no progress: the caller is     *)
(* told, the scanner keeps the part.                                       *)
WriteFails ==
  /\ out.is = "sending" /\ out' = NoWrite
  /\ UNCHANGED <<devices, handle, bus, reopening, tried, home, stream>>

(* ub_bulk_in and ub_stream                                                *)
Streams ==
  /\ handle # 0 /\ ids[handle] # "gone" /\ streamed < BYTES
  /\ streamed' = streamed + 1 /\ fifo' = Append(fifo, streamed')
  /\ UNCHANGED <<devices, handle, bus, reopening, tried, home, out, got, lost>>

Delivered(rc, x) == rc = "ok" \/ (rc = "timeout" /\ x > 0)

ReadReturns ==
  /\ handle # 0 /\ reopening.is # "on"
  /\ \E rc \in {"ok", "timeout", "overflow", "error"}, x \in 0..Len(fifo) :
       /\ fifo' = SubSeq(fifo, x + 1, Len(fifo))
       /\ IF Delivered(rc, x)
          THEN got' = got \o SubSeq(fifo, 1, x) /\ UNCHANGED lost
          ELSE lost' = (lost \/ rc # "timeout") /\ UNCHANGED got       \* PK_E_TIMEOUT: the caller polls again
  /\ UNCHANGED <<devices, handle, bus, reopening, tried, home, out, streamed>>

UsbInit ==
  /\ ids \in [SCANNERS -> {"boot", "loaded"}]
  /\ ease \in [SCANNERS -> {"open", "all"}]
  /\ handle = 0 /\ bus = 0 /\ reopening = Off /\ tried = NotTried /\ home = 0 /\ out = NoWrite
  /\ fifo = <<>> /\ got = <<>> /\ streamed = 0 /\ lost = FALSE

UsbNext ==
  \/ \E d \in SCANNERS : Open(d) \/ Appears(d) \/ Settles(d)
  \/ Reenumerates \/ Reopen \/ AttemptFindsNone \/ TryOpen
  \/ BulkOut \/ Moves \/ WriteFails \/ Streams \/ ReadReturns

UsbSpec == UsbInit /\ [][UsbNext]_usbVars
-----------------------------------------------------------------------------
(* A read that times out after receiving bytes returns them, and           *)
(* PK_E_TIMEOUT means nothing was received (transport.h:24-25): until a    *)
(* read returns another error, the caller has every byte in order.         *)
NothingDropped == ~lost => got \o fifo = [i \in 1..streamed |-> i]

(* PK_OK of a bulk_out means that the scanner has every byte once, in      *)
(* order, also when libusb took it in parts.                               *)
WholeWrite == out.is = "sent" => out.has = [i \in 1..SIZE |-> i]

(* A scanner that is still settling is retried until wait_ms is over       *)
(* (usb.c:172): no reopen gives up before.                                 *)
ReopenWaits == reopening.is = "failed" => reopening.made = WAIT

(* What a caller may rely on of a read, a write and a reopen.              *)
TransfersAreWhole == NothingDropped /\ WholeWrite /\ ReopenWaits

(* "prefer the old bus when several match" (usb.c:154)                     *)
OldBusFirst == tried.dev # 0 /\ home \in tried.among => tried.dev = home
=============================================================================
