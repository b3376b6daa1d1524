--------------------------- MODULE NativeCapture ---------------------------
(***************************************************************************)
(* The capture of what passes the native proxy: each tunnel direction has  *)
(* a sniffer in its session's task that reassembles WebSocket frames; the  *)
(* frames go into one small ring in RAM that the web application, in       *)
(* loop(), starts, stops, clears and lists.                                *)
(*                                                                         *)
(* Only the ring is protected by a lock; captureEnabled_ is read without   *)
(* one.  A tunnel's bytes are units, each the i-th part of a frame; a      *)
(* frame of n parts can be recognised only from its first.                 *)
(***************************************************************************)
EXTENDS Integers, Sequences, FiniteSets

CONSTANTS Sniffers,       \* the directions of the tunnels
          RingSize,       \* entries in the ring, 16
          BufferSize,     \* MAX_WS_BUFFER, in parts
          FrameSizes,     \* the sizes of frames that pass, in parts
          Frames          \* bound: frames per sniffer

ASSUME CaptureAssumption ==
  /\ IsFiniteSet(Sniffers)
  /\ RingSize \in Nat \ {0} /\ BufferSize \in Nat \ {0} /\ Frames \in Nat
  /\ FrameSizes \subseteq Nat \ {0}

VARIABLES captureEnabled,
          capture, captureHead, captureCount, captureSeq,
          passed,         \* what has passed the tunnel: frame, part and size
          buffer,         \* the sniffer's bytes
          feeding,        \* the sniffer is inside feed()
          entry,          \* what its task is about to record
          web             \* what the web application is doing

ring == <<capture, captureHead, captureCount, captureSeq>>
captureVars == <<captureEnabled, ring, passed, buffer, feeding, entry, web>>

(* The HTTP request that opens a tunnel comes before its frames.  Garbage  *)
(* are bytes taken for a frame that do not begin where one does.           *)
Request == 0
Garbage == -1

NoEntry == [stage |-> "none", frame |-> Garbage]
Found(f) == [stage |-> "found", frame |-> f]

Blank == [seq |-> 0, from |-> "blank", frame |-> Garbage]
Slots == 0..(RingSize - 1)

Idle == [doing |-> "nothing"]

CaptureInit ==
  /\ captureEnabled = FALSE
  /\ capture = [i \in Slots |-> Blank] /\ captureHead = 0 /\ captureCount = 0 /\ captureSeq = 0
  /\ passed = [s \in Sniffers |-> [frame |-> 0, part |-> 0, size |-> 0]]
  /\ buffer = [s \in Sniffers |-> <<>>]
  /\ feeding = [s \in Sniffers |-> FALSE]
  /\ entry = [s \in Sniffers |-> NoEntry]
  /\ web = Idle

-----------------------------------------------------------------------------
(* A session's task                                                        *)

CaptureHttpRequest(s) ==
  /\ passed[s].size = 0
  /\ captureEnabled
  /\ passed' = [passed EXCEPT ![s] = [frame |-> Request, part |-> 1, size |-> 1]]
  /\ entry' = [entry EXCEPT ![s] = Found(Request)]
  /\ UNCHANGED <<captureEnabled, ring, buffer, feeding, web>>

(* The part that passes next: the rest of a frame or a new one. *)
NextParts(last) ==
  IF last.part < last.size
  THEN {[last EXCEPT !.part = @ + 1]}
  ELSE {[frame |-> last.frame + 1, part |-> 1, size |-> n] : n \in FrameSizes}

(* Bytes arrive.  They are forwarded, and fed if a capture is on. *)
Feed(s) ==
  /\ ~feeding[s] /\ entry[s] = NoEntry
  /\ \E part \in NextParts(passed[s]) :
       /\ part.frame <= Frames
       /\ passed' = [passed EXCEPT ![s] = part]
       /\ IF ~captureEnabled THEN UNCHANGED <<buffer, feeding>>
          ELSE IF Len(buffer[s]) = BufferSize
          THEN buffer' = [buffer EXCEPT ![s] = <<>>] /\ UNCHANGED feeding
          ELSE /\ buffer' = [buffer EXCEPT ![s] = Append(@, part)]
               /\ feeding' = [feeding EXCEPT ![s] = TRUE]
  /\ UNCHANGED <<captureEnabled, ring, entry, web>>

(* How long the frame at the front of the buffer claims to be; a front     *)
(* that is the middle of a frame may claim anything.                       *)
ClaimedSizes(front) ==
  IF front.part = 1 THEN {front.size} ELSE 1..(BufferSize + 1)

(* Slip: the bytes of a recorded frame stay in the buffer. *)
ParseKeepsFrame(s) ==
  /\ feeding[s] /\ entry[s] = NoEntry
  /\ IF buffer[s] = <<>> THEN feeding' = [feeding EXCEPT ![s] = FALSE] /\ UNCHANGED <<buffer, entry>>
     ELSE /\ entry' = [entry EXCEPT ![s] = Found(Head(buffer[s]).frame)]
          /\ feeding' = [feeding EXCEPT ![s] = FALSE]
          /\ UNCHANGED buffer
  /\ UNCHANGED <<captureEnabled, ring, passed, web>>

(* One round of the loop in feed(): wait for more, drop what cannot be a   *)
(* frame, or take one out; a frame of no interest is not recorded.         *)
Parse(s) ==
  /\ feeding[s] /\ entry[s] = NoEntry
  /\ IF buffer[s] = <<>>
     THEN feeding' = [feeding EXCEPT ![s] = FALSE] /\ UNCHANGED <<buffer, entry>>
     ELSE \E n \in ClaimedSizes(Head(buffer[s])) :
            IF n > BufferSize
            THEN /\ buffer' = [buffer EXCEPT ![s] = <<>>]
                 /\ feeding' = [feeding EXCEPT ![s] = FALSE]
                 /\ UNCHANGED entry
            ELSE IF n > Len(buffer[s])
            THEN feeding' = [feeding EXCEPT ![s] = FALSE] /\ UNCHANGED <<buffer, entry>>
            ELSE /\ buffer' = [buffer EXCEPT ![s] = SubSeq(@, n + 1, Len(@))]
                 /\ entry' \in {entry, [entry EXCEPT ![s] = Found(
                      IF Head(buffer[s]).part = 1 THEN Head(buffer[s]).frame ELSE Garbage)]}
                 /\ UNCHANGED feeding
  /\ UNCHANGED <<captureEnabled, ring, passed, web>>

(* captureEvent looks at the flag once more before it takes the lock. *)
CaptureChecks(s) ==
  /\ entry[s].stage = "found"
  /\ entry' = [entry EXCEPT ![s] = IF captureEnabled THEN [@ EXCEPT !.stage = "checked"] ELSE NoEntry]
  /\ UNCHANGED <<captureEnabled, ring, passed, buffer, feeding, web>>

CaptureEvent(s) ==
  /\ entry[s].stage = "checked"
  /\ entry' = [entry EXCEPT ![s] = NoEntry]
  /\ captureSeq' = captureSeq + 1
  /\ capture' = [capture EXCEPT ![captureHead] = [seq |-> captureSeq', from |-> s, frame |-> entry[s].frame]]
  /\ captureHead' = (captureHead + 1) % RingSize
  /\ captureCount' = IF captureCount < RingSize THEN captureCount + 1 ELSE captureCount
  /\ UNCHANGED <<captureEnabled, passed, buffer, feeding, web>>

SnifferStep(s) ==
  CaptureHttpRequest(s) \/ Feed(s) \/ Parse(s) \/ CaptureChecks(s) \/ CaptureEvent(s)

-----------------------------------------------------------------------------
(* The web application, one request at a time                              *)

(* Slip: the head stays where it was. *)
ClearCaptureKeepsHead ==
  /\ captureCount' = 0 /\ captureSeq' = 0
  /\ capture' = [i \in Slots |-> Blank]
  /\ UNCHANGED captureHead

ClearCapture ==
  /\ captureHead' = 0 /\ captureCount' = 0 /\ captureSeq' = 0
  /\ capture' = [i \in Slots |-> Blank]

Clear ==
  /\ web = Idle
  /\ ClearCapture
  /\ UNCHANGED <<captureEnabled, passed, buffer, feeding, entry, web>>

StartCapture ==
  /\ web = Idle
  /\ ClearCapture
  /\ web' = [doing |-> "starting"]
  /\ UNCHANGED <<captureEnabled, passed, buffer, feeding, entry>>

Enable ==
  /\ web.doing = "starting"
  /\ captureEnabled' = TRUE
  /\ web' = Idle
  /\ UNCHANGED <<ring, passed, buffer, feeding, entry>>

StopCapture ==
  /\ web = Idle
  /\ captureEnabled
  /\ captureEnabled' = FALSE
  /\ UNCHANGED <<ring, passed, buffer, feeding, entry, web>>

(* captureJson takes the lock for the head and count, then for each entry. *)
CaptureJson ==
  /\ web = Idle
  /\ web' = [doing |-> "listing", seq |-> captureSeq, count |-> captureCount,
             start |-> (captureHead + RingSize - captureCount) % RingSize, listed |-> <<>>]
  /\ UNCHANGED <<captureEnabled, ring, passed, buffer, feeding, entry>>

(* Slip: the list follows the head. *)
ListEntryFromHead ==
  /\ web.doing = "listing"
  /\ Len(web.listed) < web.count
  /\ web' = [web EXCEPT !.listed = Append(@, capture[
               (captureHead + RingSize - captureCount + Len(web.listed)) % RingSize])]
  /\ UNCHANGED <<captureEnabled, ring, passed, buffer, feeding, entry>>

ListEntry ==
  /\ web.doing = "listing"
  /\ Len(web.listed) < web.count
  /\ web' = [web EXCEPT !.listed = Append(@, capture[(web.start + Len(web.listed)) % RingSize])]
  /\ UNCHANGED <<captureEnabled, ring, passed, buffer, feeding, entry>>

SendCapture ==
  /\ web.doing = "listing"
  /\ Len(web.listed) = web.count
  /\ web' = Idle
  /\ UNCHANGED <<captureEnabled, ring, passed, buffer, feeding, entry>>

WebStep == Clear \/ StartCapture \/ Enable \/ StopCapture \/ CaptureJson \/ ListEntry \/ SendCapture

CaptureNext == WebStep \/ \E s \in Sniffers : SnifferStep(s)

CaptureSpec == CaptureInit /\ [][CaptureNext]_captureVars

-----------------------------------------------------------------------------
(* Properties                                                              *)

(* The ring holds the latest entries since it was cleared, each in the     *)
(* place its number gives it, however the tasks and the clearing of the    *)
(* web application interleave.                                             *)
RingHoldsLatest ==
  /\ captureCount = (IF captureSeq < RingSize THEN captureSeq ELSE RingSize)
  /\ captureHead = captureSeq % RingSize
  /\ \A k \in 1..captureCount : capture[(captureSeq - k) % RingSize].seq = captureSeq + 1 - k

(* A listing never has a blank entry or one twice: the i-th is the one     *)
(* that was there when the listing began, or a newer one that took its     *)
(* place while the list was made.                                          *)
ListingKeepsPlaces ==
  web.doing = "listing" =>
    \A i \in 1..Len(web.listed) :
      LET was == web.seq - web.count + i
      IN  web.listed[i].seq >= was /\ web.listed[i].seq % RingSize = was % RingSize

(* Of one direction the ring holds each frame once and in the order the    *)
(* frames passed.                                                          *)
FramesInOrder ==
  \A i, j \in Slots :
    /\ capture[i].seq > 0 /\ capture[j].seq > capture[i].seq
    /\ capture[i].from = capture[j].from
    /\ capture[i].frame # Garbage /\ capture[j].frame # Garbage
    => capture[i].frame < capture[j].frame
=============================================================================
