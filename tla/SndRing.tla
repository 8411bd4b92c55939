------------------------------ MODULE SndRing -------------------------------
(***************************************************************************)
(* The sound ring of src/snd.c: sndPush, called by the emulator on core 0  *)
(* at the end of each frame, writes a frame of samples behind wp; sndTask, *)
(* on core 1, plays from rp in chunks and looks at nothing else.  The      *)
(* indices are shared without a lock; each access of one is a step.        *)
(*                                                                         *)
(* In an underrun rp runs past wp: what is stored before wp catches up, or *)
(* before rp has come round, is behind rp and lost.  A slot stored ahead   *)
(* of rp is fresh until rp leaves it.                                      *)
(*                                                                         *)
(* The amplifier is switched on behind a frame with a volume, and off some *)
(* muted frames later.  How a sample is scaled is left out.                *)
(***************************************************************************)
EXTENDS Integers

CONSTANTS
  BufLen,    (* BUFLEN, 2048                                               *)
  Slack,     (* sndDone wants more than this free, 400                     *)
  Push,      (* samples of a frame, 370                                    *)
  Chunk,     (* SND_CHUNKSZ, 128                                           *)
  Lead,      (* wp at the start, 256                                       *)
  AmpFrames  (* muted frames until the amplifier goes off, 10              *)

ASSUME RingAssumption ==
  /\ BufLen \in Nat \ {0} /\ Slack \in Nat /\ Push \in Nat \ {0} /\ Chunk \in Nat \ {0}
  /\ Push < Slack /\ Slack < BufLen
  /\ Lead \in 0 .. BufLen - 1 /\ AmpFrames \in Nat \ {0}

VARIABLES
  wp, rp,      (* BufLen between the increment and the wrap                *)
  fresh,       (* slots stored ahead of rp that it has not left            *)
  behind,      (* rp has run past wp                                       *)
  emu,         (* core 0: what sndPush does next                           *)
  left,        (* core 0: samples of the frame still to be pushed          *)
  task,        (* core 1: what sndTask does next                           *)
  chunk,       (* core 1: samples of the chunk still to be taken           *)
  volume,      (* the frame being pushed has a volume                      *)
  ampDis,      (* the level of IO_AMP_DIS: the amplifier is off            *)
  ampPowerTimeout,
  loud         (* fresh slots of frames with a volume                      *)
ring == <<wp, rp, fresh, behind, loud>>
core0 == <<emu, left, volume, ampDis, ampPowerTimeout>>
core1 == <<task, chunk>>
vars == <<ring, core0, core1>>

\* The mask of bufLen works because BUFLEN is a power of two.
FillOf(w, r) == (w - r) % BufLen

\* Bug variants: room for a frame is taken to be enough; an empty ring is
\* waited for.
SndDoneTight(w, r) == FillOf(w, r) <= BufLen - Push
SndDoneEmpty(w, r) == FillOf(w, r) = 0

SndDone(w, r) == FillOf(w, r) < BufLen - Slack

-----------------------------------------------------------------------------
(* Core 0: sndPush.                                                        *)

\* The emulator may come here early or late; until then it runs the Mac.
StartPush ==
  /\ emu = "frame"
  /\ emu' = "wait" /\ volume' \in BOOLEAN
  /\ UNCHANGED <<ring, core1, left, ampDis, ampPowerTimeout>>

\* One look of `while (!sndDone()) usleep(1000)'; bufLen reads rp once, while
\* it may be BufLen.
Wait ==
  /\ emu = "wait"
  /\ IF SndDone(wp, rp)
     THEN emu' = "store" /\ left' = Push /\ behind' = FALSE
     ELSE UNCHANGED <<emu, left, behind>>
  /\ UNCHANGED <<wp, rp, fresh, loud, core1, volume, ampDis, ampPowerTimeout>>

Store ==
  /\ emu = "store"
  /\ fresh' = IF behind THEN fresh ELSE fresh \cup {wp}
  /\ loud' = IF volume /\ ~behind THEN loud \cup {wp} ELSE loud \ {wp}
  /\ emu' = "bump"
  /\ UNCHANGED <<wp, rp, behind, core1, left, volume, ampDis, ampPowerTimeout>>

Bump ==
  /\ emu = "bump"
  /\ wp' = wp + 1
  /\ behind' = (behind /\ FillOf(wp + 1, rp) # 0)
  /\ emu' = "wrap"
  /\ UNCHANGED <<rp, fresh, loud, core1, left, volume, ampDis, ampPowerTimeout>>

WrapWp ==
  /\ emu = "wrap"
  /\ wp' = IF wp >= BufLen THEN 0 ELSE wp
  /\ left' = left - 1
  /\ emu' = IF left = 1 THEN "amp" ELSE "store"
  /\ UNCHANGED <<rp, fresh, loud, behind, core1, volume, ampDis, ampPowerTimeout>>

\* Bug variant: a frame with a volume does not start the time-out again.
SwitchAmpOnce ==
  /\ emu = "amp" /\ emu' = "frame"
  /\ ampPowerTimeout' = IF volume /\ ampPowerTimeout <= 0 THEN AmpFrames
                        ELSE IF volume \/ ampPowerTimeout < 0 THEN ampPowerTimeout
                        ELSE ampPowerTimeout - 1
  /\ ampDis' = (~volume /\ (ampDis \/ ampPowerTimeout = 1))
  /\ UNCHANGED <<ring, core1, left, volume>>

\* The time-out counts on below 0, where all values act alike for 2^31 frames.
SwitchAmp ==
  /\ emu = "amp" /\ emu' = "frame"
  /\ ampPowerTimeout' = IF volume THEN AmpFrames
                        ELSE IF ampPowerTimeout < 0 THEN ampPowerTimeout
                        ELSE ampPowerTimeout - 1
  /\ ampDis' = (~volume /\ (ampDis \/ ampPowerTimeout = 1))
  /\ UNCHANGED <<ring, core1, left, volume>>

-----------------------------------------------------------------------------
(* Core 1: sndTask.  Between chunks i2s_write waits for the DMA.           *)

NextChunk ==
  /\ task = "i2s"
  /\ task' = "take" /\ chunk' = Chunk
  /\ UNCHANGED <<ring, core0>>

Take == task = "take" /\ task' = "bump" /\ UNCHANGED <<ring, core0, chunk>>

BumpRp ==
  /\ task = "bump"
  /\ rp' = rp + 1
  /\ fresh' = fresh \ {rp} /\ loud' = loud \ {rp}
  /\ behind' = (behind \/ FillOf(wp, rp) = 0)
  /\ task' = "wrap"
  /\ UNCHANGED <<wp, core0, chunk>>

\* Bug variants: rp runs on behind the ring, or wraps to the second slot.
WrapLate ==
  /\ task = "wrap"
  /\ rp' = IF rp > BufLen THEN 0 ELSE rp
  /\ chunk' = chunk - 1
  /\ task' = IF chunk = 1 THEN "i2s" ELSE "take"
  /\ UNCHANGED <<wp, fresh, behind, loud, core0>>
WrapToOne ==
  /\ task = "wrap"
  /\ rp' = IF rp >= BufLen THEN 1 ELSE rp
  /\ chunk' = chunk - 1
  /\ task' = IF chunk = 1 THEN "i2s" ELSE "take"
  /\ UNCHANGED <<wp, fresh, behind, loud, core0>>

WrapRp ==
  /\ task = "wrap"
  /\ rp' = IF rp >= BufLen THEN 0 ELSE rp
  /\ chunk' = chunk - 1
  /\ task' = IF chunk = 1 THEN "i2s" ELSE "take"
  /\ UNCHANGED <<wp, fresh, behind, loud, core0>>

-----------------------------------------------------------------------------
\* The ring starts with Lead slots that nobody wrote: silence.  The pin starts low.
Init ==
  /\ wp = Lead /\ rp = 0 /\ fresh = {} /\ behind = FALSE
  /\ emu = "frame" /\ left = 0 /\ task = "i2s" /\ chunk = 0
  /\ volume = FALSE /\ ampDis = FALSE /\ ampPowerTimeout = 0 /\ loud = {}

Core0 == StartPush \/ Wait \/ Store \/ Bump \/ WrapWp \/ SwitchAmp
Core1 == NextChunk \/ Take \/ BumpRp \/ WrapRp
Next == Core0 \/ Core1

Spec == Init /\ [][Next]_vars

\* The emulator comes round with frames and the DMA drains the chunks.  A poll
\* every millisecond falls into the pauses of i2s_write, 5.8 ms each, in which
\* sndDone would let it go.
PollInPause == task = "i2s" /\ Wait /\ emu' = "store"
FairSpec == Spec /\ WF_vars(Core0) /\ WF_vars(Core1) /\ SF_vars(PollInPause)

-----------------------------------------------------------------------------
(* Properties.                                                             *)

TypeOK ==
  /\ wp \in 0 .. BufLen /\ rp \in 0 .. BufLen
  /\ (wp = BufLen => emu = "wrap") /\ (rp = BufLen => task = "wrap")
  /\ fresh \subseteq 0 .. BufLen - 1 /\ behind \in BOOLEAN
  /\ emu \in {"frame", "wait", "store", "bump", "wrap", "amp"} /\ left \in 0 .. Push
  /\ task \in {"i2s", "take", "bump", "wrap"} /\ chunk \in 0 .. Chunk
  /\ volume \in BOOLEAN /\ ampDis \in BOOLEAN /\ ampPowerTimeout \in -1 .. AmpFrames
  /\ loud \subseteq fresh

\* No sample stored ahead of rp is overwritten before rp has come to it and
\* left it, however the two cores interleave and however late the emulator is:
\* sndPush writes only slots that are not fresh, though it looks at rp once
\* for a whole frame and though in an underrun bufLen takes an empty ring for
\* a full one.
NoOverwrite == [][emu = "store" /\ emu' = "bump" => wp \notin fresh]_vars

\* The amplifier is never off while samples of a frame with a volume wait in the ring,
\* but for those of the frame being pushed, behind which it is switched on: the muted
\* frames it is kept on for push every older one out.
AmpOutlastsSound == ampDis => loud = {} \/ (volume /\ emu # "frame")

\* rp comes to every sample stored ahead of it, within a lap of the ring: its
\* wrap leaves no slot out.
EverySamplePlayed == \A s \in 0 .. BufLen - 1 : []<>(s \notin fresh)

\* After an underrun (rp has run past wp, so that the ring looks nearly full)
\* the emulator waits for rp to come round once, and never for ever.
PushDone == []<>(emu = "frame")
=============================================================================
