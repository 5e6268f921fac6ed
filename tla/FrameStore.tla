------------------------------ MODULE FrameStore ------------------------------
(***************************************************************************)
(* The picture of the machine on its way to a window.  On the emulator     *)
(* thread the STIC draws into gfx_desktop.c's buffer and switches the      *)
(* display on and off; once a frame gfx_refresh hands the buffer to        *)
(* intv_frame.c, which keeps it only if it differs from the last one and   *)
(* then calls whoever registered.  Windows copy it on their own threads.   *)
(*                                                                         *)
(* A picture is a model value with its brightness; the palette and the     *)
(* expansion to RGB are part of it.  The publish hook is Android's, and    *)
(* movies, screen shots and the counters shown nowhere are left out.       *)
(***************************************************************************)
EXTENDS Naturals

CONSTANTS Pictures,     \* what the STIC can draw
          MaxSerial     \* bound: pictures that are kept

ASSUME FrameAssumption == MaxSerial \in Nat

Nobody == "nobody"
On == 1
Off == 0
Shots == Pictures \X {On, Off}
NoShot == <<"nothing", Off>>

VARIABLES vid,      \* the buffer the STIC draws into
          asked,    \* whether the STIC last asked for the display, no state of the code
          enabled,  \* vid_enable: bit 0, what is shown; bit 1, that it is to change
          dirty,    \* gfx->dirty
          valid,    \* s_valid: the store may compare with what it has
          pixels,   \* s_pixels, and what it was made from
          fserial,  \* s_serial
          callback, \* s_frame_cb_ctx: the feed that is called, or Nobody
          pub       \* intv_frame_publish: "idle", "fresh" between the two
                    \*   locks, "calling" while the callback runs under s_cb_lock

gfxVars == <<vid, asked, enabled, dirty>>
storeVars == <<valid, pixels, fserial>>
frameVars == <<gfxVars, storeVars, callback, pub>>

FrameInit == /\ vid \in Pictures /\ asked = Off /\ enabled = 0 /\ dirty = TRUE
             /\ valid = FALSE /\ pixels = NoShot /\ fserial = 0
             /\ callback = Nobody
             /\ pub = "idle"

-----------------------------------------------------------------------------
\* gfx_desktop.c

Draw == /\ pub = "idle"
        /\ vid' \in Pictures \ {vid}
        /\ dirty' = TRUE
        /\ UNCHANGED <<asked, enabled, storeVars, callback, pub>>

\* Mutant: asking for what is shown does not call a waiting change off.
VidEnableUncancelled(e) ==
    /\ pub = "idle"
    /\ asked' = e
    /\ IF enabled % 2 # e
       THEN enabled' = (enabled % 2) + 2 /\ dirty' = TRUE
       ELSE UNCHANGED <<enabled, dirty>>
    /\ UNCHANGED <<vid, storeVars, callback, pub>>

\* gfx_vid_enable: the change itself waits for the next redraw.
VidEnable(e) ==
    /\ pub = "idle"
    /\ asked' = e
    /\ IF enabled % 2 # e
       THEN enabled' = (enabled % 2) + 2 /\ dirty' = TRUE
       ELSE enabled' = e /\ UNCHANGED dirty
    /\ UNCHANGED <<vid, storeVars, callback, pub>>

\* What gfx_refresh makes of vid_enable before it reads bit 0.
Committed == IF enabled >= 2 THEN 1 - (enabled % 2) ELSE enabled

\* intv_frame_publish, its part under s_lock: the serial stays if the
\* picture is the one kept already.
Keep(shot) ==
    /\ IF valid /\ pixels = shot
       THEN pub' = "idle" /\ UNCHANGED storeVars
       ELSE /\ fserial < MaxSerial
            /\ valid' = TRUE /\ pixels' = shot /\ fserial' = fserial + 1
            /\ pub' = "fresh"
    /\ UNCHANGED callback

\* gfx_refresh, which takes every 32nd frame for dirty.  A tick that drops
\* the frame, or finds nothing dirty, does nothing.
Refresh == /\ pub = "idle"
           /\ enabled' = Committed
           /\ Keep(<<vid, Committed>>)
           /\ dirty' = FALSE
           /\ UNCHANGED <<vid, asked>>

-----------------------------------------------------------------------------
\* intv_frame.c

\* The rest of intv_frame_publish: the callback runs under s_cb_lock.
CallBegin == /\ pub = "fresh"
             /\ pub' = IF callback = Nobody THEN "idle" ELSE "calling"
             /\ UNCHANGED <<gfxVars, storeVars, callback>>

\* intv_frame_set_frame_callback waits for a call in flight.
SetCallback(c) == /\ pub # "calling"
                  /\ callback' = c

\* A machine stops and the next one starts: gfx_init, intv_frame_reset.  The
\* serial and the callback outlive it.
NewMachine == /\ pub = "idle"
              /\ vid' \in Pictures /\ asked' = Off /\ enabled' = 0 /\ dirty' = TRUE
              /\ valid' = FALSE
              /\ UNCHANGED <<pixels, fserial, callback, pub>>

\* intv_frame_copy: nothing for a reader whose serial is the store's.
Newer(serial) == serial # fserial

-----------------------------------------------------------------------------

FrameTypeOK == /\ vid \in Pictures /\ asked \in {On, Off} /\ enabled \in 0 .. 3
               /\ dirty \in BOOLEAN /\ valid \in BOOLEAN
               /\ pixels \in Shots \cup {NoShot}
               /\ fserial \in 0 .. MaxSerial
               /\ pub \in {"idle", "fresh", "calling"}

\* When nothing waits to be redrawn, what can be copied is what the STIC
\* drew, at the brightness it last asked for: the change of brightness that
\* waits for a redraw is neither lost nor made twice, and a picture taken for
\* a repetition is one (gfx_vid_enable, gfx_refresh, intv_frame_publish).
KeptIsDrawn == ~dirty => pixels = <<vid, asked>>

=============================================================================
