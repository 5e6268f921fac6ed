------------------------------ MODULE AudioPath ------------------------------
(***************************************************************************)
(* The sound of the machine on its way to the speaker.  On the emulator    *)
(* thread the sound chips fill buffers, snd_desktop.c's tick mixes the     *)
(* buffers all of them have filled and publishes each mixed one into       *)
(* intv_audio.c's ring; on the audio device's thread the callback of       *)
(* audio_sdl.c copies out of the ring.  The ring is guarded by a lock, the *)
(* buffers belong to the emulator thread.                                  *)
(*                                                                         *)
(* A sample records which buffer of each chip it mixes and its number in   *)
(* the order of publication, which are not in the code: it stands for the  *)
(* loudness the code stores.  Attenuation, WAV and AVI recording and the   *)
(* drop counters nobody reads are left out.                                *)
(***************************************************************************)
EXTENDS Integers, Sequences, FiniteSets, FiniteSetsExt

CONSTANTS Chips,        \* the sound chips there can be
          BufCnt,       \* SND_BUF_CNT: buffers of a chip, and of the mixer
          BufSize,      \* SND_BUF_SIZE: samples in a buffer
          Capacity,     \* RING_CAPACITY
          Target,       \* RING_TARGET_SAMPLES
          HighWater,    \* RING_HIGHWATER_SAMPLES
          Request,      \* most samples the device asks for at once
          MaxMade       \* bound: buffers a chip fills

Mixer == "mixer"

ASSUME AudioAssumption ==
    /\ Mixer \notin Chips
    /\ {BufCnt, BufSize, Capacity, Target, HighWater, Request} \subseteq Nat \ {0}
    /\ Target <= HighWater /\ HighWater <= Capacity
    /\ BufSize <= Capacity

Buffers == (Chips \cup {Mixer}) \X (1 .. BufCnt)
NoSample == [at |-> 0]

VARIABLES srcs,     \* the chips of this machine
          clean,    \* per chip, and for the mixer: its free buffers
          dirtied,    \* per chip: its filled buffers, oldest first
          content,  \* per buffer: the how-manyeth of its chip it holds
          made,     \* per chip: the buffers it filled so far
          at,       \* the emulator thread: 0, or the buffer snd_tick mixes next
          ring, head, count, primed,    \* intv_audio.c
          published,                    \* samples published so far
          heard                         \* the numbers of the device's last answer

mixVars == <<srcs, clean, dirtied, content, made, at>>
ringVars == <<ring, head, count, primed>>
audioVars == <<mixVars, ringVars, published, heard>>

-----------------------------------------------------------------------------
\* The mixer.

Owned(o) == {o} \X (1 .. BufCnt)

AudioInit == /\ srcs \in (SUBSET Chips) \ {{}}
             /\ clean = [o \in Chips \cup {Mixer} |-> Owned(o)]
             /\ dirtied = [s \in Chips |-> <<>>]
             /\ content = [b \in Buffers |-> 0]
             /\ made = [s \in Chips |-> 0]
             /\ at = 0
             /\ ring = [i \in 0 .. Capacity - 1 |-> NoSample]
             /\ head = 0 /\ count = 0 /\ primed = FALSE
             /\ published = 0
             /\ heard = {}

\* A chip fills one of its free buffers.
Fill(s) == /\ at = 0 /\ s \in srcs /\ made[s] < MaxMade
           /\ \E b \in clean[s] :
                /\ clean' = [clean EXCEPT ![s] = @ \ {b}]
                /\ dirtied' = [dirtied EXCEPT ![s] = Append(@, b)]
                /\ content' = [content EXCEPT ![b] = made[s] + 1]
           /\ made' = [made EXCEPT ![s] = @ + 1]
           /\ UNCHANGED <<srcs, at, ringVars, published, heard>>

\* min_num_dirty
Ready == Min({Len(dirtied[s]) : s \in srcs})

TickBegin == /\ at = 0 /\ clean[Mixer] # {} /\ Ready > 0
             /\ at' = 1
             /\ UNCHANGED <<srcs, clean, dirtied, content, made, ringVars, published, heard>>

\* intv_audio_publish: the oldest samples are overwritten.
Publish(of) ==
    /\ ring' = [i \in 0 .. Capacity - 1 |->
                  LET k == (i - head) % Capacity IN
                  IF k < BufSize THEN [at |-> published + k + 1, of |-> of]
                  ELSE ring[i]]
    /\ head' = (head + BufSize) % Capacity
    /\ count' = Min({count + BufSize, Capacity})
    /\ published' = published + BufSize
    /\ UNCHANGED primed

\* Mutant: the mixer goes on using the buffer it gave to the chip.
MixOneShared ==
    /\ at \in 1 .. Ready
    /\ Publish([s \in srcs |-> content[dirtied[s][at]]])
    /\ IF Cardinality(srcs) = 1
       THEN \E s \in srcs, m \in clean[Mixer] : dirtied' = [dirtied EXCEPT ![s][at] = m]
       ELSE UNCHANGED dirtied
    /\ at' = at + 1
    /\ UNCHANGED <<srcs, clean, content, made, heard>>

\* One round of snd_tick's loop: a single chip's buffer is published as it
\* is and changes places with the mixer's, several are summed into it.
MixOne ==
    /\ at \in 1 .. Ready
    /\ Publish([s \in srcs |-> content[dirtied[s][at]]])
    /\ IF Cardinality(srcs) = 1
       THEN \E s \in srcs, m \in clean[Mixer] :
              /\ dirtied' = [dirtied EXCEPT ![s][at] = m]
              /\ clean' = [clean EXCEPT ![Mixer] = (@ \ {m}) \cup {dirtied[s][at]}]
       ELSE UNCHANGED <<clean, dirtied>>
    /\ at' = at + 1
    /\ UNCHANGED <<srcs, content, made, heard>>

\* The mixed buffers go back to their chips.
Reclaim ==
    /\ at > 0 /\ at = Ready + 1
    /\ clean' = [o \in DOMAIN clean |->
                   IF o \in srcs THEN clean[o] \cup {dirtied[o][i] : i \in 1 .. Ready}
                   ELSE clean[o]]
    /\ dirtied' = [s \in Chips |->
                   IF s \in srcs THEN SubSeq(dirtied[s], Ready + 1, Len(dirtied[s]))
                   ELSE dirtied[s]]
    /\ at' = 0
    /\ UNCHANGED <<srcs, content, made, ringVars, published, heard>>

-----------------------------------------------------------------------------
\* The ring's reader, and who starts it over.

\* What is left of a backlog before a copy.
Trimmed == IF count > HighWater THEN Target ELSE count

\* Mutant: the trimmed samples are counted out but played.
CopyFromOldest(max) ==
    /\ IF ~primed /\ Trimmed < Target
       THEN count' = Trimmed /\ heard' = {} /\ UNCHANGED primed
       ELSE LET n == Min({max, Trimmed}) IN
            /\ heard' = {ring[(head - count + i) % Capacity].at : i \in 0 .. n - 1}
            /\ count' = Trimmed - n
            /\ primed' = (Trimmed - n > 0)
    /\ UNCHANGED <<mixVars, ring, head, published>>

\* intv_audio_copy(max): nothing before the gate opens.
Copy(max) ==
    /\ IF ~primed /\ Trimmed < Target
       THEN /\ count' = Trimmed
            /\ heard' = {}
            /\ UNCHANGED primed
       ELSE LET n == Min({max, Trimmed}) IN
            /\ heard' = {ring[(head - Trimmed + i) % Capacity].at : i \in 0 .. n - 1}
            /\ count' = Trimmed - n
            /\ primed' = (Trimmed - n > 0)
    /\ UNCHANGED <<mixVars, ring, head, published>>

Device == \E max \in 1 .. Request : Copy(max)

\* audio_start resets the ring before it lets the device run.
ResetRing == /\ head' = 0 /\ count' = 0 /\ primed' = FALSE
             /\ UNCHANGED <<mixVars, ring, published, heard>>

AudioNext == (\E s \in Chips : Fill(s)) \/ TickBegin \/ MixOne \/ Reclaim
             \/ Device \/ ResetRing

AudioSpec == AudioInit /\ [][AudioNext]_audioVars

-----------------------------------------------------------------------------

\* Every variable has its type.
AudioTypeOK ==
    /\ srcs \in SUBSET Chips
    /\ clean \in [Chips \cup {Mixer} -> SUBSET Buffers]
    /\ dirtied \in [Chips -> Seq(Buffers)]
    /\ content \in [Buffers -> Nat] /\ made \in [Chips -> Nat]
    /\ at \in Nat /\ published \in Nat /\ heard \in SUBSET Nat
    /\ head \in 0 .. Capacity - 1 /\ count \in 0 .. Capacity /\ primed \in BOOLEAN

\* Each buffer is in exactly one list, whatever the exchange of buffers
\* between a single chip and the mixer has done, and the mixer keeps one to
\* mix into: no chip ever writes into samples that wait to be mixed, and
\* none runs out of buffers for good (snd_tick, snd_register).
OwnedOnce ==
    LET places(b) == {<<o, 0>> : o \in {x \in DOMAIN clean : b \in clean[x]}}
                     \cup {p \in Chips \X (1 .. BufCnt) :
                             p[2] \in DOMAIN dirtied[p[1]] /\ dirtied[p[1]][p[2]] = b}
    IN  /\ \A b \in Buffers : Cardinality(places(b)) = 1
        /\ Cardinality(clean[Mixer]) = BufCnt

\* What is heard was sent, in order, never twice and without a hole inside
\* an answer, across the ring's wrapping, overflow, trimming and resets.
Stream == INSTANCE LossyStream WITH sent <- published, past <- published - count
StreamSpec == Stream!Spec

=============================================================================
