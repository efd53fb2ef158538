------------------------------- MODULE Audio -------------------------------
(***************************************************************************)
(* The tone generator (src/src/devices/audio.c): two square waves are      *)
(* mixed into a ring that the host drains.  Draining moves nothing: the    *)
(* ring always gives its newest samples.  The code never sets the status,  *)
(* so it has none here.                                                    *)
(***************************************************************************)
EXTENDS Integers, Sequences
LOCAL INSTANCE SequencesExt

CONSTANTS
  Samples,        \* slots of the ring (AUDIO_SAMPLE_BUFFER)
  Positions,      \* the write position counts modulo Positions (2^32)
  Loud,           \* a volume is 0 .. Loud (255)
  Clip,           \* a sample is -Clip .. Clip - 1 (128)
  Freqs, Volumes, \* bounds: the half periods and the volumes programs write
  MaxTick         \* bound: cycles of one tick

ASSUME AudioAssumption ==
  /\ Samples \in Nat \ {0} /\ Positions \in Nat \ {0} /\ Positions % Samples = 0
  /\ Loud \in Nat /\ Clip \in Nat \ {0} /\ Freqs \cup Volumes \subseteq Nat /\ MaxTick \in Nat

Voice == {0, 1}

VARIABLES
  freq, volume, phase,   \* of each voice
  voices,                \* the bits of ctrl: voices, and 2 for any other bit
  sampleBuf, sampleWritePos,
  generated              \* history: the newest samples, the oldest first

audioVars == <<freq, volume, phase, voices, sampleBuf, sampleWritePos, generated>>

Silent == [ch \in Voice |-> 0]
AudioInit ==
  /\ freq = Silent /\ volume = Silent /\ phase = Silent /\ voices = {}
  /\ sampleBuf = [i \in 0 .. Samples - 1 |-> 0]
  /\ sampleWritePos = 0 /\ generated = <<>>
audioReset ==
  /\ freq' = Silent /\ volume' = Silent /\ phase' = Silent /\ voices' = {}
  /\ sampleBuf' = [i \in 0 .. Samples - 1 |-> 0]
  /\ sampleWritePos' = 0 /\ generated' = <<>>

WriteFreq(ch, f) ==
  /\ freq' = [freq EXCEPT ![ch] = f]
  /\ UNCHANGED <<volume, phase, voices, sampleBuf, sampleWritePos, generated>>
WriteVolume(ch, w) ==
  /\ volume' = [volume EXCEPT ![ch] = w % (Loud + 1)]
  /\ UNCHANGED <<freq, phase, voices, sampleBuf, sampleWritePos, generated>>
WriteAudioCtrl(bits) ==
  /\ voices' = bits
  /\ UNCHANGED <<freq, volume, phase, sampleBuf, sampleWritePos, generated>>

----------------------------------------------------------------------------
(* A tick: for each cycle, the phases of the voices that sound move on and *)
(* their mix is clipped and put into the ring.                             *)

Sounds(ch) == ch \in voices /\ freq[ch] # 0
Turned(ph) == [ch \in Voice |->
  IF Sounds(ch) THEN IF ph[ch] + 1 >= 2 * freq[ch] THEN 0 ELSE ph[ch] + 1 ELSE ph[ch]]
Level(ch, ph) ==
  IF ~Sounds(ch) THEN 0 ELSE IF ph[ch] < freq[ch] THEN volume[ch] ELSE -volume[ch]
Clamp(mix) == IF mix > Clip - 1 THEN Clip - 1 ELSE IF mix < -Clip THEN -Clip ELSE mix
Mix(ph) == Clamp(Level(0, ph) + Level(1, ph))

Newest(s, n) == SubSeq(s, Len(s) - n + 1, Len(s))
Least(m, n) == IF m <= n THEN m ELSE n
Sampled(st) ==
  LET ph == Turned(st.phase)
      all == Append(st.generated, Mix(ph))
  IN [phase |-> ph,
      buf |-> [st.buf EXCEPT ![st.pos % Samples] = Mix(ph)],
      pos |-> (st.pos + 1) % Positions,
      generated |-> Newest(all, Least(Len(all), Samples))]

audioTick(cycles) ==
  /\ voices # {}
  /\ LET st == FoldLeft(LAMBDA t, c : Sampled(t),
                 [phase |-> phase, buf |-> sampleBuf,
                  pos |-> sampleWritePos, generated |-> generated],
                 [c \in 1 .. cycles |-> c])
     IN /\ phase' = st.phase /\ sampleBuf' = st.buf
        /\ sampleWritePos' = st.pos /\ generated' = st.generated
  /\ UNCHANGED <<freq, volume, voices>>

\* audioDrainSamples: what the host is given when it has room for max samples.
Available(max) == Least(Least(sampleWritePos, Samples), max)
DrainedFromOldest(max) ==                                  \* a mutant of the next
  LET start == (sampleWritePos - Least(sampleWritePos, Samples)) % Samples
  IN [i \in 1 .. Available(max) |-> sampleBuf[(start + i - 1) % Samples]]
Drained(max) ==
  LET start == (sampleWritePos - Available(max)) % Samples
  IN [i \in 1 .. Available(max) |-> sampleBuf[(start + i - 1) % Samples]]

AudioNext ==
  \/ (\E ch \in Voice, f \in Freqs : WriteFreq(ch, f))
  \/ (\E ch \in Voice, w \in Volumes : WriteVolume(ch, w))
  \/ (\E bits \in SUBSET (Voice \cup {2}) : WriteAudioCtrl(bits))
  \/ (\E c \in 0 .. MaxTick : audioTick(c))
  \/ audioReset

AudioSpec == AudioInit /\ [][AudioNext]_audioVars

----------------------------------------------------------------------------
(* A drain gives the newest samples generated, in their order, as many as the *)
(* host has room for and the ring holds.  The ring counts them by the write   *)
(* position: each time that one wraps, it gives what came since.              *)
DrainsNewest ==
  \A max \in 0 .. Samples + 1 :
    Drained(max) = Newest(generated, Least(Least(sampleWritePos, Samples), max))
=============================================================================
