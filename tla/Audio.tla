------------------------------- MODULE Audio -------------------------------
(***************************************************************************)
(* Sounds and emmiters (src/slt_runtime/audio): a Sound decodes a file     *)
(* that is in memory, through the callbacks of libvorbisfile, into an      *)
(* OpenAL buffer which it owns; an Emmiter owns a source and shares the    *)
(* Sound it plays. OpenAL refuses, silently for this code, to delete a     *)
(* buffer that is attached to a source, and to attach a buffer to a source *)
(* that is playing.                                                        *)
(***************************************************************************)
EXTENDS Integers, FiniteSetsExt

CONSTANTS
    Sounds,
    Emmiters,
    RawSize,  \* bytes of a file
    PcmSize,  \* bytes of the decoded samples
    SizeRange,\* 2^w, of size_t; a value from half of it on is a negative int
    OvErrors, \* the error codes of ov_read, without their sign
    MaxCursor,\* bound on the distance of cursor_ from the start of the file
    NoSound

ASSUME AudioSizes ==
    /\ RawSize \in Nat /\ PcmSize \in Nat
    /\ SizeRange \in Nat /\ SizeRange > PcmSize /\ SizeRange > RawSize
    /\ OvErrors \subseteq Nat /\ MaxCursor \in Nat
ASSUME NoSoundIsNone == NoSound \notin Sounds

VARIABLES
    sound,        \* sound[s]: "unborn", "opening", "decoding", "ready", "dead",
                  \* or "crashed", and the process with it
    cursor,       \* cursor_ of each sound
    written,      \* bytes_read of each constructor
    faults,       \* what happened to each: libvorbisfile sought outside the "file",
                  \* ov_read returned an "error", the code read outside its "bytes"
                  \* or let ov_read write outside its "samples"
    alBuffers,    \* sounds whose OpenAL buffer exists
    kept,         \* sounds the user holds a SoundRef of
    currentSound, \* current_sound_ of each emmiter, if it exists
    sourceBuffer, \* the sound whose buffer is attached to each emmiter's source
    playing,      \* emmiters whose source is playing
    displaced     \* sounds let go of by an emmiter whose source kept the buffer,
                  \* or whose last SoundRef it was

decodeVars == <<cursor, written, faults>>
playVars == <<kept, currentSound, sourceBuffer, playing, displaced>>
audVars == <<sound, decodeVars, alBuffers, playVars>>

AudInit ==
    /\ sound = [s \in Sounds |-> "unborn"]
    /\ cursor = [s \in Sounds |-> 0]
    /\ written = [s \in Sounds |-> 0]
    /\ faults = [s \in Sounds |-> {}]
    /\ alBuffers = {} /\ kept = {}
    /\ currentSound = [m \in Emmiters |-> NoSound]
    /\ sourceBuffer = [m \in Emmiters |-> NoSound]
    /\ playing = {} /\ displaced = {}

-----------------------------------------------------------------------------
\* The process lives.
Lives == \A s \in Sounds : sound[s] # "crashed"

\* The constructor generates the buffer and calls ov_open_callbacks, which reads
\* and seeks.
BeginDecode(s) ==
    /\ Lives /\ sound[s] = "unborn"
    /\ sound' = [sound EXCEPT ![s] = "opening"]
    /\ alBuffers' = alBuffers \cup {s}
    /\ UNCHANGED <<decodeVars, playVars>>

Opens(s) ==
    /\ Lives /\ sound[s] = "opening"
    /\ sound' = [sound EXCEPT ![s] = "decoding"]
    /\ UNCHANGED <<decodeVars, alBuffers, playVars>>

\* What ov_open_callbacks returns is ignored: if it failed, the null that ov_info
\* returns is dereferenced.
OpenFails(s) ==
    /\ Lives /\ sound[s] = "opening"
    /\ sound' = [sound EXCEPT ![s] = "crashed"]
    /\ UNCHANGED <<decodeVars, alBuffers, playVars>>

-----------------------------------------------------------------------------
InLibrary(s) == Lives /\ sound[s] \in {"opening", "decoding"}

\* n bytes are copied from the cursor on. (Outside of the file that is undefined:
\* it works, as here, or ends the process, which adds no step.)
Copies(s, n) ==
    /\ cursor[s] + n <= MaxCursor
    /\ cursor' = [cursor EXCEPT ![s] = @ + n]
    /\ faults' = [faults EXCEPT ![s] = @ \cup
                     IF n > 0 /\ ~(0 <= cursor[s] /\ cursor[s] + n <= RawSize)
                     THEN {"bytes"} ELSE {}]
    /\ UNCHANGED <<sound, written, alBuffers, playVars>>

\* A plausible bug: what is asked for is copied.
ReadUnclamped(s) == InLibrary(s) /\ \E asked \in 1 .. RawSize + 1 : Copies(s, asked)

\* decode_read copies what is left of what is asked for. What is left is a
\* size_t, and large if the cursor is after the end.
DecodeRead(s) ==
    /\ InLibrary(s)
    /\ \E asked \in 1 .. RawSize + 1 :
           Copies(s, Min({asked, (RawSize - cursor[s]) % SizeRange}))

\* decode_seek goes where it is told, unchecked, and reports success. (Where the
\* file ends libvorbisfile knows from decode_tell; where it goes it computes from
\* what it read.)
Base(s, whence) ==
    CASE whence = "SEEK_SET" -> 0
      [] whence = "SEEK_CUR" -> cursor[s]
      [] whence = "SEEK_END" -> RawSize
DecodeSeek(s) ==
    /\ InLibrary(s)
    /\ \E whence \in {"SEEK_SET", "SEEK_CUR", "SEEK_END"},
          offset \in -2 * MaxCursor .. 2 * MaxCursor :
           LET to == Base(s, whence) + offset
           IN  /\ to \in -MaxCursor .. MaxCursor
               /\ cursor' = [cursor EXCEPT ![s] = to]
               /\ faults' = [faults EXCEPT ![s] = @ \cup
                                IF to \in 0 .. RawSize THEN {} ELSE {"file"}]
    /\ UNCHANGED <<sound, written, alBuffers, playVars>>

\* One round of the loop around ov_read, which is told how much it may write.
\* What it returns, 0 and errors too, is added to bytes_read.
OvRead(s) ==
    /\ Lives /\ sound[s] = "decoding" /\ written[s] < PcmSize
    /\ \/ \E n \in 0 .. (PcmSize - written[s]) % SizeRange :
             /\ written' = [written EXCEPT ![s] = (@ + n) % SizeRange]
             /\ faults' = [faults EXCEPT ![s] = @ \cup
                              IF written[s] + n > PcmSize THEN {"samples"} ELSE {}]
       \/ \E e \in OvErrors :
             /\ written' = [written EXCEPT ![s] = (@ - e) % SizeRange]
             /\ faults' = [faults EXCEPT ![s] = @ \cup {"error"}]
    /\ UNCHANGED <<sound, cursor, alBuffers, playVars>>

\* alBufferData, and the event that gives the sound to the user. (Of an error
\* larger than what was read the size is negative, and the buffer stays empty.)
EndDecode(s) ==
    /\ Lives /\ sound[s] = "decoding" /\ written[s] >= PcmSize
    /\ sound' = [sound EXCEPT ![s] = "ready"]
    /\ kept' = kept \cup {s}
    /\ UNCHANGED <<decodeVars, alBuffers, currentSound, sourceBuffer, playing, displaced>>

-----------------------------------------------------------------------------
\* Somebody holds s after the step.
StillHeld(s) == s \in kept' \/ \E m \in Emmiters : currentSound'[m] = s

\* ~Sound of s if nobody holds it any more: ov_clear, which calls decode_close,
\* and alDeleteBuffers, while the sources have the buffers that `sources` says.
LetGo(s, sources) ==
    IF s = NoSound \/ StillHeld(s)
    THEN UNCHANGED <<sound, cursor, alBuffers>>
    ELSE /\ sound' = [sound EXCEPT ![s] = "dead"]
         /\ cursor' = [cursor EXCEPT ![s] = 0]
         /\ alBuffers' = IF \E m \in Emmiters : sources[m] = s
                         THEN alBuffers ELSE alBuffers \ {s}

\* The user drops a SoundRef.
Drop(s) ==
    /\ Lives /\ s \in kept
    /\ kept' = kept \ {s}
    /\ UNCHANGED <<written, faults, currentSound, sourceBuffer, playing, displaced>>
    /\ LetGo(s, sourceBuffer)

\* play, with a SoundRef that is copied or moved. The old sound is let go before
\* the source is told, and a playing source keeps its buffer and starts again.
Play(m, s) ==
    /\ Lives /\ s \in kept
    /\ kept' \in {kept, kept \ {s}}
    /\ currentSound' = [currentSound EXCEPT ![m] = s]
    /\ LetGo(currentSound[m], sourceBuffer)
    /\ displaced' =
           IF currentSound[m] \notin {NoSound, s} /\ (m \in playing \/ ~StillHeld(currentSound[m]))
           THEN displaced \cup {currentSound[m]} ELSE displaced
    /\ sourceBuffer' = IF m \in playing THEN sourceBuffer ELSE [sourceBuffer EXCEPT ![m] = s]
    /\ playing' = playing \cup {m}
    /\ UNCHANGED <<written, faults>>

\* A source comes to the end of its buffer.
Finish(m) ==
    /\ Lives /\ m \in playing
    /\ playing' = playing \ {m}
    /\ UNCHANGED <<sound, decodeVars, alBuffers, kept, currentSound, sourceBuffer, displaced>>

\* A plausible bug: the SoundRef goes before the source.
DestroySoundFirst(m) ==
    /\ Lives /\ currentSound[m] # NoSound
    /\ currentSound' = [currentSound EXCEPT ![m] = NoSound]
    /\ sourceBuffer' = [sourceBuffer EXCEPT ![m] = NoSound]
    /\ playing' = playing \ {m}
    /\ UNCHANGED <<written, faults, kept, displaced>>
    /\ LetGo(currentSound[m], sourceBuffer)

\* ~Emmiter deletes the source, and with it the attachment; then the SoundRef
\* goes. (An emmiter without a sound is as good as a new one.)
DestroyEmmiter(m) ==
    /\ Lives /\ currentSound[m] # NoSound
    /\ currentSound' = [currentSound EXCEPT ![m] = NoSound]
    /\ sourceBuffer' = [sourceBuffer EXCEPT ![m] = NoSound]
    /\ playing' = playing \ {m}
    /\ UNCHANGED <<written, faults, kept, displaced>>
    /\ LetGo(currentSound[m], sourceBuffer')

AudNext ==
    \/ \E s \in Sounds :
           \/ BeginDecode(s) \/ Opens(s) \/ OpenFails(s)
           \/ DecodeRead(s) \/ DecodeSeek(s) \/ OvRead(s) \/ EndDecode(s)
           \/ Drop(s)
    \/ \E m \in Emmiters, s \in Sounds : Play(m, s)
    \/ \E m \in Emmiters : Finish(m) \/ DestroyEmmiter(m)

AudSpec == AudInit /\ [][AudNext]_audVars

-----------------------------------------------------------------------------
(***************************************************************************)
(* decode_read does not read outside the file, however it is asked, unless *)
(* libvorbisfile had sought outside it, which decode_seek lets it. The     *)
(* samples are not written outside their vector, whatever ov_read returned *)
(* before, although bytes_read wraps around. And a sound that is played    *)
(* has all of its samples, unless ov_read reported an error, which ends    *)
(* the loop early or has it write samples twice.                           *)
(***************************************************************************)
DecodesInBounds ==
    \A s \in Sounds :
        /\ "bytes" \in faults[s] => "file" \in faults[s]
        /\ "samples" \notin faults[s]
        /\ sound[s] = "ready" => written[s] = PcmSize \/ "error" \in faults[s]

(***************************************************************************)
(* The buffer of a Sound that is gone is gone too, unless an emmiter was   *)
(* given another sound to play while its source was playing, or held the   *)
(* last reference: play lets go of the old sound while its buffer is still *)
(* attached. And no source has a buffer that does not exist.               *)
(***************************************************************************)
BuffersReleased ==
    /\ \A s \in Sounds : sound[s] = "dead" /\ s \in alBuffers => s \in displaced
    /\ \A m \in Emmiters : sourceBuffer[m] \in alBuffers \cup {NoSound}
=============================================================================
