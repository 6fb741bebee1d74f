--------------------------- MODULE MCSoundBuffers ---------------------------
(* Two threads, two voices, two blocks of PCM. *)
EXTENDS SoundBuffers

CONSTANTS t1, t2, v1, v2, p1, p2

MCThreads == {t1, t2}
MCOne == {t1}
MCVoices == {v1, v2}
MCPcms == {p1, p2}
=============================================================================
