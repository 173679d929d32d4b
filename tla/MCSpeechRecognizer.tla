------------------------- MODULE MCSpeechRecognizer -------------------------
(* SpeechRecognizer for TLC. *)
EXTENDS SpeechRecognizer

\* None, and one of two reads that is no multiple of them.
SomeTimeouts == {NoTimeout, 3}

\* Also one that is too long for an int.
MoreTimeouts == SomeTimeouts \cup {5}

\* ERROR_INVALID_OPERATION
SomeErrors == {-3}
=============================================================================
