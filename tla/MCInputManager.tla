--------------------------- MODULE MCInputManager ---------------------------
EXTENDS InputManager

\* Two keys and one button; a one-key bind with a button, a two-key bind
\* and a one-key bind, so that chords overlap and button counts differ.
MCKeys == {"k1", "k2"}
MCButtons == {"b1"}
MCBinds ==
    { [keys |-> {"k1"}, buttons |-> {"b1"}],
      [keys |-> {"k1", "k2"}, buttons |-> {}],
      [keys |-> {"k1"}, buttons |-> {}] }

=============================================================================
