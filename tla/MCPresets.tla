------------------------------ MODULE MCPresets ------------------------------
\* Two cameras with the same preset tokens, two threads at a time.
EXTENDS Presets
CONSTANTS a, b
=============================================================================
