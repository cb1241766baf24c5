----------------------------- MODULE MCBackend -----------------------------
\* Two cameras, of which discovery lists a first, and two collections.
EXTENDS Backend
CONSTANTS a, b
MCTable == <<a, b>>
=============================================================================
