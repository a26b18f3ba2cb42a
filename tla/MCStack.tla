------------------------------- MODULE MCStack -------------------------------
EXTENDS Stack

MCPageSize == {10, 50}
=============================================================================
