--------------------------- MODULE MCMemoryBudget --------------------------
EXTENDS MemoryBudget
============================================================================
