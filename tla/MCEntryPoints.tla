----------------------------- MODULE MCEntryPoints -----------------------------
EXTENDS EntryPoints, TLC

===============================================================================
