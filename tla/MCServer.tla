------------------------------- MODULE MCServer -------------------------------
EXTENDS Server

\* Zero and negative values fall back to DefaultWorkers, like an unset one.
WorkerSettings == {-1, 0}
===============================================================================
