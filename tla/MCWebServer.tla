---------------------------- MODULE MCWebServer -----------------------------
EXTENDS WebServer

\* Four pictures for one worker; two for two of them; jobs and other requests.
MCBounds ==
  { [id |-> 1, line |-> 0, upload |-> 4, other |-> 0],
    [id |-> 2, line |-> 1, upload |-> 2, other |-> 0],
    [id |-> 2, line |-> 2, upload |-> 0, other |-> 2] }
=============================================================================
