------------------------ MODULE MCTranslatedRequest ------------------------
EXTENDS TranslatedRequest

Route(client, endpoint, most, quirks) ==
    [client |-> client, endpoint |-> endpoint, most |-> most, quirks |-> quirks,
     rejects |-> FALSE]

\* Two calls with their results, and two parts more, fit into a conversation.
HandledRequests ==
    {[Route("responses", "claude", 5, q) EXCEPT !.rejects = b] :
       q \in {{"interrupted", "late", "twice", "think"}, {"interrupted", "late", "anonymous", "standalone"}},
       b \in BOOLEAN}
    \union {[Route("responses", "claude", 5, {"interrupted", "reminder", "think", "foreign"})
               EXCEPT !.rejects = b] : b \in BOOLEAN}
    \union {Route("chat", "claude", 6, {"twice", "think"}),
            Route("chat", "claude", 6, {"reminder", "think"}),
            Route("claude", "chat", 6, {"reminder", "think"}),
            Route("responses", "chat", 6, {"interrupted", "late", "reminder"}),
            Route("responses", "chat", 5, {"interrupted", "late", "twice", "anonymous", "standalone"}),
            Route("responses", "chat", 5, {"twice", "think"}),
            Route("claude", "codex", 6, {"reminder", "plain", "foreign"}),
            Route("chat", "codex", 6, {"twice"})}
=============================================================================
