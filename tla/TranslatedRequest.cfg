CONSTANT RequestProfiles <- HandledRequests
SPECIFICATION Spec
INVARIANTS UpstreamAccepts NothingIsLost OrderIsKept ResultsMeetCalls
CHECK_DEADLOCK FALSE
