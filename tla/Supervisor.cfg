SPECIFICATION FairSpec
CONSTANTS
  Requests = {r1, r2}
  Shutters = {s1, s2}
  r1 = r1
  r2 = r2
  s1 = s1
  s2 = s2
  Windows = TRUE
  MaxInt = 2147483647
  Second = 1000
  Longest = 2000000000
  EnvironmentNames = {"KEY", "ANTHROPIC_API_KEY", "GEMINI_API_KEY", "GOOGLE_API_KEY", "GOOGLE_APPLICATION_CREDENTIALS", "GOOGLE_CLOUD_PROJECT", "GOOGLE_CLOUD_LOCATION"}
  Aliases = {"a", "b"}
  Arguments = {"x"}
  Texts = {"file", "environment", "none", "KEY", "ANTHROPIC_API_KEY", "GEMINI_API_KEY", "GOOGLE_API_KEY", "GOOGLE_APPLICATION_CREDENTIALS", "GOOGLE_CLOUD_PROJECT", "GOOGLE_CLOUD_LOCATION", "a", "b", "x", "codex", "claude", "gemini", "/root", "/key", "/other", "/node", "/script", "/home", "/cli"}
  Strings = {"/odd", "file", "environment", "none", "KEY", "ANTHROPIC_API_KEY", "GEMINI_API_KEY", "GOOGLE_API_KEY", "GOOGLE_APPLICATION_CREDENTIALS", "GOOGLE_CLOUD_PROJECT", "GOOGLE_CLOUD_LOCATION", "a", "b", "x", "codex", "claude", "gemini", "/root", "/key", "/other", "/node", "/script", "/home", "/cli"}
  Paths = {"/root", "/key", "/other", "/node", "/script", "/home", "/cli", "/odd"}
  NodeFiles = {"/node", "/odd"}
  Modules = {"/script"}
INVARIANTS OwnedByLease ShutdownIsFinal AnswersHonestly
PROPERTIES ShutdownSucceeds
CHECK_DEADLOCK FALSE
