SPECIFICATION Spec
CONSTANTS
  None = None
  hello = hello
  hellos = hellos
  greeting = greeting
  greetings = greetings
  a = a
  Threads = {t1}
  Assets = {k1, k2}
  Slugs = {a}
  MaxRequests = 1
  Callers = {c1, c2}
  Worker = w
  Texts = {hello, hellos}
  Keys = {greeting, greetings}
  KeyOf <- MCKeyOf
  SlugOf <- MCSlugOf
  MaxTts = 2
CONSTRAINT OnlyDeletions
CHECK_DEADLOCK FALSE
INVARIANTS
  RequestsAreSound
  SpeechIsShared
PROPERTIES
  CompletedStaysCompleted
  JobsEnd
