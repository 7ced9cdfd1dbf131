SPECIFICATION Spec
CONSTANTS
 a = a
 b = b
 Rule = Rule
 Like = Like
 Blank = Blank
 Nil = Nil
 Words = {a, b}
 Local = {a}
 Near <- NearA
 OnServer = {b}
 OnNet = {a, Like}
 ShowFirst = {TRUE}
 Settings <- SomeSettings
 MaxAsked = 2
 MaxNet = 1
 Searched = {a}
 MaxSearch = 1
INVARIANTS AwaitedIsAsked OldTextOnlyWhileWaiting
