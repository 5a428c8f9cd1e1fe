CONSTANTS
    Chars <- MCChars
    MaxFmt = 4
    Ptr = Ptr
    Num = Num
    Text = Text
    TextChars <- MCTextChars
SPECIFICATION Spec
INVARIANT TypeOK
INVARIANT PlainFormatsMatchC
INVARIANT LoggedCallShowsArgs
