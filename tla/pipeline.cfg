\* Every text of five characters, Markdown and PDF files of up to three lines or
\* pages, chunk sizes up to four with and without overlap, batches of two texts;
\* the steps run on.
SPECIFICATION FairPipelineSpec
CONSTANTS
    Characters <- CharacterClasses
    Inputs <- NoDocuments
    Settings <- SomeSettings
    Blanks <- BlankCharacters
    Separators <- SeparatorStrings
    Sources <- Files
    WhiteSpace <- BlankCharacters
    NoTitle = NoTitle
    TitleA = TitleA
    TitleB = TitleB
    BatchSize = 2
    Dimensions = {1, 2}
    Qualities = {"good", "invalid", "large"}
    MaxLength = 5
INVARIANTS NothingLost ChunksFit TextReachesChunks IndexMatchesChunks
    AcceptedIsEmbeddable LoadedWhole
PROPERTIES EndsInOrder Completes
